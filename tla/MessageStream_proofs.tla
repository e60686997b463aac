-------------------------- MODULE MessageStream_proofs --------------------------
(***************************************************************************)
(* Theorems about MessageStream.  For every host, however many addresses   *)
(* it has and whatever they do, the process keeps one descriptor for a     *)
(* connection, and one socket that closes it.  Every message is read back  *)
(* as it was written, with integers of any number of bytes; and for every  *)
(* sequence of frames, however the stream is cut and wherever it ends,     *)
(* what is received is what was sent.  The invariant is that the bytes     *)
(* not yet taken are what is left of the frames from one of them on, or    *)
(* from its body on.                                                       *)
(***************************************************************************)
EXTENDS MessageStream, SequenceTheorems, WellFoundedInduction, TLAPS

----------------------------------------------------------------------------
(* The descriptor of a connection *)

\* A descriptor is a number of an address; while the addresses are tried, and
\* once the connection has been given up, there is none.
Owners ==
  /\ tried \in Nat
  /\ fd \in [sock : Nat \cup {-1}, conn : Nat \cup {-1}]
  /\ pc \in {"connect", "recv", "failed"}
  /\ open = {fd.sock, fd.conn} \ {-1}
  /\ pc = "recv" => (fd.sock = -1 <=> fd.conn # -1)
  /\ pc # "recv" => fd = NoSockets

LEMMA NoSocketsOpen ==
  /\ NoSockets \in [sock : Nat \cup {-1}, conn : Nat \cup {-1}]
  /\ NoSockets.sock = -1 /\ NoSockets.conn = -1
  BY DEF NoSockets

LEMMA InitOwners == Init => Owners
  BY NoSocketsOpen DEF Init, Owners

\* An exception leaves nothing open, whichever socket has the descriptor.
LEMMA ThrowOwners == ASSUME Owners, Throw PROVE Owners'
  BY NoSocketsOpen DEF Owners, Throw

LEMMA ConnectingOwners == ASSUME Owners, Connecting PROVE Owners'
  <1>1. CASE AddressRefuses \/ NoSocket
    <2>1. fd = NoSockets /\ fd' = NoSockets /\ tried \in Nat /\ tried' = tried + 1
            /\ UNCHANGED <<open, pc>> /\ pc = "connect"
      BY <1>1 DEF AddressRefuses, NoSocket, Try, Owners
    <2> QED
      BY <2>1, NoSocketsOpen DEF Owners
  <1>2. CASE AddressAccepts
    <2>1. /\ fd = NoSockets /\ tried \in Nat /\ open = {} /\ pc' = "recv" /\ tried' = tried + 1
          /\ fd' = [fd EXCEPT !.sock = tried + 1] /\ open' = {tried + 1}
      BY <1>2, NoSocketsOpen DEF AddressAccepts, Try, Owners
    <2>2. fd' = [sock |-> tried + 1, conn |-> -1]
      BY <2>1 DEF NoSockets
    <2> QED
      BY <2>1, <2>2 DEF Owners
  <1>3. CASE CannotConnect
    BY <1>3, ThrowOwners DEF CannotConnect
  <1> QED
    BY <1>1, <1>2, <1>3 DEF Connecting

\* The descriptor changes its socket; what is moved from closes nothing.
LEMMA HandOverOwners == ASSUME Owners, HandOver PROVE Owners'
  <1>1. /\ fd.sock \in Nat /\ fd.conn = -1 /\ open = {fd.sock} /\ pc = "recv"
    BY DEF HandOver, Owners
  <1>2. fd' = [sock |-> -1, conn |-> fd.sock] /\ open' = {fd.sock} /\ UNCHANGED <<tried, pc>>
    BY <1>1 DEF HandOver, MovedFrom
  <1> QED
    BY <1>1, <1>2 DEF Owners

LEMMA TransferOwners ==
  ASSUME Owners, Send \/ Close \/ Receiving \/ Stopped \/ UNCHANGED vars
  PROVE  Owners'
  <1>1. UNCHANGED <<socket, pc>> \/ Throw
    BY DEF Send, Close, Receiving, Receive, ReceiveFails, TakeLength, TakeBody, Stopped, vars
  <1>2. CASE UNCHANGED <<socket, pc>>
    BY <1>2 DEF Owners, socket
  <1> QED
    BY <1>1, <1>2, ThrowOwners

\* For every host and every stream, whenever the connection ends: no address
\* that failed leaves a descriptor behind, and none has two owners or no owner.
THEOREM DescriptorOwned == Spec => []OneDescriptor
  <1>1. Init => Owners
    BY InitOwners
  <1>2. Owners /\ [Next]_vars => Owners'
    BY ConnectingOwners, HandOverOwners, TransferOwners DEF Next
  <1>3. Owners => OneDescriptor
    BY DEF Owners, OneDescriptor
  <1> QED
    BY <1>1, <1>2, <1>3, PTL DEF Spec

----------------------------------------------------------------------------
(* Sequences, one after the other *)

\* A set of numbers that is not empty has a least element.
LEMMA LeastOf ==
  ASSUME NEW I \in SUBSET Nat, I # {}
  PROVE  \E i \in I : \A j \in I : i <= j
  <1>1. PICK t \in I : \A s \in I : ~(<<s, t>> \in OpToRel(<, Nat))
    BY NatLessThanWellFounded, WFMin
  <1>2. ASSUME NEW s \in I, ~(t <= s) PROVE FALSE
    <2>1. <<s, t>> \in Nat \X Nat /\ <<s, t>>[1] = s /\ <<s, t>>[2] = t /\ s < t
      BY <1>2
    <2>2. <<s, t>> \in {ss \in Nat \X Nat : ss[1] < ss[2]}
      BY <2>1
    <2> QED BY <1>1, <2>2 DEF OpToRel
  <1> QED BY <1>2

\* Three sequences in a row, grouped either way.
LEMMA Regroup ==
  ASSUME NEW S, NEW a \in Seq(S), NEW b \in Seq(S), NEW c \in Seq(S)
  PROVE  (a \o b) \o c = a \o (b \o c)
  <1> DEFINE l == (a \o b) \o c
             r == a \o (b \o c)
  <1>1. Len(a) \in Nat /\ Len(b) \in Nat /\ Len(c) \in Nat
    OBVIOUS
  <1>2. a \o b \in Seq(S) /\ b \o c \in Seq(S) /\ l \in Seq(S) /\ r \in Seq(S)
    BY ConcatProperties
  <1>3. Len(l) = Len(a) + Len(b) + Len(c) /\ Len(r) = Len(a) + Len(b) + Len(c)
    BY <1>1, <1>2
  <1>4. ASSUME NEW i \in 1 .. Len(l) PROVE l[i] = r[i]
    <2>1. l[i] = IF i <= Len(a) + Len(b) THEN (a \o b)[i] ELSE c[i - (Len(a) + Len(b))]
      BY <1>1, <1>2, <1>3
    <2>2. r[i] = IF i <= Len(a) THEN a[i] ELSE (b \o c)[i - Len(a)]
      BY <1>1, <1>2, <1>3
    <2> QED BY <1>1, <1>2, <1>3, <2>1, <2>2
  <1> QED BY <1>2, <1>3, <1>4, SeqEqual

\* What is flattened step by step: the parts up to each of them.
ArePrefixes(seqs, G) ==
  /\ G[0] = << >>
  /\ \A i \in 1 .. Len(seqs) : G[i] = G[i - 1] \o seqs[i]

\* Every sequence of sequences has these parts.  The lengths up to which it has
\* none have no least.
LEMMA PrefixesExist ==
  ASSUME NEW S, NEW seqs \in Seq(Seq(S))
  PROVE  \E G \in [0 .. Len(seqs) -> Seq(S)] : ArePrefixes(seqs, G)
  <1> DEFINE n == Len(seqs)
             Upto(m, g) == g[0] = << >> /\ \A i \in 1 .. m : g[i] = g[i - 1] \o seqs[i]
             Bad == {m \in 0 .. n : ~ \E g \in [0 .. n -> Seq(S)] : Upto(m, g)}
  <1>1. n \in Nat
    OBVIOUS
  <1>2. Bad = {}
    <2> SUFFICES ASSUME Bad # {} PROVE FALSE
      OBVIOUS
    <2>1. Bad \in SUBSET Nat
      <3> HIDE DEF n, Upto
      <3> QED BY <1>1
    <2>2. PICK m \in Bad : \A k \in Bad : m <= k
      BY <2>1, LeastOf
    <2>3. m # 0
      <3>1. [i \in 0 .. n |-> << >>] \in [0 .. n -> Seq(S)]
        OBVIOUS
      <3>2. m = 0 => Upto(m, [i \in 0 .. n |-> << >>])
        BY <1>1
      <3> QED BY <3>1, <3>2
    <2>4. m \in 1 .. n /\ m - 1 \in 0 .. n /\ m - 1 \notin Bad
      <3>1. m \in 0 .. n /\ n \in Nat
        BY <2>2, <1>1
      <3>2. m \in 1 .. n /\ m - 1 \in 0 .. n /\ ~(m <= m - 1)
        BY <2>3, <3>1
      <3> QED BY <2>2, <3>2
    <2>5. PICK f \in [0 .. n -> Seq(S)] : Upto(m - 1, f)
      BY <2>4
    <2> DEFINE g == [f EXCEPT ![m] = f[m - 1] \o seqs[m]]
    <2>6. seqs[m] \in Seq(S) /\ f[m - 1] \in Seq(S)
      <3>1. seqs[m] \in Seq(S)
        BY <2>4, ElementOfSeq
      <3> QED BY <2>4, <2>5, <3>1
    <2>7. g \in [0 .. n -> Seq(S)]
      BY <2>6
    <2>8. ASSUME NEW i \in 1 .. m PROVE g[i] = g[i - 1] \o seqs[i]
      <3>1. i \in 0 .. n /\ i - 1 \in 0 .. n /\ i - 1 # m /\ (i # m => i \in 1 .. m - 1)
        BY <1>1, <2>4, <2>8
      <3>2. CASE i = m
        BY <2>4, <3>1, <3>2
      <3>3. CASE i # m
        BY <2>5, <3>1, <3>3
      <3> QED BY <3>2, <3>3
    <2>9. g[0] = << >>
      BY <2>4, <2>5
    <2>10. Upto(m, g)
      BY <2>8, <2>9
    <2> HIDE DEF g, Upto
    <2> QED BY <2>2, <2>7, <2>10
  <1>3. n \in 0 .. n
    BY <1>1
  <1>4. \E G \in [0 .. n -> Seq(S)] : Upto(n, G)
    <2> HIDE DEF n, Upto
    <2> QED BY <1>2, <1>3
  <1> QED BY <1>4 DEF ArePrefixes

\* The last of the parts is what FlattenSeq makes of it.
LEMMA FlattenIs ==
  ASSUME NEW S, NEW seqs \in Seq(Seq(S)),
         NEW G \in [0 .. Len(seqs) -> Seq(S)], ArePrefixes(seqs, G)
  PROVE  FlattenSeq(seqs) = G[Len(seqs)]
  <1> DEFINE n == Len(seqs)
             Step(f) == [i \in 1 .. n |-> IF i = 1 THEN seqs[i] ELSE f[i - 1] \o seqs[i]]
             F == CHOOSE f : f = Step(f)
  <1>1. n \in Nat
    OBVIOUS
  <1>2. CASE n = 0
    <2>1. seqs = << >>
      BY <1>2, EmptySeq
    <2> QED BY <1>2, <2>1 DEF FlattenSeq, ArePrefixes
  <1>3. CASE n # 0
    <2>1. FlattenSeq(seqs) = F[n]
      BY <1>3 DEF FlattenSeq
    <2> DEFINE g == [i \in 1 .. n |-> G[i]]
    <2>2. ASSUME NEW i \in 1 .. n
          PROVE  G[i] = IF i = 1 THEN seqs[i] ELSE G[i - 1] \o seqs[i]
      <3>1. seqs[i] \in Seq(S)
        BY <2>2, ElementOfSeq
      <3>2. << >> \o seqs[i] = seqs[i]
        BY <3>1, ConcatEmptySeq
      <3>3. G[i] = G[i - 1] \o seqs[i] /\ (i = 1 => G[i - 1] = << >>)
        BY <2>2 DEF ArePrefixes
      <3> QED BY <3>2, <3>3
    <2>3. g = Step(g)
      <3>1. \A i \in 1 .. n : i # 1 => i - 1 \in 1 .. n
        BY <1>1
      <3> QED BY <2>2, <3>1
    <2>4. F = Step(F)
      <3> HIDE DEF Step, g
      <3> QED BY <2>3
    <2>5. \A i \in 1 .. n : F[i] = IF i = 1 THEN seqs[i] ELSE F[i - 1] \o seqs[i]
      BY <2>4
    <2> HIDE DEF F
    <2> DEFINE Bad == {m \in 1 .. n : F[m] # G[m]}
    <2>6. Bad = {}
      <3> SUFFICES ASSUME Bad # {} PROVE FALSE
        OBVIOUS
      <3>1. Bad \in SUBSET Nat
        OBVIOUS
      <3>2. PICK m \in Bad : \A k \in Bad : m <= k
        BY <3>1, LeastOf
      <3>3. m # 1 => m - 1 \in 1 .. n /\ m - 1 \notin Bad
        BY <1>1, <3>2
      <3> QED BY <2>2, <2>5, <3>2, <3>3
    <2>7. n \in 1 .. n
      BY <1>1, <1>3
    <2> QED BY <2>1, <2>6, <2>7
  <1> QED BY <1>2, <1>3


\* One sequence more is added at the end.
LEMMA FlattenMore ==
  ASSUME NEW S, NEW seqs \in Seq(Seq(S)), NEW k \in 0 .. Len(seqs) - 1
  PROVE  /\ FlattenSeq([j \in 1 .. k |-> seqs[j]]) \in Seq(S)
         /\ FlattenSeq([j \in 1 .. k + 1 |-> seqs[j]])
              = FlattenSeq([j \in 1 .. k |-> seqs[j]]) \o seqs[k + 1]
  <1>1. PICK G \in [0 .. Len(seqs) -> Seq(S)] : ArePrefixes(seqs, G)
    BY PrefixesExist
  <1>2. Len(seqs) \in Nat /\ DOMAIN seqs = 1 .. Len(seqs)
    OBVIOUS
  <1>3. ASSUME NEW m \in 0 .. Len(seqs)
        PROVE  FlattenSeq([j \in 1 .. m |-> seqs[j]]) = G[m]
    <2> DEFINE some == [j \in 1 .. m |-> seqs[j]]
               g    == [i \in 0 .. m |-> G[i]]
    <2>1. m \in Nat /\ 1 .. m \subseteq 1 .. Len(seqs) /\ 0 .. m \subseteq 0 .. Len(seqs)
      BY <1>2
    <2>2. some \in Seq(Seq(S)) /\ Len(some) = m
      <3>1. \A j \in 1 .. m : seqs[j] \in Seq(S)
        BY <2>1, ElementOfSeq
      <3> QED BY <2>1, <3>1
    <2>3. g \in [0 .. m -> Seq(S)]
      BY <2>1
    <2>4. \A i \in 1 .. m : g[i] = g[i - 1] \o some[i]
      <3>1. \A i \in 1 .. m : i \in 0 .. m /\ i - 1 \in 0 .. m
        BY <2>1
      <3>2. \A i \in 1 .. m : G[i] = G[i - 1] \o seqs[i]
        BY <1>1, <2>1 DEF ArePrefixes
      <3> QED BY <3>1, <3>2
    <2>5. g[0] = << >>
      BY <1>1, <2>1 DEF ArePrefixes
    <2>6. ArePrefixes(some, g)
      BY <2>2, <2>4, <2>5 DEF ArePrefixes
    <2>7. FlattenSeq(some) = g[m]
      <3> HIDE DEF some, g
      <3> QED BY <2>2, <2>3, <2>6, FlattenIs
    <2> QED BY <2>1, <2>7
  <1>4. k \in 0 .. Len(seqs) /\ k + 1 \in 1 .. Len(seqs) /\ k + 1 \in 0 .. Len(seqs) /\ k + 1 - 1 = k
    BY <1>2
  <1>5. G[k + 1] = G[k] \o seqs[k + 1]
    <2> DEFINE i == k + 1
    <2>1. G[i] = G[i - 1] \o seqs[i]
      <3> HIDE DEF i
      <3>1. i \in 1 .. Len(seqs)
        BY <1>4 DEF i
      <3> QED BY <1>1, <3>1 DEF ArePrefixes
    <2> QED BY <1>4, <2>1
  <1> QED BY <1>3, <1>4, <1>5

\* What is left when some of the sequences are taken.
IsLeft(seqs, R) ==
  /\ R[0] = FlattenSeq(seqs) /\ R[Len(seqs)] = << >>
  /\ \A i \in 1 .. Len(seqs) : R[i - 1] = seqs[i] \o R[i]

LEMMA LeftExists ==
  ASSUME NEW S, NEW seqs \in Seq(Seq(S))
  PROVE  \E R \in [0 .. Len(seqs) -> Seq(S)] : IsLeft(seqs, R)
  <1> DEFINE n == Len(seqs)
             From(m, P, R) == /\ R[0] = P /\ R[m] = << >>
                              /\ \A i \in 1 .. m : R[i - 1] = seqs[i] \o R[i]
  <1>1. n \in Nat /\ \A i \in 1 .. n : seqs[i] \in Seq(S)
    BY ElementOfSeq
  <1>2. PICK G \in [0 .. n -> Seq(S)] : ArePrefixes(seqs, G)
    BY PrefixesExist
  <1>6. \A a \in Seq(S) : \A b \in Seq(S) : \A c \in Seq(S) : (a \o b) \o c = a \o (b \o c)
    BY Regroup
  <1> DEFINE Bad == {m \in 0 .. n : ~ \E R \in [0 .. m -> Seq(S)] : From(m, G[m], R)}
  <1>3. Bad = {}
    <2> SUFFICES ASSUME Bad # {} PROVE FALSE
      OBVIOUS
    <2>1. Bad \in SUBSET Nat
      <3> HIDE DEF n, From
      <3> QED BY <1>1
    <2>2. PICK m \in Bad : \A k \in Bad : m <= k
      BY <2>1, LeastOf
    <2>3. m # 0
      <3>1. [i \in 0 .. 0 |-> << >>] \in [0 .. 0 -> Seq(S)]
        OBVIOUS
      <3>2. From(0, G[0], [i \in 0 .. 0 |-> << >>])
        BY <1>2 DEF ArePrefixes
      <3> HIDE DEF From
      <3> QED BY <3>1, <3>2
    <2>4. m \in 1 .. n /\ m - 1 \in 0 .. n /\ m - 1 \notin Bad
      <3>1. m \in 0 .. n /\ n \in Nat
        BY <2>2, <1>1
      <3>2. m \in 1 .. n /\ m - 1 \in 0 .. n /\ ~(m <= m - 1)
        BY <2>3, <3>1
      <3> QED BY <2>2, <3>2
    <2>5. PICK R \in [0 .. m - 1 -> Seq(S)] : From(m - 1, G[m - 1], R)
      <3> HIDE DEF From
      <3> QED BY <2>4
    <2> DEFINE Q == [i \in 0 .. m |-> IF i = m THEN << >> ELSE R[i] \o seqs[m]]
    <2>6. Q \in [0 .. m -> Seq(S)]
      <3>1. ASSUME NEW i \in 0 .. m, i # m PROVE R[i] \o seqs[m] \in Seq(S)
        <4>1. i \in 0 .. m - 1 /\ seqs[m] \in Seq(S)
          BY <1>1, <2>4, <3>1
        <4>2. R[i] \in Seq(S)
          BY <2>5, <4>1
        <4> QED BY <4>1, <4>2
      <3> QED BY <3>1
    <2>7. Q[0] = G[m] /\ Q[m] = << >>
      <3>1. G[m] = G[m - 1] \o seqs[m]
        BY <1>2, <2>4 DEF ArePrefixes
      <3>2. 0 \in 0 .. m /\ m \in 0 .. m /\ 0 # m
        BY <2>4, <1>1
      <3> QED BY <2>5, <3>1, <3>2
    <2>8. ASSUME NEW i \in 1 .. m PROVE Q[i - 1] = seqs[i] \o Q[i]
      <3>1. i \in 0 .. m /\ i - 1 \in 0 .. m /\ i - 1 # m /\ seqs[m] \in Seq(S) /\ seqs[i] \in Seq(S)
        BY <1>1, <2>4, <2>8
      <3>2. CASE i = m
        <4>1. R[m - 1] = << >>
          BY <2>5
        <4>2. << >> \o seqs[m] = seqs[m] /\ seqs[m] \o << >> = seqs[m]
          BY <3>1, ConcatEmptySeq
        <4> QED BY <3>1, <3>2, <4>1, <4>2
      <3>3. CASE i # m
        <4>1. i \in 1 .. m - 1 /\ i \in 0 .. m - 1
          BY <2>4, <2>8, <3>3, <1>1
        <4>2. R[i - 1] = seqs[i] \o R[i] /\ R[i] \in Seq(S)
          BY <2>5, <4>1
        <4>3. (seqs[i] \o R[i]) \o seqs[m] = seqs[i] \o (R[i] \o seqs[m])
          BY <1>6, <3>1, <4>2, Zenon
        <4> QED BY <3>1, <3>3, <4>2, <4>3
      <3> QED BY <3>2, <3>3
    <2>9. From(m, G[m], Q)
      BY <2>7, <2>8
    <2> HIDE DEF Q, From
    <2> QED BY <2>2, <2>6, <2>9
  <1>4. \E R \in [0 .. n -> Seq(S)] : From(n, G[n], R)
    <2>1. n \in 0 .. n
      BY <1>1
    <2> HIDE DEF n, From
    <2> QED BY <1>3, <2>1
  <1>5. G[n] = FlattenSeq(seqs)
    BY <1>2, FlattenIs
  <1> QED BY <1>4, <1>5 DEF IsLeft

\* Two ways to write a sequence in two parts, the first of one length.
LEMMA SameParts ==
  ASSUME NEW S, NEW a \in Seq(S), NEW b \in Seq(S), NEW c \in Seq(S), NEW d \in Seq(S),
         a \o b = c \o d, Len(a) = Len(c)
  PROVE  a = c /\ b = d
  <1>1. Len(a) \in Nat /\ Len(b) \in Nat /\ Len(d) \in Nat
    OBVIOUS
  <1>2. Len(a \o b) = Len(a) + Len(b) /\ Len(c \o d) = Len(a) + Len(d)
    OBVIOUS
  <1>3. Len(b) = Len(d)
    BY <1>1, <1>2
  <1>4. \A i \in 1 .. Len(a) : a[i] = (a \o b)[i] /\ c[i] = (c \o d)[i]
    BY ConcatProperties
  <1>5. ASSUME NEW i \in 1 .. Len(b)
        PROVE  b[i] = (a \o b)[Len(a) + i] /\ d[i] = (c \o d)[Len(a) + i]
    <2> DEFINE j == Len(a) + i
    <2>1. j \in 1 .. Len(a) + Len(b) /\ ~(j <= Len(a)) /\ j - Len(a) = i
      BY <1>1
    <2>2. (a \o b)[j] = b[j - Len(a)]
      BY <2>1, ConcatProperties, ZenonT(40)
    <2>3. (c \o d)[j] = d[j - Len(a)]
      BY <1>3, <2>1, ConcatProperties
    <2> QED BY <2>1, <2>2, <2>3
  <1>6. a = c
    BY <1>4, SeqEqual
  <1>7. b = d
    BY <1>3, <1>5, SeqEqual
  <1> QED BY <1>6, <1>7

----------------------------------------------------------------------------
(* Integers as bytes *)

\* The weights are defined for every number of bytes.
LEMMA WeightStep ==
  /\ Weight \in [Nat -> Nat \ {0}]
  /\ Weight[0] = 1
  /\ \A k \in Nat : Weight[k + 1] = 256 * Weight[k]
  <1> DEFINE Pos == Nat \ {0}
             Step(f) == [k \in Nat |-> IF k = 0 THEN 1 ELSE 256 * f[k - 1]]
             Upto(n, g) == g[0] = 1 /\ \A i \in 1 .. n : g[i] = 256 * g[i - 1]
  <1>1. \A n \in Nat : \E g \in [0 .. n -> Pos] : Upto(n, g)
    <2> DEFINE Bad == {n \in Nat : ~ \E g \in [0 .. n -> Pos] : Upto(n, g)}
    <2> SUFFICES ASSUME Bad # {} PROVE FALSE
      BY ZenonT(40)
    <2>1. PICK n \in Bad : \A k \in Bad : n <= k
      <3>1. Bad \in SUBSET Nat
        OBVIOUS
      <3> QED BY <3>1, LeastOf
    <2>2. n # 0
      <3>1. [i \in 0 .. 0 |-> 1] \in [0 .. 0 -> Pos] /\ Upto(0, [i \in 0 .. 0 |-> 1])
        OBVIOUS
      <3> QED BY <3>1, ZenonT(40)
    <2>3. n \in Nat /\ n - 1 \in Nat /\ n - 1 \notin Bad
      <3>1. n \in Nat /\ n - 1 \in Nat /\ ~(n <= n - 1)
        BY <2>1, <2>2
      <3> HIDE DEF Bad
      <3> QED BY <2>1, <3>1
    <2>4. PICK f \in [0 .. n - 1 -> Pos] : Upto(n - 1, f)
      BY <2>3
    <2> DEFINE g == [i \in 0 .. n |-> IF i = n THEN 256 * f[n - 1] ELSE f[i]]
    <2>5. n - 1 \in 0 .. n - 1 /\ \A i \in 0 .. n : i # n => i \in 0 .. n - 1
      BY <2>3
    <2>6. g \in [0 .. n -> Pos]
      BY <2>4, <2>5
    <2>7. g[0] = 1
      BY <2>2, <2>3, <2>4
    <2>8. ASSUME NEW i \in 1 .. n PROVE g[i] = 256 * g[i - 1]
      <3>1. i \in 0 .. n /\ i - 1 \in 0 .. n /\ i - 1 # n /\ (i # n => i \in 1 .. n - 1)
        BY <2>3, <2>8
      <3> QED BY <2>4, <3>1
    <2>9. Upto(n, g)
      BY <2>7, <2>8
    <2> HIDE DEF g, Upto
    <2> QED BY <2>1, <2>6, <2>9
  <1>2. ASSUME NEW n \in Nat, NEW m \in Nat, m <= n, NEW g, NEW h, Upto(n, g), Upto(m, h)
        PROVE  g[m] = h[m]
    <2> DEFINE Bad == {i \in 0 .. m : g[i] # h[i]}
    <2>1. Bad = {}
      <3> SUFFICES ASSUME Bad # {} PROVE FALSE
        OBVIOUS
      <3>1. Bad \in SUBSET Nat
        OBVIOUS
      <3>2. PICK i \in Bad : \A k \in Bad : i <= k
        BY <3>1, LeastOf
      <3>3. i # 0 /\ i \in 1 .. n /\ i \in 1 .. m /\ i - 1 \in 0 .. m /\ i - 1 \notin Bad
        BY <1>2, <3>2
      <3> QED BY <1>2, <3>2, <3>3
    <2> QED BY <2>1
  <1> DEFINE Table(n) == CHOOSE g \in [0 .. n -> Pos] : Upto(n, g)
             F == [n \in Nat |-> Table(n)[n]]
  <1>3. \A n \in Nat : Table(n) \in [0 .. n -> Pos] /\ Upto(n, Table(n))
    <2> HIDE DEF Upto
    <2> QED BY <1>1
  <1> HIDE DEF Table
  <1>4. F[0] = 1
    BY <1>3
  <1>5. ASSUME NEW n \in Nat, n # 0 PROVE F[n] = 256 * F[n - 1]
    <2>1. n - 1 \in Nat /\ n - 1 <= n /\ n \in 1 .. n
      BY <1>5
    <2>2. Table(n)[n - 1] = Table(n - 1)[n - 1]
      <3> HIDE DEF Upto
      <3> QED BY <1>2, <1>3, <2>1
    <2>3. Table(n)[n] = 256 * Table(n)[n - 1]
      BY <1>3, <2>1
    <2> QED BY <2>1, <2>2, <2>3
  <1>6. F = Step(F)
    BY <1>4, <1>5
  <1>7. Weight = Step(Weight)
    <2> HIDE DEF F, Step
    <2>1. \E f : f = Step(f)
      BY <1>6
    <2>2. Weight = CHOOSE f : f = Step(f)
      BY DEF Weight, Step
    <2> QED BY <2>1, <2>2
  <1>8. Weight[0] = 1
    BY <1>7
  <1>9. ASSUME NEW k \in Nat PROVE Weight[k + 1] = 256 * Weight[k]
    <2>1. k + 1 \in Nat /\ k + 1 # 0 /\ (k + 1) - 1 = k
      OBVIOUS
    <2> QED BY <1>7, <2>1
  <1>10. ASSUME NEW k \in Nat PROVE Weight[k] \in Pos
    <2> DEFINE Bad == {i \in Nat : Weight[i] \notin Pos}
    <2> SUFFICES ASSUME Bad # {} PROVE FALSE
      OBVIOUS
    <2>1. Bad \in SUBSET Nat
      OBVIOUS
    <2>2. PICK i \in Bad : \A j \in Bad : i <= j
      BY <2>1, LeastOf
    <2>3. i # 0 /\ i - 1 \in Nat /\ i - 1 \notin Bad
      BY <1>8, <2>2
    <2>4. Weight[i] = 256 * Weight[i - 1]
      BY <1>7, <2>2, <2>3
    <2> QED BY <2>2, <2>3, <2>4
  <1> QED BY <1>7, <1>8, <1>9, <1>10

\* A set of numbers that is bounded has a greatest, which Max chooses.
LEMMA GreatestOf ==
  ASSUME NEW n \in Nat, NEW I \in SUBSET (1 .. n), I # {}
  PROVE  Max(I) \in I /\ \A i \in I : i <= Max(I)
  <1> DEFINE T == {n - i : i \in I}
  <1>1. \A i \in I : i \in 1 .. n /\ n - i \in Nat
    OBVIOUS
  <1>2. T \in SUBSET Nat /\ T # {}
    BY <1>1
  <1>3. PICK t \in T : \A s \in T : t <= s
    BY <1>2, LeastOf
  <1>4. PICK i \in I : t = n - i
    BY <1>3
  <1>5. \A j \in I : i >= j
    <2> TAKE j \in I
    <2>1. n - i <= n - j
      BY <1>3, <1>4
    <2> QED BY <1>1, <2>1
  <1>6. Max(I) \in I /\ \A j \in I : Max(I) >= j
    BY <1>5 DEF Max
  <1> QED BY <1>1, <1>6

\* The number that bytes make, highest first.
Value(bytes) == FoldLeft(LAMBDA m, b : 256 * m + b, 0, bytes)

\* It is computed step by step.
LEMMA Horner ==
  ASSUME NEW bytes \in Seq(Int), NEW G \in [0 .. Len(bytes) -> Int], G[0] = 0,
         \A i \in 1 .. Len(bytes) : G[i] = 256 * G[i - 1] + bytes[i]
  PROVE  Value(bytes) = G[Len(bytes)]
  <1> DEFINE n == Len(bytes)
             Sum(f, s) == IF s = {} THEN 0 ELSE 256 * f[s \ {Max(s)}] + bytes[Max(s)]
             Step(f) == [s \in SUBSET (1 .. n) |-> Sum(f, s)]
             F == CHOOSE f : f = Step(f)
  <1>1. n \in Nat /\ DOMAIN bytes = 1 .. n /\ \A i \in 1 .. n : bytes[i] \in Int
    OBVIOUS
  <1>2. Value(bytes) = F[1 .. n]
    BY <1>1 DEF Value, FoldLeft, MapThenFoldSet
  <1>3. \A m \in 0 .. n : \E f \in [SUBSET (1 .. n) -> Int] : \A s \in SUBSET (1 .. m) : f[s] = Sum(f, s)
    <2> DEFINE Fits(m, f) == \A s \in SUBSET (1 .. m) : f[s] = Sum(f, s)
               Bad == {m \in 0 .. n : ~ \E f \in [SUBSET (1 .. n) -> Int] : Fits(m, f)}
    <2> SUFFICES ASSUME Bad # {} PROVE FALSE
      BY ZenonT(40)
    <2>1. Bad \in SUBSET Nat
      <3> HIDE DEF n, Fits
      <3> QED BY <1>1
    <2>2. PICK m \in Bad : \A k \in Bad : m <= k
      BY <2>1, LeastOf
    <2>3. m # 0
      <3>1. [s \in SUBSET (1 .. n) |-> 0] \in [SUBSET (1 .. n) -> Int]
        OBVIOUS
      <3>2. \A s \in SUBSET (1 .. 0) : s = {}
        OBVIOUS
      <3>3. Fits(0, [s \in SUBSET (1 .. n) |-> 0])
        BY <3>2
      <3> HIDE DEF Fits
      <3> QED BY <2>2, <3>1, <3>3
    <2>4. m \in 1 .. n /\ m - 1 \in 0 .. n /\ m - 1 \notin Bad
      <3>1. m \in 0 .. n /\ n \in Nat
        BY <2>2, <1>1
      <3>2. m \in 1 .. n /\ m - 1 \in 0 .. n /\ ~(m <= m - 1)
        BY <2>3, <3>1
      <3> QED BY <2>2, <3>2
    <2>5. PICK f \in [SUBSET (1 .. n) -> Int] : Fits(m - 1, f)
      <3> HIDE DEF Fits
      <3> QED BY <2>4
    <2> DEFINE g == [s \in SUBSET (1 .. n) |-> IF m \in s THEN 256 * f[s \ {m}] + bytes[m] ELSE f[s]]
    <2>6. g \in [SUBSET (1 .. n) -> Int]
      <3>1. \A s \in SUBSET (1 .. n) : s \ {m} \in SUBSET (1 .. n)
        OBVIOUS
      <3>2. bytes[m] \in Int
        BY <1>1, <2>4
      <3>3. ASSUME NEW s \in SUBSET (1 .. n)
            PROVE  (IF m \in s THEN 256 * f[s \ {m}] + bytes[m] ELSE f[s]) \in Int
        <4>1. f[s \ {m}] \in Int /\ f[s] \in Int
          BY <2>5, <3>1, ZenonT(40)
        <4> QED BY <3>2, <4>1, SMTT(30)
      <3> QED BY <3>3
    <2>7. ASSUME NEW s \in SUBSET (1 .. m) PROVE g[s] = Sum(g, s)
      <3>1. s \in SUBSET (1 .. n) /\ s \in SUBSET (1 .. m) /\ m \in Nat
        BY <1>1, <2>4
      <3>2. s # {} => Max(s) \in s /\ \A i \in s : i <= Max(s)
        BY <3>1, GreatestOf
      <3>3. CASE m \in s
        <4>1. Max(s) = m
          <5>1. Max(s) \in 1 .. m /\ m <= Max(s)
            BY <3>1, <3>2, <3>3
          <5> QED BY <3>1, <5>1
        <4>2. s \ {m} \in SUBSET (1 .. n) /\ m \notin s \ {m}
          BY <3>1
        <4>3. g[s \ {m}] = f[s \ {m}] /\ g[s] = 256 * f[s \ {m}] + bytes[m]
          BY <3>1, <3>3, <4>2
        <4> HIDE DEF g
        <4> QED BY <3>3, <4>1, <4>3
      <3>4. CASE m \notin s
        <4>1. s \in SUBSET (1 .. m - 1)
          BY <3>1, <3>4, <2>4
        <4>2. f[s] = Sum(f, s)
          BY <2>5, <4>1
        <4>3. g[s] = f[s]
          BY <3>1, <3>4
        <4>4. g[s \ {Max(s)}] = f[s \ {Max(s)}]
          <5>1. s \ {Max(s)} \in SUBSET (1 .. n) /\ m \notin s \ {Max(s)}
            BY <3>1, <3>4
          <5> QED BY <5>1
        <4> HIDE DEF g
        <4> QED BY <4>2, <4>3, <4>4
      <3> QED BY <3>3, <3>4
    <2>8. Fits(m, g)
      BY <2>7
    <2> HIDE DEF g, Fits
    <2> QED BY <2>2, <2>6, <2>8
  <1>4. F = Step(F)
    <2>1. PICK f \in [SUBSET (1 .. n) -> Int] : \A s \in SUBSET (1 .. n) : f[s] = Sum(f, s)
      <3>1. n \in 0 .. n
        BY <1>1
      <3> HIDE DEF Sum, n
      <3> QED BY <1>3, <3>1
    <2>2. f = Step(f)
      <3> HIDE DEF Sum
      <3> QED BY <2>1
    <2> HIDE DEF Step
    <2> QED BY <2>2
  <1> HIDE DEF F
  <1> DEFINE Bad == {i \in 0 .. n : F[1 .. i] # G[i]}
  <1>5. Bad = {}
    <2> SUFFICES ASSUME Bad # {} PROVE FALSE
      OBVIOUS
    <2>1. Bad \in SUBSET Nat
      OBVIOUS
    <2>2. PICK i \in Bad : \A k \in Bad : i <= k
      BY <2>1, LeastOf, ZenonT(40)
    <2>3. i \in 0 .. n /\ 1 .. i \in SUBSET (1 .. n)
      BY <1>1, <2>2
    <2>4. F[1 .. i] = Sum(F, 1 .. i)
      <3> HIDE DEF Sum
      <3> QED BY <1>4, <2>3
    <2>5. i # 0
      <3>1. i = 0 => 1 .. i = {}
        BY <2>3
      <3> QED BY <2>2, <2>4, <3>1
    <2>6. i \in 1 .. n /\ i - 1 \in 0 .. n /\ i - 1 \notin Bad
      <3>1. i \in 1 .. n /\ i - 1 \in 0 .. n /\ ~(i <= i - 1)
        BY <1>1, <2>3, <2>5
      <3> HIDE DEF Bad
      <3> QED BY <2>2, <3>1
    <2>7. Max(1 .. i) = i /\ (1 .. i) \ {i} = 1 .. i - 1 /\ 1 .. i # {}
      <3>1. i \in Nat /\ i \in 1 .. i /\ 1 .. i \in SUBSET (1 .. i)
        BY <1>1, <2>6
      <3>2. Max(1 .. i) \in 1 .. i /\ \A j \in 1 .. i : j <= Max(1 .. i)
        BY <3>1, GreatestOf
      <3> QED BY <3>1, <3>2
    <2>8. F[1 .. i] = 256 * F[1 .. i - 1] + bytes[i]
      BY <2>4, <2>7, ZenonT(40)
    <2> QED BY <2>2, <2>6, <2>8
  <1> QED BY <1>1, <1>2, <1>5


\* An integer has an even range.
LEMMA IntRange == IntMod \in Nat /\ IntMod > 0 /\ IntMod = 2 * (IntMod \div 2) /\ Numbers \subseteq Int
  <1>1. IntBytes - 1 \in Nat /\ IntBytes = (IntBytes - 1) + 1
    BY CodecAssumption
  <1>2. Weight[IntBytes - 1] \in Nat /\ Weight[IntBytes] \in Nat \ {0}
    BY <1>1, WeightStep
  <1>3. IntMod = 256 * Weight[IntBytes - 1]
    BY <1>1, WeightStep DEF IntMod
  <1> QED BY <1>2, <1>3 DEF IntMod, Numbers

\* Dividing twice.
LEMMA DivTwice ==
  ASSUME NEW u \in Nat, NEW p \in Nat \ {0}
  PROVE  u \div (256 * p) = (u \div p) \div 256
  OBVIOUS

\* An integer is written as bytes.
LEMMA WrittenBytes ==
  ASSUME NEW n \in Int
  PROVE  WriteInt(n) \in Seq(Byte) /\ Len(WriteInt(n)) = IntBytes
  <1>1. ASSUME NEW k \in 1 .. IntBytes
        PROVE  ((n % IntMod) \div Weight[IntBytes - k]) % 256 \in Byte
    <2>1. IntBytes - k \in Nat
      BY CodecAssumption
    <2>2. Weight[IntBytes - k] \in Nat \ {0}
      BY <2>1, WeightStep
    <2>3. n % IntMod \in Nat
      BY IntRange
    <2>4. (n % IntMod) \div Weight[IntBytes - k] \in Int
      BY <2>2, <2>3
    <2> QED BY <2>4 DEF Byte
  <1>2. IntBytes \in Nat
    BY CodecAssumption
  <1> QED BY <1>1, <1>2 DEF WriteInt

\* read_int reads what write_int wrote, of every integer and width.
LEMMA ReadWritten ==
  ASSUME NEW n \in Numbers
  PROVE  ReadInt(WriteInt(n)) = n
  <1> DEFINE u == n % IntMod
             bytes == WriteInt(n)
             G == [i \in 0 .. IntBytes |-> u \div Weight[IntBytes - i]]
  <1>1. n \in Int /\ IntBytes \in Nat \ {0}
    BY IntRange, CodecAssumption
  <1>2. bytes \in Seq(Int) /\ Len(bytes) = IntBytes
    <2>1. bytes \in Seq(Byte) /\ Len(bytes) = IntBytes
      BY <1>1, WrittenBytes
    <2>2. Byte \subseteq Int
      BY DEF Byte
    <2> QED BY <2>1, <2>2, SeqMonotonic
  <1>3. u \in Nat /\ u < IntMod
    BY <1>1, IntRange
  <1>4. ASSUME NEW i \in 0 .. IntBytes PROVE Weight[IntBytes - i] \in Nat \ {0} /\ G[i] \in Int
    <2>1. IntBytes - i \in Nat
      BY <1>1
    <2>2. Weight[IntBytes - i] \in Nat \ {0}
      BY <2>1, WeightStep
    <2> HIDE DEF u
    <2> QED BY <1>3, <2>2
  <1>5. G[0] = 0
    <2>1. G[0] = u \div IntMod
      BY <1>1 DEF IntMod
    <2> HIDE DEF u, G
    <2> QED BY <1>3, <2>1, IntRange
  <1>6. G[IntBytes] = u
    <2>1. IntBytes \in 0 .. IntBytes /\ IntBytes - IntBytes = 0
      BY <1>1
    <2>2. G[IntBytes] = u \div Weight[0]
      BY <2>1
    <2>3. Weight[0] = 1
      BY WeightStep
    <2> HIDE DEF u, G
    <2> QED BY <1>3, <2>2, <2>3
  <1>7. ASSUME NEW i \in 1 .. IntBytes PROVE G[i] = 256 * G[i - 1] + bytes[i]
    <2> DEFINE p == Weight[IntBytes - i]
    <2>1. /\ i \in 0 .. IntBytes /\ i - 1 \in 0 .. IntBytes
          /\ IntBytes - i \in Nat /\ IntBytes - (i - 1) = (IntBytes - i) + 1
      BY <1>1
    <2>2. p \in Nat \ {0} /\ Weight[IntBytes - (i - 1)] = 256 * p
      BY <2>1, WeightStep
    <2>3. G[i] = u \div p /\ G[i - 1] = u \div (256 * p)
      BY <2>1, <2>2
    <2>4. bytes[i] = (u \div p) % 256
      BY DEF WriteInt
    <2> HIDE DEF u, p, G, bytes
    <2>5. G[i - 1] = G[i] \div 256
      BY <1>3, <2>2, <2>3, DivTwice
    <2>6. G[i] \in Int
      BY <1>4, <2>1
    <2> QED BY <2>3, <2>4, <2>5, <2>6
  <1>8. G \in [0 .. Len(bytes) -> Int]
    BY <1>2, <1>4
  <1>9. Value(bytes) = u
    <2> HIDE DEF u, bytes, G
    <2> QED BY <1>2, <1>5, <1>6, <1>7, <1>8, Horner
  <1>10. ReadInt(bytes) = IF 2 * u < IntMod THEN u ELSE u - IntMod
    <2> HIDE DEF u, bytes
    <2> QED BY <1>9 DEF ReadInt, Value
  <1>11. u = IF n < 0 THEN n + IntMod ELSE n
    <2>1. -(IntMod \div 2) <= n /\ n <= IntMod \div 2 - 1
      BY IntRange DEF Numbers
    <2> QED BY <1>1, <2>1, IntRange
  <1> HIDE DEF u, bytes
  <1>12. -(IntMod \div 2) <= n /\ n <= IntMod \div 2 - 1
    BY IntRange DEF Numbers
  <1>13. ReadInt(bytes) = n
    BY <1>1, <1>10, <1>11, <1>12, IntRange
  <1> QED BY <1>13 DEF bytes

----------------------------------------------------------------------------
(* Messages as bytes *)

\* An element, and a sequence after it.
LEMMA OneBefore ==
  ASSUME NEW S, NEW x \in S, NEW s \in Seq(S)
  PROVE  /\ <<x>> \o s \in Seq(S) /\ Len(<<x>> \o s) = Len(s) + 1
         /\ (<<x>> \o s)[1] = x /\ Tail(<<x>> \o s) = s
  <1> DEFINE l == <<x>> \o s
  <1>1. <<x>> \in Seq(S) /\ Len(<<x>>) = 1 /\ Len(s) \in Nat
    OBVIOUS
  <1>2. l \in Seq(S) /\ Len(l) = Len(s) + 1 /\ l[1] = x
    BY <1>1
  <1>3. \A i \in 1 .. Len(s) : l[i + 1] = s[i]
    BY <1>1, <1>2
  <1> HIDE DEF l
  <1>4. Len(Tail(l)) = Len(s) /\ Tail(l) \in Seq(S) /\ \A i \in 1 .. Len(s) : Tail(l)[i] = l[i + 1]
    BY <1>1, <1>2
  <1>5. Tail(l) = s
    BY <1>1, <1>3, <1>4, SeqEqual
  <1> QED BY <1>2, <1>5 DEF l

\* Three sequences in a row, cut apart again.
LEMMA ThreeCut ==
  ASSUME NEW S, NEW a \in Seq(S), NEW b \in Seq(S), NEW c \in Seq(S), NEW q \in Seq(S),
         Len(q) = Len(a) + Len(b) + Len(c),
         \A i \in 1 .. Len(a) : q[i] = a[i],
         \A i \in 1 .. Len(b) : q[Len(a) + i] = b[i],
         \A i \in 1 .. Len(c) : q[Len(a) + Len(b) + i] = c[i]
  PROVE  /\ SubSeq(q, 1, Len(a)) = a
         /\ SubSeq(q, Len(a) + 1, Len(a) + Len(b)) = b
         /\ SubSeq(q, Len(a) + Len(b) + 1, Len(q)) = c
  <1> DEFINE x == SubSeq(q, 1, Len(a))
             y == SubSeq(q, Len(a) + 1, Len(a) + Len(b))
             z == SubSeq(q, Len(a) + Len(b) + 1, Len(q))
  <1>1. Len(a) \in Nat /\ Len(b) \in Nat /\ Len(c) \in Nat
    OBVIOUS
  <1>2. x \in Seq(S) /\ Len(x) = Len(a) /\ \A i \in 1 .. Len(a) : x[i] = q[i]
    BY <1>1
  <1>3. y \in Seq(S) /\ Len(y) = Len(b) /\ \A i \in 1 .. Len(b) : y[i] = q[Len(a) + i]
    BY <1>1
  <1>4. z \in Seq(S) /\ Len(z) = Len(c) /\ \A i \in 1 .. Len(c) : z[i] = q[Len(a) + Len(b) + i]
    BY <1>1
  <1> HIDE DEF x, y, z
  <1>5. x = a
    BY <1>2, SeqEqual
  <1>6. y = b
    BY <1>3, SeqEqual
  <1>7. z = c
    BY <1>4, SeqEqual
  <1> QED BY <1>5, <1>6, <1>7 DEF x, y, z

InRow(a, b, c) == a \o b \o c

CutsTo(q, a, b, c) ==
  /\ SubSeq(q, 1, Len(a)) = a
  /\ SubSeq(q, Len(a) + 1, Len(a) + Len(b)) = b
  /\ SubSeq(q, Len(a) + Len(b) + 1, Len(q)) = c

LEMMA ThreeParts ==
  ASSUME NEW S, NEW a \in Seq(S), NEW b \in Seq(S), NEW c \in Seq(S)
  PROVE  /\ InRow(a, b, c) \in Seq(S)
         /\ Len(InRow(a, b, c)) = Len(a) + Len(b) + Len(c)
         /\ CutsTo(InRow(a, b, c), a, b, c)
  <1> DEFINE p == a \o b
             q == p \o c
  <1>1. Len(a) \in Nat /\ Len(b) \in Nat /\ Len(c) \in Nat
    OBVIOUS
  <1>2. p \in Seq(S) /\ Len(p) = Len(a) + Len(b)
    BY ConcatProperties
  <1>3. \A i \in 1 .. Len(a) + Len(b) : p[i] = IF i <= Len(a) THEN a[i] ELSE b[i - Len(a)]
    BY ConcatProperties
  <1> HIDE DEF p
  <1>4. q \in Seq(S) /\ Len(q) = Len(p) + Len(c)
    BY <1>2, ConcatProperties
  <1>5. \A i \in 1 .. Len(p) + Len(c) : q[i] = IF i <= Len(p) THEN p[i] ELSE c[i - Len(p)]
    BY <1>2, ConcatProperties
  <1> HIDE DEF q
  <1>6. ASSUME NEW i \in 1 .. Len(a) PROVE q[i] = a[i]
    <2>1. i \in 1 .. Len(a) + Len(b) /\ i \in 1 .. Len(p) + Len(c) /\ i <= Len(p) /\ i <= Len(a)
      BY <1>1, <1>2
    <2> QED BY <1>3, <1>5, <2>1
  <1>7. ASSUME NEW i \in 1 .. Len(b) PROVE q[Len(a) + i] = b[i]
    <2> DEFINE j == Len(a) + i
    <2>1. /\ j \in 1 .. Len(a) + Len(b) /\ j \in 1 .. Len(p) + Len(c)
          /\ j <= Len(p) /\ ~(j <= Len(a)) /\ j - Len(a) = i
      BY <1>1, <1>2
    <2> HIDE DEF j
    <2>2. q[j] = b[i]
      BY <1>3, <1>5, <2>1
    <2> QED BY <2>2 DEF j
  <1>8. ASSUME NEW i \in 1 .. Len(c) PROVE q[Len(a) + Len(b) + i] = c[i]
    <2> DEFINE j == Len(a) + Len(b) + i
    <2>1. j \in 1 .. Len(p) + Len(c) /\ ~(j <= Len(p)) /\ j - Len(p) = i
      BY <1>1, <1>2
    <2> HIDE DEF j
    <2>2. q[j] = c[i]
      BY <1>5, <2>1
    <2> QED BY <2>2 DEF j
  <1>9. Len(q) = Len(a) + Len(b) + Len(c)
    BY <1>2, <1>4
  <1>10. /\ SubSeq(q, 1, Len(a)) = a
         /\ SubSeq(q, Len(a) + 1, Len(a) + Len(b)) = b
         /\ SubSeq(q, Len(a) + Len(b) + 1, Len(q)) = c
    BY <1>4, <1>6, <1>7, <1>8, <1>9, ThreeCut
  <1>11. CutsTo(q, a, b, c)
    BY <1>10 DEF CutsTo
  <1> QED BY <1>4, <1>9, <1>11 DEF p, q, InRow

\* What follows the id of a request or a piece, and its two integers.
LEMMA Numbered ==
  ASSUME NEW x \in Byte, NEW i \in Numbers, NEW j \in Numbers, NEW s \in Seq(Byte)
  PROVE  LET body    == <<x>> \o WriteInt(i) \o WriteInt(j) \o s
             payload == InRow(WriteInt(i), WriteInt(j), s)
         IN  /\ body \in Seq(Byte) /\ Len(body) = 2 * IntBytes + Len(s) + 1
             /\ body[1] = x /\ Tail(body) = payload
             /\ payload \in Seq(Byte) /\ Len(payload) = 2 * IntBytes + Len(s)
             /\ IntAt(payload, 1) = i /\ IntAt(payload, 2) = j
             /\ SubSeq(payload, 2 * IntBytes + 1, Len(payload)) = s
  <1> DEFINE a == WriteInt(i)
             b == WriteInt(j)
             payload == InRow(a, b, s)
             body == <<x>> \o a \o b \o s
  <1>1. IntBytes \in Nat \ {0} /\ Len(s) \in Nat
    BY CodecAssumption
  <1>2. a \in Seq(Byte) /\ b \in Seq(Byte) /\ Len(a) = IntBytes /\ Len(b) = IntBytes
    BY WrittenBytes, IntRange
  <1>3. ReadInt(a) = i /\ ReadInt(b) = j
    BY ReadWritten
  <1> HIDE DEF a, b
  <1>4. /\ payload \in Seq(Byte) /\ Len(payload) = IntBytes + IntBytes + Len(s)
        /\ SubSeq(payload, 1, IntBytes) = a
        /\ SubSeq(payload, IntBytes + 1, IntBytes + IntBytes) = b
        /\ SubSeq(payload, IntBytes + IntBytes + 1, Len(payload)) = s
    <2>1. /\ payload \in Seq(Byte) /\ Len(payload) = Len(a) + Len(b) + Len(s)
          /\ SubSeq(payload, 1, Len(a)) = a
          /\ SubSeq(payload, Len(a) + 1, Len(a) + Len(b)) = b
          /\ SubSeq(payload, Len(a) + Len(b) + 1, Len(payload)) = s
      <3>1. /\ InRow(a, b, s) \in Seq(Byte)
            /\ Len(InRow(a, b, s)) = Len(a) + Len(b) + Len(s)
            /\ CutsTo(InRow(a, b, s), a, b, s)
        <4>1. a \in Seq(Byte) /\ b \in Seq(Byte)
          BY <1>2
        <4> QED BY <4>1, ThreeParts, Zenon
      <3>2. /\ payload \in Seq(Byte) /\ Len(payload) = Len(a) + Len(b) + Len(s)
            /\ CutsTo(payload, a, b, s)
        BY <3>1, Zenon
      <3> HIDE DEF payload
      <3> QED BY <3>2 DEF CutsTo
    <2> HIDE DEF payload
    <2> QED BY <1>2, <2>1
  <1>5. body = <<x>> \o payload
    <2>0. payload = (a \o b) \o s
      BY DEF InRow
    <2>1. <<x>> \in Seq(Byte) /\ a \o b \in Seq(Byte)
      BY <1>2
    <2>2. (<<x>> \o a) \o b = <<x>> \o (a \o b)
      BY <1>2, <2>1, Regroup
    <2>3. (<<x>> \o (a \o b)) \o s = <<x>> \o ((a \o b) \o s)
      BY <2>1, Regroup
    <2> QED BY <2>0, <2>2, <2>3
  <1> HIDE DEF payload, body
  <1>6. /\ <<x>> \o payload \in Seq(Byte) /\ Len(<<x>> \o payload) = Len(payload) + 1
        /\ (<<x>> \o payload)[1] = x /\ Tail(<<x>> \o payload) = payload
    BY <1>4, OneBefore
  <1>7. IntAt(payload, 1) = i /\ IntAt(payload, 2) = j
    <2>1. (1 - 1) * IntBytes + 1 = 1 /\ 1 * IntBytes = IntBytes
      BY <1>1
    <2>2. (2 - 1) * IntBytes + 1 = IntBytes + 1 /\ 2 * IntBytes = IntBytes + IntBytes
      BY <1>1
    <2> QED BY <1>3, <1>4, <2>1, <2>2 DEF IntAt
  <1>8. 2 * IntBytes = IntBytes + IntBytes
    BY <1>1
  <1>9. Len(<<x>> \o payload) = 2 * IntBytes + Len(s) + 1
    BY <1>1, <1>4, <1>6, <1>8
  <1>10. /\ body \in Seq(Byte) /\ Len(body) = 2 * IntBytes + Len(s) + 1
         /\ body[1] = x /\ Tail(body) = payload
         /\ payload \in Seq(Byte) /\ Len(payload) = 2 * IntBytes + Len(s)
         /\ IntAt(payload, 1) = i /\ IntAt(payload, 2) = j
         /\ SubSeq(payload, 2 * IntBytes + 1, Len(payload)) = s
    BY <1>4, <1>5, <1>6, <1>7, <1>8, <1>9
  <1> QED BY <1>10 DEF a, b, payload, body

\* decode, id by id.
LEMMA DecodeCases ==
  ASSUME NEW body
  PROVE  /\ body[1] = 1 => Decode(body) = {Unchoke}
         /\ body[1] = 2 => Decode(body) = {Interested}
         /\ body[1] = 5 => Decode(body) = {Bitfield(Tail(body))}
         /\ body[1] = 6 => Decode(body) = {Request(IntAt(p, 1), IntAt(p, 2), IntAt(p, 3))
                                            : p \in WithStray(Tail(body), 3 * IntBytes)}
         /\ body[1] = 7 => Decode(body) =
              {Piece(IntAt(p, 1), IntAt(p, 2), SubSeq(Tail(body), 2 * IntBytes + 1, Len(Tail(body))))
                 : p \in WithStray(Tail(body), 2 * IntBytes)}
         /\ body[1] = 20 => Decode(body) = {Extended(Tail(body)[1], Tail(Tail(body)))}
  <1> DEFINE bitfield == {Bitfield(Tail(body))}
             request  == {Request(IntAt(p, 1), IntAt(p, 2), IntAt(p, 3)) : p \in WithStray(Tail(body), 3 * IntBytes)}
             piece    == {Piece(IntAt(p, 1), IntAt(p, 2), SubSeq(Tail(body), 2 * IntBytes + 1, Len(Tail(body))))
                            : p \in WithStray(Tail(body), 2 * IntBytes)}
             extended == {Extended(Tail(body)[1], Tail(Tail(body)))}
  <1>1. Decode(body) = CASE body[1] = 1  -> {Unchoke}
                         [] body[1] = 2  -> {Interested}
                         [] body[1] = 5  -> bitfield
                         [] body[1] = 6  -> request
                         [] body[1] = 7  -> piece
                         [] body[1] = 20 -> extended
    BY DEF Decode
  <1> HIDE DEF bitfield, request, piece, extended
  <1>2. /\ body[1] = 1 => Decode(body) = {Unchoke}
        /\ body[1] = 2 => Decode(body) = {Interested}
        /\ body[1] = 5 => Decode(body) = bitfield
        /\ body[1] = 6 => Decode(body) = request
        /\ body[1] = 7 => Decode(body) = piece
        /\ body[1] = 20 => Decode(body) = extended
    BY <1>1
  <1> QED BY <1>2 DEF bitfield, request, piece, extended

\* decode reads what to_bytes wrote.
THEOREM RoundTrip ==
  ASSUME NEW m \in Messages
  PROVE  LET body == Payload(m)
         IN  body \in Seq(Byte) /\ body # << >> /\ ~Refused(body) /\ Decode(body) = {m}
  <1>1. {1, 2, 5, 6, 7, 20} \subseteq Byte
    BY DEF Byte
  <1>2. CASE m \in [kind : {"unchoke", "interested"}]
    <2>1. m = Unchoke \/ m = Interested
      BY <1>2 DEF Unchoke, Interested
    <2>2. CASE m = Unchoke
      <3>1. Payload(m) = <<1>>
        BY <2>2 DEF Payload, Unchoke
      <3> QED BY <1>1, <2>2, <3>1 DEF Refused, Decode
    <2>3. CASE m = Interested
      <3>1. Payload(m) = <<2>>
        BY <2>3 DEF Payload, Interested
      <3> QED BY <1>1, <2>3, <3>1 DEF Refused, Decode
    <2> QED BY <2>1, <2>2, <2>3
  <1>3. CASE m \in [kind : {"bitfield"}, data : Seq(Byte)]
    <2>1. m.data \in Seq(Byte) /\ m = Bitfield(m.data)
      BY <1>3 DEF Bitfield
    <2>2. Payload(m) = <<5>> \o m.data
      BY <1>3 DEF Payload
    <2> DEFINE body == <<5>> \o m.data
    <2>3. body \in Seq(Byte) /\ Len(body) = Len(m.data) + 1 /\ body[1] = 5 /\ Tail(body) = m.data
      BY <1>1, <2>1, OneBefore
    <2> HIDE DEF body
    <2>4. Decode(body) = {Bitfield(m.data)}
      BY <2>3, DecodeCases
    <2>5. body # << >> /\ ~Refused(body)
      BY <2>1, <2>3 DEF Refused
    <2> QED BY <2>1, <2>2, <2>3, <2>4, <2>5 DEF body
  <1>4. CASE m \in [kind : {"request"}, index : Numbers, begin : Numbers, length : Numbers]
    <2>1. /\ m.index \in Numbers /\ m.begin \in Numbers /\ m.length \in Numbers
          /\ m = Request(m.index, m.begin, m.length)
      BY <1>4 DEF Request
    <2> DEFINE s == WriteInt(m.length)
               body == <<6>> \o WriteInt(m.index) \o WriteInt(m.begin) \o s
               payload == InRow(WriteInt(m.index), WriteInt(m.begin), s)
    <2>2. Payload(m) = body
      BY <1>4 DEF Payload
    <2>3. s \in Seq(Byte) /\ Len(s) = IntBytes /\ ReadInt(s) = m.length /\ IntBytes \in Nat
      BY <2>1, WrittenBytes, ReadWritten, IntRange, CodecAssumption
    <2> HIDE DEF s
    <2>0. 6 \in Byte
      BY <1>1
    <2>4. /\ body \in Seq(Byte) /\ Len(body) = 2 * IntBytes + Len(s) + 1
          /\ body[1] = 6 /\ Tail(body) = payload
          /\ payload \in Seq(Byte) /\ Len(payload) = 2 * IntBytes + Len(s)
          /\ IntAt(payload, 1) = m.index /\ IntAt(payload, 2) = m.begin
          /\ SubSeq(payload, 2 * IntBytes + 1, Len(payload)) = s
      BY <2>0, <2>1, <2>3, Numbered, ZenonT(40)
    <2> HIDE DEF body, payload
    <2>5. IntAt(payload, 3) = m.length
      <3>1. (3 - 1) * IntBytes + 1 = 2 * IntBytes + 1 /\ 3 * IntBytes = 2 * IntBytes + IntBytes
        BY <2>3
      <3> QED BY <2>3, <2>4, <3>1 DEF IntAt
    <2>6. WithStray(payload, 3 * IntBytes) = {payload}
      BY <2>3, <2>4 DEF WithStray
    <2>7. Decode(body) = {Request(IntAt(p, 1), IntAt(p, 2), IntAt(p, 3)) : p \in {payload}}
      BY <2>4, <2>6, DecodeCases
    <2>8. Decode(body) = {Request(m.index, m.begin, m.length)}
      BY <2>4, <2>5, <2>7
    <2>9. body # << >> /\ ~Refused(body)
      BY <2>3, <2>4 DEF Refused
    <2> QED BY <2>1, <2>2, <2>4, <2>8, <2>9
  <1>5. CASE m \in [kind : {"piece"}, index : Numbers, begin : Numbers, block : Seq(Byte)]
    <2>1. /\ m.index \in Numbers /\ m.begin \in Numbers /\ m.block \in Seq(Byte)
          /\ m = Piece(m.index, m.begin, m.block)
      BY <1>5 DEF Piece
    <2> DEFINE s == m.block
               body == <<7>> \o WriteInt(m.index) \o WriteInt(m.begin) \o s
               payload == InRow(WriteInt(m.index), WriteInt(m.begin), s)
    <2>2. Payload(m) = body
      BY <1>5 DEF Payload
    <2>3. Len(s) \in Nat /\ IntBytes \in Nat
      BY <2>1, CodecAssumption
    <2> HIDE DEF s
    <2>4. /\ body \in Seq(Byte) /\ Len(body) = 2 * IntBytes + Len(s) + 1
          /\ body[1] = 7 /\ Tail(body) = payload
          /\ payload \in Seq(Byte) /\ Len(payload) = 2 * IntBytes + Len(s)
          /\ IntAt(payload, 1) = m.index /\ IntAt(payload, 2) = m.begin
          /\ SubSeq(payload, 2 * IntBytes + 1, Len(payload)) = s
      <3>1. s \in Seq(Byte)
        BY <2>1 DEF s
      <3>2. 7 \in Byte
        BY <1>1
      <3>3. m.index \in Numbers /\ m.begin \in Numbers
        BY <2>1
      <3> QED BY <3>1, <3>2, <3>3, Numbered, ZenonT(40)
    <2> HIDE DEF body, payload
    <2>5. WithStray(payload, 2 * IntBytes) = {payload}
      BY <2>3, <2>4 DEF WithStray
    <2>6. Decode(body) = {Piece(IntAt(p, 1), IntAt(p, 2), s) : p \in {payload}}
      <3>1. Decode(body) = {Piece(IntAt(p, 1), IntAt(p, 2), SubSeq(Tail(body), 2 * IntBytes + 1, Len(Tail(body))))
                              : p \in WithStray(Tail(body), 2 * IntBytes)}
        BY <2>4, DecodeCases
      <3>2. SubSeq(Tail(body), 2 * IntBytes + 1, Len(Tail(body))) = s /\ WithStray(Tail(body), 2 * IntBytes) = {payload}
        BY <2>4, <2>5
      <3> QED BY <3>1, <3>2, Zenon
    <2>7. Decode(body) = {Piece(m.index, m.begin, s)}
      BY <2>4, <2>6
    <2>8. body # << >> /\ ~Refused(body)
      BY <2>3, <2>4 DEF Refused
    <2> QED BY <2>1, <2>2, <2>4, <2>7, <2>8 DEF s
  <1>6. CASE m \in [kind : {"extended"}, id : Byte, payload : Seq(Byte)]
    <2>1. m.id \in Byte /\ m.payload \in Seq(Byte) /\ m = Extended(m.id, m.payload)
      BY <1>6 DEF Extended
    <2> DEFINE rest == <<m.id>> \o m.payload
               body == <<20>> \o rest
    <2>2. Payload(m) = body
      <3>1. Payload(m) = <<20, m.id>> \o m.payload
        BY <1>6 DEF Payload
      <3>2. <<20, m.id>> = <<20>> \o <<m.id>>
        OBVIOUS
      <3>3. <<20>> \in Seq(Byte) /\ <<m.id>> \in Seq(Byte)
        BY <1>1, <2>1
      <3> QED BY <2>1, <3>1, <3>2, <3>3, Regroup
    <2>3. rest \in Seq(Byte) /\ Len(rest) = Len(m.payload) + 1 /\ rest[1] = m.id /\ Tail(rest) = m.payload
      BY <2>1, OneBefore
    <2> HIDE DEF rest
    <2>4. body \in Seq(Byte) /\ Len(body) = Len(rest) + 1 /\ body[1] = 20 /\ Tail(body) = rest
      BY <1>1, <2>3, OneBefore, SMTT(30)
    <2> HIDE DEF body
    <2>5. body # << >> /\ Len(body) # 1
      BY <2>1, <2>3, <2>4
    <2>6. ~Refused(body)
      BY <2>4, <2>5 DEF Refused
    <2>7. Decode(body) = {Extended(rest[1], Tail(rest))}
      BY <2>4, DecodeCases
    <2> QED BY <2>1, <2>2, <2>3, <2>4, <2>5, <2>6, <2>7
  <1> QED BY <1>2, <1>3, <1>4, <1>5, <1>6 DEF Messages

----------------------------------------------------------------------------
(* What the receiver makes of a frame *)

\* Two sequences in a row, cut apart again.
LEMMA TwoParts ==
  ASSUME NEW S, NEW a \in Seq(S), NEW b \in Seq(S)
  PROVE  /\ a \o b \in Seq(S) /\ Len(a \o b) = Len(a) + Len(b)
         /\ SubSeq(a \o b, 1, Len(a)) = a
         /\ SubSeq(a \o b, Len(a) + 1, Len(a \o b)) = b
  <1> DEFINE q == a \o b
             y == SubSeq(q, 1, Len(a))
             z == SubSeq(q, Len(a) + 1, Len(q))
  <1>1. Len(a) \in Nat /\ Len(b) \in Nat
    OBVIOUS
  <1>2. q \in Seq(S) /\ Len(q) = Len(a) + Len(b)
    BY ConcatProperties
  <1>3. \A i \in 1 .. Len(a) + Len(b) : q[i] = IF i <= Len(a) THEN a[i] ELSE b[i - Len(a)]
    BY ConcatProperties
  <1> HIDE DEF q
  <1>4. y \in Seq(S) /\ Len(y) = Len(a) /\ \A i \in 1 .. Len(a) : y[i] = q[i]
    BY <1>1, <1>2
  <1>5. z \in Seq(S) /\ Len(z) = Len(b) /\ \A i \in 1 .. Len(b) : z[i] = q[Len(a) + i]
    BY <1>1, <1>2
  <1> HIDE DEF y, z
  <1>6. ASSUME NEW i \in 1 .. Len(a) PROVE y[i] = a[i]
    <2>1. i \in 1 .. Len(a) + Len(b) /\ i <= Len(a)
      BY <1>1
    <2> QED BY <1>3, <1>4, <2>1
  <1>7. ASSUME NEW i \in 1 .. Len(b) PROVE z[i] = b[i]
    <2> DEFINE j == Len(a) + i
    <2>1. j \in 1 .. Len(a) + Len(b) /\ ~(j <= Len(a)) /\ j - Len(a) = i
      BY <1>1
    <2>2. z[i] = q[j]
      BY <1>5
    <2> HIDE DEF j
    <2> QED BY <1>3, <2>1, <2>2
  <1>8. y = a
    BY <1>4, <1>6, SeqEqual
  <1>9. z = b
    BY <1>5, <1>7, SeqEqual
  <1> QED BY <1>2, <1>8, <1>9 DEF q, y, z

\* A sequence, cut anywhere, is its two parts in a row.
LEMMA CutInTwo ==
  ASSUME NEW S, NEW q \in Seq(S), NEW n \in 0 .. Len(q)
  PROVE  /\ SubSeq(q, 1, n) \in Seq(S) /\ Len(SubSeq(q, 1, n)) = n
         /\ SubSeq(q, n + 1, Len(q)) \in Seq(S) /\ Len(SubSeq(q, n + 1, Len(q))) = Len(q) - n
         /\ q = SubSeq(q, 1, n) \o SubSeq(q, n + 1, Len(q))
  <1> DEFINE y == SubSeq(q, 1, n)
             z == SubSeq(q, n + 1, Len(q))
  <1>1. Len(q) \in Nat /\ n \in Nat /\ n <= Len(q)
    OBVIOUS
  <1>2. y \in Seq(S) /\ Len(y) = n /\ \A i \in 1 .. n : y[i] = q[i]
    BY <1>1
  <1>3. z \in Seq(S) /\ Len(z) = Len(q) - n /\ \A i \in 1 .. Len(q) - n : z[i] = q[n + i]
    BY <1>1
  <1> HIDE DEF y, z
  <1>4. y \o z \in Seq(S) /\ Len(y \o z) = Len(q)
    <2>1. y \o z \in Seq(S) /\ Len(y \o z) = Len(y) + Len(z)
      BY <1>2, <1>3, ConcatProperties
    <2> QED BY <1>1, <1>2, <1>3, <2>1
  <1>5. \A i \in 1 .. Len(y) + Len(z) : (y \o z)[i] = IF i <= Len(y) THEN y[i] ELSE z[i - Len(y)]
    BY <1>2, <1>3, ConcatProperties
  <1>6. ASSUME NEW i \in 1 .. Len(q) PROVE q[i] = (y \o z)[i]
    <2>1. i \in 1 .. Len(y) + Len(z)
      BY <1>1, <1>2, <1>3
    <2>2. CASE i <= n
      <3>1. i \in 1 .. n
        BY <1>1, <2>2
      <3> QED BY <1>2, <1>5, <2>1, <2>2, <3>1
    <2>3. CASE ~(i <= n)
      <3> DEFINE j == i - n
      <3>1. j \in 1 .. Len(q) - n /\ n + j = i
        BY <1>1, <2>3
      <3>2. (y \o z)[i] = z[j]
        BY <1>2, <1>5, <2>1, <2>3
      <3> HIDE DEF j
      <3> QED BY <1>3, <3>1, <3>2
    <2> QED BY <2>2, <2>3
  <1>7. q = y \o z
    BY <1>4, <1>6, SeqEqual
  <1> QED BY <1>2, <1>3, <1>7 DEF y, z

Frames == [bytes : Seq(Byte), says : Seq(SUBSET Messages), valid : BOOLEAN]

\* The bytes of the length, and the length they make.
LengthBytes(f) == SubSeq(f.bytes, 1, IntBytes)
LengthOf(f)    == ReadInt(LengthBytes(f))

\* A frame is its length and a body; a length that is not negative is that of
\* the body, a body of which decode makes what the frame says or nothing.
HasBody(f) ==
  /\ LengthOf(f) = Len(Body(f)) /\ LengthOf(f) > 0
  /\ IF Refused(Body(f)) THEN ~f.valid
     ELSE f.valid /\ Len(f.says) = 1 /\ Decode(Body(f)) \subseteq f.says[1]

Understood(f) ==
  /\ LengthBytes(f) \in Seq(Byte) /\ Len(LengthBytes(f)) = IntBytes
  /\ Body(f) \in Seq(Byte) /\ f.bytes = LengthBytes(f) \o Body(f)
  /\ \/ LengthOf(f) < 0 /\ ~f.valid
     \/ LengthOf(f) = 0 /\ Body(f) = << >> /\ f.says = << >> /\ f.valid
     \/ HasBody(f)

\* The bytes of an integer and others after them.
LEMMA WrittenLength ==
  ASSUME NEW f \in Frames, NEW n \in Numbers, NEW b \in Seq(Byte), f.bytes = WriteInt(n) \o b
  PROVE  LengthBytes(f) = WriteInt(n) /\ Body(f) = b /\ LengthOf(f) = n
  <1> DEFINE a == WriteInt(n)
  <1>1. a \in Seq(Byte) /\ Len(a) = IntBytes
    BY WrittenBytes, IntRange
  <1>2. ReadInt(a) = n
    BY ReadWritten
  <1> HIDE DEF a
  <1>3. SubSeq(a \o b, 1, Len(a)) = a /\ SubSeq(a \o b, Len(a) + 1, Len(a \o b)) = b
    BY <1>1, TwoParts
  <1>4. f.bytes = a \o b
    BY DEF a
  <1>5. LengthBytes(f) = a
    BY <1>1, <1>3, <1>4 DEF LengthBytes
  <1>6. Body(f) = b
    BY <1>1, <1>3, <1>4 DEF Body
  <1> QED BY <1>2, <1>5, <1>6 DEF a, LengthOf

\* A frame that begins with the length of its body.
LEMMA WithLength ==
  ASSUME NEW f \in Frames, NEW b \in Seq(Byte), Len(b) \in Numbers,
         f.bytes = WriteInt(Len(b)) \o b
  PROVE  /\ LengthBytes(f) \in Seq(Byte) /\ Len(LengthBytes(f)) = IntBytes
         /\ Body(f) = b /\ f.bytes = LengthBytes(f) \o Body(f)
         /\ LengthOf(f) = Len(b)
  <1>1. LengthBytes(f) = WriteInt(Len(b)) /\ Body(f) = b /\ LengthOf(f) = Len(b)
    BY WrittenLength
  <1>2. WriteInt(Len(b)) \in Seq(Byte) /\ Len(WriteInt(Len(b))) = IntBytes
    BY WrittenBytes, IntRange
  <1> QED BY <1>1, <1>2, IntRange

\* Every frame that the other end may send is read so.
LEMMA FrameRead ==
  ASSUME NEW f \in Frames, IsFrame(f)
  PROVE  Understood(f)
  <1>0. /\ f.bytes \in Seq(Byte) /\ f.says \in Seq(SUBSET Messages) /\ f.valid \in BOOLEAN
        /\ IntBytes \in Nat \ {0}
    BY CodecAssumption DEF Frames
  <1>1. CASE f = KeepAlive
    <2>1. 0 \in Numbers
      <3>1. IntMod \div 2 \in Nat /\ IntMod \div 2 > 0
        BY IntRange
      <3> QED BY <3>1 DEF Numbers
    <2>2. f.bytes = WriteInt(0) /\ f.says = << >> /\ f.valid
      BY <1>1 DEF KeepAlive
    <2>3. << >> \in Seq(Byte) /\ Len(<< >>) = 0
      OBVIOUS
    <2>4. WriteInt(0) \in Seq(Byte)
      BY <2>1, WrittenBytes, IntRange
    <2>5. WriteInt(0) \o << >> = WriteInt(0)
      BY <2>4, ConcatEmptySeq
    <2>6. /\ LengthBytes(f) \in Seq(Byte) /\ Len(LengthBytes(f)) = IntBytes
          /\ Body(f) = << >> /\ f.bytes = LengthBytes(f) \o Body(f)
          /\ LengthOf(f) = 0
      <3>1. f.bytes = WriteInt(Len(<< >>)) \o << >>
        BY <2>2, <2>3, <2>5
      <3> QED BY <2>1, <2>3, <3>1, WithLength
    <2> QED BY <2>2, <2>3, <2>6 DEF Understood
  <1>2. CASE f.says # << >> /\ \E m \in f.says[1] : f = Frame(m) /\ Len(Payload(m)) \in Numbers
    <2>1. PICK m \in f.says[1] : f = Frame(m) /\ Len(Payload(m)) \in Numbers
      BY <1>2
    <2>2. f.bytes = Encode(m) /\ f.says = <<{m}>> /\ f.valid
      BY <2>1 DEF Frame
    <2>3. m \in Messages
      <3>1. f.says[1] \in SUBSET Messages
        BY <1>0, <2>2
      <3> QED BY <2>1, <3>1
    <2> DEFINE b == Payload(m)
    <2>4. b \in Seq(Byte) /\ b # << >> /\ ~Refused(b) /\ Decode(b) = {m}
      BY <2>3, RoundTrip
    <2>5. f.bytes = WriteInt(Len(b)) \o b
      BY <2>2 DEF Encode
    <2> HIDE DEF b
    <2>6. /\ LengthBytes(f) \in Seq(Byte) /\ Len(LengthBytes(f)) = IntBytes
          /\ Body(f) = b /\ f.bytes = LengthBytes(f) \o Body(f)
          /\ LengthOf(f) = Len(b)
      <3>1. Len(b) \in Numbers
        BY <2>1 DEF b
      <3> QED BY <2>4, <2>5, <3>1, WithLength
    <2>7. Len(b) > 0
      BY <2>4, EmptySeq
    <2>8. Len(f.says) = 1 /\ f.says[1] = {m}
      BY <2>2
    <2> QED BY <2>2, <2>4, <2>6, <2>7, <2>8 DEF Understood, HasBody
  <1>3. ASSUME Long(f)
        PROVE  /\ LengthBytes(f) \in Seq(Byte) /\ Len(LengthBytes(f)) = IntBytes
               /\ Body(f) \in Seq(Byte) /\ f.bytes = LengthBytes(f) \o Body(f)
               /\ LengthOf(f) = Len(Body(f)) /\ LengthOf(f) > 0
    <2> DEFINE b == Body(f)
    <2>1. b # << >> /\ Len(b) \in Numbers /\ f.bytes = WriteInt(Len(b)) \o b
      BY <1>3 DEF Long
    <2>2. b \in Seq(Byte)
      BY <1>0 DEF Body
    <2> HIDE DEF b
    <2>3. /\ LengthBytes(f) \in Seq(Byte) /\ Len(LengthBytes(f)) = IntBytes
          /\ f.bytes = LengthBytes(f) \o Body(f)
          /\ LengthOf(f) = Len(b)
      BY <2>1, <2>2, WithLength
    <2>4. Len(b) > 0
      BY <2>1, <2>2, EmptySeq
    <2> QED BY <2>2, <2>3, <2>4 DEF b
  <1>4. CASE /\ Long(f) /\ Body(f)[1] = 6
             /\ f.valid /\ Len(f.says) = 1 /\ Decode(Body(f)) \subseteq f.says[1]
    <2>1. ~Refused(Body(f))
      BY <1>4 DEF Refused
    <2> QED BY <1>3, <1>4, <2>1 DEF Understood, HasBody
  <1>5. CASE Long(f) /\ Refused(Body(f)) /\ f = Junk(f.bytes)
    <2>1. ~f.valid
      BY <1>5 DEF Junk
    <2> QED BY <1>3, <1>5, <2>1 DEF Understood, HasBody
  <1>6. CASE Len(f.bytes) >= IntBytes /\ ReadInt(SubSeq(f.bytes, 1, IntBytes)) < 0 /\ f = Junk(f.bytes)
    <2>1. ~f.valid
      BY <1>6 DEF Junk
    <2>2. IntBytes \in 0 .. Len(f.bytes)
      BY <1>0, <1>6
    <2>3. /\ LengthBytes(f) \in Seq(Byte) /\ Len(LengthBytes(f)) = IntBytes
          /\ Body(f) \in Seq(Byte) /\ f.bytes = LengthBytes(f) \o Body(f)
      <3> DEFINE q == f.bytes
      <3>1. q \in Seq(Byte) /\ IntBytes \in 0 .. Len(q)
        BY <1>0, <2>2
      <3> HIDE DEF q
      <3>2. /\ SubSeq(q, 1, IntBytes) \in Seq(Byte) /\ Len(SubSeq(q, 1, IntBytes)) = IntBytes
            /\ SubSeq(q, IntBytes + 1, Len(q)) \in Seq(Byte)
            /\ q = SubSeq(q, 1, IntBytes) \o SubSeq(q, IntBytes + 1, Len(q))
        BY <3>1, CutInTwo, ZenonT(40)
      <3> QED BY <3>2 DEF q, LengthBytes, Body
    <2>4. LengthOf(f) < 0
      BY <1>6 DEF LengthOf, LengthBytes
    <2> QED BY <2>1, <2>3, <2>4 DEF Understood
  <1> QED BY <1>1, <1>2, <1>4, <1>5, <1>6 DEF IsFrame

----------------------------------------------------------------------------
(* The bytes and the messages of a stream *)

Chunks == [k \in DOMAIN frames |-> frames[k].bytes]

\* The bytes after the first k frames.
Left == CHOOSE R \in [0 .. Len(frames) -> Seq(Byte)] : IsLeft(Chunks, R)

Pending == buffer \o (wire \o unsent)

\* The receiver is before the body of a frame, or before its length.
Between(k) == msgLen = -1 /\ Len(buffer) <= IntBytes /\ Pending = Left[k]

Inside(k) ==
  /\ k + 1 \in 1 .. Len(frames) /\ HasBody(frames[k + 1]) /\ msgLen = LengthOf(frames[k + 1])
  /\ Len(buffer) <= msgLen /\ Pending = Body(frames[k + 1]) \o Left[k + 1]

\* The first k frames have been received, and what is left is the others.
Position(k) == Received(k) /\ Valid(k) /\ (Between(k) \/ Inside(k))

StreamTypes ==
  /\ frames \in Streams /\ inbox \in Seq(Messages)
  /\ buffer \in Seq(Byte) /\ wire \in Seq(Byte) /\ unsent \in Seq(Byte)
  /\ pc \in {"connect", "recv", "failed"}

StreamInv ==
  /\ StreamTypes
  /\ pc = "connect" => buffer = << >>
  /\ pc # "failed" => \E k \in 0 .. Len(frames) : Position(k)
  /\ pc = "failed" => FramesKeepBoundaries

LEMMA FramesOf ==
  ASSUME frames \in Streams
  PROVE  /\ frames \in Seq(Frames) /\ Len(frames) \in Nat
         /\ \A k \in 1 .. Len(frames) : frames[k] \in Frames /\ Understood(frames[k])
  <1>1. frames \in Seq(Frames)
    BY StreamAssumption DEF Frames
  <1>2. DOMAIN frames = 1 .. Len(frames) /\ Len(frames) \in Nat
    BY <1>1
  <1>3. ASSUME NEW k \in 1 .. Len(frames) PROVE frames[k] \in Frames /\ Understood(frames[k])
    <2>1. frames[k] \in Frames
      BY <1>1, <1>3, ElementOfSeq
    <2>2. IsFrame(frames[k])
      BY <1>2, StreamAssumption
    <2> QED BY <2>1, <2>2, FrameRead
  <1> QED BY <1>1, <1>2, <1>3

\* What is left, frame by frame.
LEMMA LeftOf ==
  ASSUME frames \in Streams
  PROVE  /\ Left \in [0 .. Len(frames) -> Seq(Byte)]
         /\ Left[0] = FlattenSeq(Chunks) /\ Left[Len(frames)] = << >>
         /\ \A k \in 0 .. Len(frames) - 1 : Left[k] = frames[k + 1].bytes \o Left[k + 1]
  <1> DEFINE n == Len(frames)
  <1>1. n \in Nat /\ \A k \in 1 .. n : frames[k].bytes \in Seq(Byte)
    BY FramesOf DEF Frames
  <1>2. DOMAIN frames = 1 .. n
    BY FramesOf
  <1>3. Chunks \in Seq(Seq(Byte)) /\ Len(Chunks) = n /\ \A k \in 1 .. n : Chunks[k] = frames[k].bytes
    BY <1>1, <1>2 DEF Chunks
  <1>4. \E R \in [0 .. n -> Seq(Byte)] : IsLeft(Chunks, R)
    BY <1>3, LeftExists
  <1>5. Left \in [0 .. n -> Seq(Byte)] /\ IsLeft(Chunks, Left)
    BY <1>4 DEF Left
  <1>6. ASSUME NEW k \in 0 .. n - 1 PROVE Left[k] = frames[k + 1].bytes \o Left[k + 1]
    <2> DEFINE i == k + 1
    <2>1. i \in 1 .. n /\ i - 1 = k
      BY <1>1
    <2> HIDE DEF i
    <2>2. Left[i - 1] = Chunks[i] \o Left[i]
      BY <1>3, <1>5, <2>1 DEF IsLeft
    <2> QED BY <1>3, <2>1, <2>2 DEF i
  <1> QED BY <1>3, <1>5, <1>6 DEF IsLeft

\* What the frames say, one after the other.
LEMMA SaidOf ==
  ASSUME frames \in Streams
  PROVE  /\ Said(0) = << >>
         /\ \A k \in 0 .. Len(frames) - 1 :
              Said(k) \in Seq(SUBSET Messages) /\ Said(k + 1) = Said(k) \o frames[k + 1].says
  <1> DEFINE n == Len(frames)
             seqs == [k \in 1 .. n |-> frames[k].says]
  <1>1. n \in Nat /\ \A k \in 1 .. n : frames[k].says \in Seq(SUBSET Messages)
    BY FramesOf DEF Frames
  <1>2. seqs \in Seq(Seq(SUBSET Messages)) /\ Len(seqs) = n
    BY <1>1
  <1>3. ASSUME NEW k \in 0 .. n PROVE Said(k) = FlattenSeq([j \in 1 .. k |-> seqs[j]])
    <2>1. \A j \in 1 .. k : j \in 1 .. n
      BY <1>1
    <2>2. [j \in 1 .. k |-> seqs[j]] = [j \in 1 .. k |-> frames[j].says]
      BY <2>1
    <2> QED BY <2>2 DEF Said
  <1>4. Said(0) = << >>
    <2>1. [j \in 1 .. 0 |-> frames[j].says] = << >>
      OBVIOUS
    <2> QED BY <2>1 DEF Said, FlattenSeq
  <1>5. ASSUME NEW k \in 0 .. n - 1
        PROVE  Said(k) \in Seq(SUBSET Messages) /\ Said(k + 1) = Said(k) \o frames[k + 1].says
    <2>1. k \in 0 .. n /\ k + 1 \in 0 .. n /\ k + 1 \in 1 .. n /\ k \in 0 .. Len(seqs) - 1
      BY <1>1, <1>2
    <2>2. Said(k) = FlattenSeq([j \in 1 .. k |-> seqs[j]])
      BY <1>3, <2>1
    <2>3. Said(k + 1) = FlattenSeq([j \in 1 .. k + 1 |-> seqs[j]])
      BY <1>3, <2>1
    <2>4. seqs[k + 1] = frames[k + 1].says
      BY <2>1
    <2> HIDE DEF seqs
    <2>5. /\ FlattenSeq([j \in 1 .. k |-> seqs[j]]) \in Seq(SUBSET Messages)
          /\ FlattenSeq([j \in 1 .. k + 1 |-> seqs[j]])
               = FlattenSeq([j \in 1 .. k |-> seqs[j]]) \o seqs[k + 1]
      BY <1>2, <2>1, FlattenMore
    <2> QED BY <2>2, <2>3, <2>4, <2>5
  <1> QED BY <1>4, <1>5

\* Where no bytes are left all frames have been read.
LEMMA NothingLeft ==
  ASSUME frames \in Streams, NEW k \in 0 .. Len(frames), k # Len(frames)
  PROVE  /\ k \in 0 .. Len(frames) - 1 /\ k + 1 \in 1 .. Len(frames) /\ k + 1 \in 0 .. Len(frames)
         /\ LengthBytes(frames[k + 1]) \in Seq(Byte) /\ Len(LengthBytes(frames[k + 1])) = IntBytes
         /\ Body(frames[k + 1]) \in Seq(Byte) /\ Left[k + 1] \in Seq(Byte)
         /\ Left[k] = LengthBytes(frames[k + 1]) \o (Body(frames[k + 1]) \o Left[k + 1])
         /\ Len(Left[k]) >= IntBytes
  <1> DEFINE f == frames[k + 1]
             a == LengthBytes(f)
             b == Body(f)
             c == Left[k + 1]
  <1>1. k \in 0 .. Len(frames) - 1 /\ k + 1 \in 1 .. Len(frames) /\ k + 1 \in 0 .. Len(frames)
    BY FramesOf
  <1>2. f \in Frames /\ Understood(f)
    BY <1>1, FramesOf
  <1>3. c \in Seq(Byte)
    BY <1>1, LeftOf
  <1>4. a \in Seq(Byte) /\ Len(a) = IntBytes /\ b \in Seq(Byte) /\ f.bytes = a \o b
    BY <1>2 DEF Understood
  <1>5. Left[k] = f.bytes \o c
    BY <1>1, LeftOf
  <1> HIDE DEF f, a, b, c
  <1>6. Left[k] = a \o (b \o c)
    BY <1>3, <1>4, <1>5, Regroup, SMTT(30)
  <1>7. b \o c \in Seq(Byte) /\ Len(b \o c) \in Nat
    BY <1>3, <1>4
  <1>8. Len(a \o (b \o c)) = Len(a) + Len(b \o c)
    BY <1>4, <1>7, ConcatProperties
  <1>9. Len(Left[k]) >= IntBytes
    BY <1>4, <1>6, <1>7, <1>8, CodecAssumption
  <1> QED BY <1>1, <1>3, <1>4, <1>6, <1>9 DEF f, a, b, c

----------------------------------------------------------------------------
(* Where the receiver is in the stream *)

LEMMA SameStream ==
  ASSUME frames' = frames
  PROVE  Left' = Left /\ \A k : Said(k)' = Said(k) /\ (Valid(k)' <=> Valid(k))
  <1>1. Chunks' = Chunks
    BY DEF Chunks
  <1>2. Left' = Left
    BY <1>1 DEF Left
  <1> QED BY <1>2 DEF Said, Valid

LEMMA SameReceived ==
  ASSUME frames' = frames, inbox' = inbox, NEW k
  PROVE  Received(k)' <=> Received(k)
  <1>1. Said(k)' = Said(k)
    BY SameStream
  <1> QED BY <1>1 DEF Received

\* Nobody reads more than the length or the body it reads.
LEMMA PositionFacts ==
  ASSUME StreamTypes, NEW k \in 0 .. Len(frames), Position(k)
  PROVE  /\ Len(buffer) <= Wanted /\ Wanted \in Nat \ {0}
         /\ msgLen = -1 => Between(k)
         /\ msgLen # -1 => Inside(k)
  <1>1. CASE Between(k)
    <2>1. IntBytes \in Nat \ {0}
      BY CodecAssumption
    <2> QED BY <1>1, <2>1 DEF Between, Inside, Wanted, HasBody
  <1>2. CASE Inside(k)
    <2> DEFINE f == frames[k + 1]
    <2>1. Body(f) \in Seq(Byte)
      BY <1>2, FramesOf DEF StreamTypes, Inside, Understood
    <2>2. LengthOf(f) = Len(Body(f)) /\ LengthOf(f) > 0 /\ msgLen = LengthOf(f) /\ Len(buffer) <= msgLen
      BY <1>2 DEF Inside, HasBody
    <2> HIDE DEF f
    <2>3. msgLen \in Nat \ {0} /\ msgLen # -1
      BY <2>1, <2>2
    <2> QED BY <1>2, <2>2, <2>3 DEF Between, Wanted
  <1> QED BY <1>1, <1>2 DEF Position

\* Bytes that are moved along the stream are not changed.
LEMMA KeptInPlace ==
  ASSUME StreamTypes, NEW k \in 0 .. Len(frames), Position(k),
         frames' = frames, inbox' = inbox, msgLen' = msgLen, Pending' = Pending,
         Len(buffer') <= Wanted
  PROVE  Position(k)'
  <1>1. Received(k)' /\ Valid(k)'
    BY SameReceived, SameStream DEF Position
  <1>2. CASE msgLen = -1
    <2>1. Between(k)
      BY <1>2, PositionFacts
    <2>2. Between(k)'
      BY <1>2, <2>1, SameStream DEF Between, Wanted
    <2> QED BY <1>1, <2>2 DEF Position
  <1>3. CASE msgLen # -1
    <2>1. Inside(k)
      BY <1>3, PositionFacts
    <2>2. Inside(k)'
      <3> DEFINE i == k + 1
      <3>1. /\ i \in 1 .. Len(frames) /\ HasBody(frames[i]) /\ msgLen = LengthOf(frames[i])
            /\ Pending = Body(frames[i]) \o Left[i]
        BY <2>1 DEF Inside
      <3>2. Len(buffer') <= msgLen'
        BY <1>3 DEF Wanted
      <3>3. Left' = Left
        BY SameStream
      <3> QED BY <3>1, <3>2, <3>3 DEF Inside, HasBody, LengthOf, LengthBytes, Body
    <2> QED BY <1>1, <2>2 DEF Position
  <1> QED BY <1>2, <1>3

\* Where the receiver gives up.
LEMMA GivenUp ==
  ASSUME StreamTypes, NEW k \in 0 .. Len(frames), Received(k), Valid(k),
         frames' = frames, inbox' = inbox, unsent' = unsent, wire' = wire,
         k # Len(frames) => unsent # << >> \/ wire # << >> \/ ~Valid(Len(frames))
  PROVE  FramesKeepBoundaries'
  <1>1. Received(k)' /\ Valid(k)' /\ k \in 0 .. Len(frames')
    BY SameReceived, SameStream
  <1>2. Valid(Len(frames))' <=> Valid(Len(frames))
    BY SameStream
  <1> QED BY <1>1, <1>2 DEF FramesKeepBoundaries

\* Where bytes lack and none are on their way, no frame is left.
LEMMA EndOfStream ==
  ASSUME StreamTypes, NEW k \in 0 .. Len(frames), Position(k), Len(buffer) # Wanted,
         unsent = << >>, wire = << >>
  PROVE  k = Len(frames)
  <1>1. Len(buffer) \in Nat /\ Len(buffer) <= Wanted /\ Wanted \in Nat /\ Len(buffer) < Wanted
    BY PositionFacts DEF StreamTypes
  <1>2. Pending = buffer
    BY ConcatEmptySeq DEF Pending, StreamTypes
  <1>3. CASE msgLen = -1
    <2>1. Left[k] = buffer /\ Wanted = IntBytes
      BY <1>2, <1>3, PositionFacts DEF Between, Wanted
    <2>2. k # Len(frames) => Len(Left[k]) >= IntBytes
      BY NothingLeft DEF StreamTypes
    <2> QED BY <1>1, <2>1, <2>2
  <1>4. CASE msgLen # -1
    <2> DEFINE b == Body(frames[k + 1])
               c == Left[k + 1]
    <2>1. Inside(k) /\ Wanted = msgLen
      BY <1>4, PositionFacts DEF Wanted
    <2>2. k # Len(frames)
      BY <2>1, FramesOf DEF Inside, StreamTypes
    <2>3. b \in Seq(Byte) /\ c \in Seq(Byte)
      BY <2>2, NothingLeft DEF StreamTypes
    <2>4. buffer = b \o c /\ msgLen = Len(b)
      BY <1>2, <2>1 DEF Inside, HasBody
    <2> HIDE DEF b, c
    <2>5. Len(buffer) = Len(b) + Len(c) /\ Len(b) \in Nat /\ Len(c) \in Nat
      BY <2>3, <2>4, ConcatProperties
    <2> QED BY <1>1, <2>1, <2>4, <2>5
  <1> QED BY <1>3, <1>4

\* Nothing has been received of a stream that is not begun.
LEMMA InitStream == Init => StreamInv
  <1> SUFFICES ASSUME Init PROVE StreamInv
    OBVIOUS
  <1>1. /\ frames \in Streams /\ unsent = FlattenSeq(Chunks) /\ wire = << >>
        /\ buffer = << >> /\ msgLen = -1 /\ inbox = << >> /\ pc = "connect"
    BY DEF Init, Chunks
  <1>2. Len(frames) \in Nat /\ 0 \in 0 .. Len(frames)
    BY <1>1, FramesOf
  <1>3. unsent = Left[0] /\ unsent \in Seq(Byte)
    BY <1>1, <1>2, LeftOf
  <1>4. StreamTypes
    BY <1>1, <1>3 DEF StreamTypes
  <1>5. Pending = Left[0]
    BY <1>1, <1>3, ConcatEmptySeq DEF Pending
  <1>6. Between(0)
    BY <1>1, <1>5, CodecAssumption DEF Between
  <1>7. Received(0) /\ Valid(0)
    <2>1. Said(0) = << >>
      BY <1>1, SaidOf
    <2> QED BY <1>1, <2>1 DEF Received, Valid
  <1>8. Position(0)
    BY <1>6, <1>7 DEF Position
  <1> QED BY <1>1, <1>2, <1>4, <1>8 DEF StreamInv

\* Steps that touch no byte.
LEMMA IdleStream ==
  ASSUME StreamInv, pc # "failed", pc' \in {"connect", "recv"},
         pc' = "connect" => pc = "connect",
         UNCHANGED <<frames, unsent, wire, receiver>>
  PROVE  StreamInv'
  <1>1. StreamTypes'
    BY DEF StreamInv, StreamTypes, receiver
  <1>2. PICK k \in 0 .. Len(frames) : Position(k)
    BY DEF StreamInv
  <1>3. Position(k)'
    <2>1. Len(buffer') <= Wanted
      BY <1>2, PositionFacts DEF StreamInv, receiver
    <2>2. Pending' = Pending /\ frames' = frames /\ inbox' = inbox /\ msgLen' = msgLen
      BY DEF Pending, receiver
    <2> QED BY <1>2, <2>1, <2>2, KeptInPlace DEF StreamInv
  <1>4. k \in 0 .. Len(frames')
    OBVIOUS
  <1>5. pc' = "connect" => buffer' = << >>
    BY DEF StreamInv, receiver
  <1> QED BY <1>1, <1>3, <1>4, <1>5 DEF StreamInv

\* An exception where the stream is at its end.
LEMMA EndStream ==
  ASSUME StreamInv, pc # "failed", Len(buffer) # Wanted, Throw,
         UNCHANGED <<sender, receiver>>
  PROVE  StreamInv'
  <1>1. UNCHANGED <<frames, unsent, wire, buffer, inbox>> /\ pc' = "failed"
    BY DEF sender, receiver, Throw
  <1>2. StreamTypes /\ StreamTypes'
    BY <1>1 DEF StreamInv, StreamTypes
  <1>3. PICK k \in 0 .. Len(frames) : Position(k)
    BY DEF StreamInv
  <1>4. k # Len(frames) => unsent # << >> \/ wire # << >>
    BY <1>2, <1>3, EndOfStream
  <1>5. FramesKeepBoundaries'
    BY <1>1, <1>2, <1>3, <1>4, GivenUp DEF Position
  <1> QED BY <1>1, <1>2, <1>5 DEF StreamInv

\* What a call moves is between nothing and all there is.
LEMMA ChunkOf ==
  ASSUME NEW q \in Seq(Byte), NEW n \in AtMost(Len(q))
  PROVE  /\ n \in 0 .. Len(q) /\ SubSeq(q, 1, n) \in Seq(Byte) /\ Len(SubSeq(q, 1, n)) = n
         /\ SubSeq(q, n + 1, Len(q)) \in Seq(Byte)
         /\ q = SubSeq(q, 1, n) \o SubSeq(q, n + 1, Len(q))
  <1>1. n \in 0 .. Len(q)
    BY StreamAssumption DEF AtMost
  <1> QED BY <1>1, CutInTwo, ZenonT(40)

\* Bytes that are sent are bytes on their way.
LEMMA SendStream == ASSUME StreamInv, Send PROVE StreamInv'
  <1>1. /\ pc = "recv" /\ pc' = "recv" /\ UNCHANGED <<frames, buffer, msgLen, inbox>>
    BY DEF Send, receiver
  <1>2. StreamTypes
    BY DEF StreamInv
  <1>3. PICK n \in AtMost(Len(unsent)) :
          wire' = wire \o SubSeq(unsent, 1, n) /\ unsent' = SubSeq(unsent, n + 1, Len(unsent))
    BY DEF Send
  <1> DEFINE x == SubSeq(unsent, 1, n)
             y == SubSeq(unsent, n + 1, Len(unsent))
  <1>4. x \in Seq(Byte) /\ y \in Seq(Byte) /\ unsent = x \o y
    BY <1>2, ChunkOf DEF StreamTypes
  <1>5. wire' = wire \o x /\ unsent' = y
    BY <1>3
  <1> HIDE DEF x, y
  <1>6. wire' \o unsent' = wire \o unsent /\ wire' \in Seq(Byte) /\ unsent' \in Seq(Byte)
    <2>1. wire \in Seq(Byte)
      BY <1>2 DEF StreamTypes
    <2>2. (wire \o x) \o y = wire \o (x \o y)
      BY <1>4, <2>1, Regroup
    <2>3. wire \o x \in Seq(Byte)
      BY <1>4, <2>1, ConcatProperties
    <2> QED BY <1>4, <1>5, <2>2, <2>3
  <1>7. StreamTypes'
    BY <1>1, <1>2, <1>6 DEF StreamTypes
  <1>8. PICK k \in 0 .. Len(frames) : Position(k)
    BY <1>1 DEF StreamInv
  <1>9. Position(k)'
    <2>1. Len(buffer') <= Wanted
      BY <1>1, <1>2, <1>8, PositionFacts
    <2>2. Pending' = Pending
      BY <1>1, <1>6 DEF Pending
    <2> QED BY <1>1, <1>2, <1>8, <2>1, <2>2, KeptInPlace
  <1> QED BY <1>1, <1>7, <1>9 DEF StreamInv

\* Bytes that are received are bytes of the length or of the body.
LEMMA ReceiveStream == ASSUME StreamInv, Receive PROVE StreamInv'
  <1>1. /\ pc = "recv" /\ pc' = "recv" /\ UNCHANGED <<frames, unsent, msgLen, inbox>>
    BY DEF Receive
  <1>2. StreamTypes
    BY DEF StreamInv
  <1>3. PICK n \in AtMost(Len(wire)) :
          /\ n <= Wanted - Len(buffer)
          /\ buffer' = buffer \o SubSeq(wire, 1, n) /\ wire' = SubSeq(wire, n + 1, Len(wire))
    BY DEF Receive
  <1> DEFINE x == SubSeq(wire, 1, n)
             y == SubSeq(wire, n + 1, Len(wire))
  <1>4. x \in Seq(Byte) /\ Len(x) = n /\ y \in Seq(Byte) /\ wire = x \o y /\ n \in Nat
    <2>1. wire \in Seq(Byte)
      BY <1>2 DEF StreamTypes
    <2>2. /\ n \in 0 .. Len(wire) /\ x \in Seq(Byte) /\ Len(x) = n /\ y \in Seq(Byte)
          /\ wire = x \o y
      BY <2>1, ChunkOf
    <2> HIDE DEF x, y
    <2> QED BY <2>1, <2>2
  <1>5. buffer' = buffer \o x /\ wire' = y /\ n <= Wanted - Len(buffer)
    BY <1>3
  <1> HIDE DEF x, y
  <1>6. buffer \in Seq(Byte) /\ unsent \in Seq(Byte)
    BY <1>2 DEF StreamTypes
  <1>7. buffer' \in Seq(Byte) /\ wire' \in Seq(Byte) /\ Len(buffer') = Len(buffer) + n
    <2>1. buffer \o x \in Seq(Byte) /\ Len(buffer \o x) = Len(buffer) + Len(x)
      BY <1>4, <1>6, ConcatProperties
    <2> QED BY <1>4, <1>5, <2>1
  <1>8. Pending' = Pending
    <2>1. y \o unsent \in Seq(Byte)
      BY <1>4, <1>6, ConcatProperties
    <2>2. (buffer \o x) \o (y \o unsent) = buffer \o (x \o (y \o unsent))
      BY <1>4, <1>6, <2>1, Regroup, SMTT(30)
    <2>3. (x \o y) \o unsent = x \o (y \o unsent)
      BY <1>4, <1>6, Regroup
    <2> QED BY <1>1, <1>4, <1>5, <2>2, <2>3, Zenon DEF Pending
  <1>9. StreamTypes'
    BY <1>1, <1>2, <1>7 DEF StreamTypes
  <1>10. PICK k \in 0 .. Len(frames) : Position(k)
    BY <1>1 DEF StreamInv
  <1>11. Position(k)'
    <2>1. Wanted \in Nat
      BY <1>2, <1>10, PositionFacts
    <2>2. Len(buffer') <= Wanted
      BY <1>4, <1>5, <1>6, <1>7, <2>1
    <2> QED BY <1>1, <1>2, <1>8, <1>10, <2>2, KeptInPlace
  <1> QED BY <1>1, <1>9, <1>11 DEF StreamInv

\* What has been read is the beginning of what is left.
LEMMA ReadOff ==
  ASSUME StreamTypes, NEW a \in Seq(Byte), NEW b \in Seq(Byte),
         Pending = a \o b, Len(buffer) = Len(a)
  PROVE  buffer = a /\ wire \o unsent = b
  <1>1. buffer \in Seq(Byte) /\ wire \in Seq(Byte) /\ unsent \in Seq(Byte)
    BY DEF StreamTypes
  <1> DEFINE c == wire \o unsent
  <1>2. c \in Seq(Byte)
    BY <1>1, ConcatProperties
  <1>3. buffer \o c = a \o b
    BY DEF Pending
  <1> HIDE DEF c
  <1>4. buffer = a /\ c = b
    BY <1>1, <1>2, <1>3, SameParts
  <1> QED BY <1>4 DEF c

\* Before the next frame nothing of it has been read.
LEMMA NextFrame ==
  ASSUME StreamTypes, NEW k \in 0 .. Len(frames), Received(k)', Valid(k)',
         frames' = frames, wire' = wire, unsent' = unsent, buffer' = << >>, msgLen' = -1,
         wire \o unsent = Left[k]
  PROVE  Position(k)'
  <1>1. wire \o unsent \in Seq(Byte)
    BY ConcatProperties DEF StreamTypes
  <1>2. Pending' = Left[k]
    BY <1>1, ConcatEmptySeq DEF Pending
  <1>3. Left' = Left
    BY SameStream
  <1>4. Between(k)'
    BY <1>2, <1>3, CodecAssumption DEF Between
  <1> QED BY <1>4 DEF Position

\* One valid frame more.
LEMMA OneMoreValid ==
  ASSUME frames \in Streams, NEW k \in 0 .. Len(frames) - 1, Valid(k), frames[k + 1].valid
  PROVE  Valid(k + 1)
  <1>1. \A j \in 1 .. k + 1 : j \in 1 .. k \/ j = k + 1
    OBVIOUS
  <1> QED BY <1>1 DEF Valid

\* A frame that is no message is among the frames.
LEMMA OneInvalid ==
  ASSUME frames \in Streams, NEW k \in 1 .. Len(frames), ~frames[k].valid
  PROVE  ~Valid(Len(frames))
  BY DEF Valid

\* The length that was received is that of the next frame: it is negative where
\* the frame is no message, and zero where it says nothing.
LEMMA TakeLengthStream == ASSUME StreamInv, TakeLength PROVE StreamInv'
  <1>1. pc = "recv" /\ msgLen = -1 /\ Len(buffer) = IntBytes
    BY DEF TakeLength, Enough, Wanted
  <1>2. StreamTypes /\ frames \in Streams
    BY DEF StreamInv, StreamTypes
  <1>3. PICK k \in 0 .. Len(frames) : Position(k)
    BY <1>1 DEF StreamInv
  <1>4. Pending = Left[k] /\ Received(k) /\ Valid(k)
    BY <1>1, <1>2, <1>3, PositionFacts DEF Between, Position
  <1>5. k # Len(frames)
    <2>1. CASE k = Len(frames)
      <3>1. Pending = << >>
        BY <1>2, <1>4, <2>1, LeftOf
      <3>2. buffer \in Seq(Byte) /\ wire \o unsent \in Seq(Byte)
        BY <1>2, ConcatProperties DEF StreamTypes
      <3>3. Len(Pending) = Len(buffer) + Len(wire \o unsent) /\ Len(wire \o unsent) \in Nat
        BY <3>2, ConcatProperties DEF Pending
      <3> QED BY <1>1, <3>1, <3>3, CodecAssumption
    <2> QED BY <2>1
  <1> DEFINE f == frames[k + 1]
             a == LengthBytes(f)
             b == Body(f)
             c == Left[k + 1]
  <1>6. /\ k \in 0 .. Len(frames) - 1 /\ k + 1 \in 1 .. Len(frames) /\ k + 1 \in 0 .. Len(frames)
        /\ a \in Seq(Byte) /\ Len(a) = IntBytes /\ b \in Seq(Byte) /\ c \in Seq(Byte)
        /\ Left[k] = a \o (b \o c)
    BY <1>2, <1>5, NothingLeft
  <1>7. Understood(f)
    BY <1>2, <1>6, FramesOf
  <1> HIDE DEF f, a, b, c
  <1>8. buffer = a /\ wire \o unsent = b \o c
    <2>1. b \o c \in Seq(Byte)
      BY <1>6, ConcatProperties
    <2> QED BY <1>1, <1>2, <1>4, <1>6, <2>1, ReadOff
  <1>9. ReadInt(buffer) = LengthOf(f)
    BY <1>8 DEF LengthOf, a
  <1>10. CASE ReadInt(buffer) < 0
    <2>1. pc' = "failed" /\ UNCHANGED <<frames, unsent, wire, buffer, inbox>>
      BY <1>10 DEF TakeLength, Throw, receiver, sender
    <2>2. ~f.valid
      <3>1. ~(LengthOf(f) = 0) /\ ~(LengthOf(f) = Len(b) /\ LengthOf(f) > 0)
        <4>1. Len(b) \in Nat
          BY <1>6
        <4> QED BY <1>9, <1>10, <4>1
      <3> QED BY <1>7, <3>1 DEF Understood, HasBody, b
    <2>3. ~Valid(Len(frames))
      BY <1>2, <1>6, <2>2, OneInvalid DEF f
    <2>4. FramesKeepBoundaries'
      BY <1>2, <1>4, <2>1, <2>3, GivenUp
    <2>5. StreamTypes'
      BY <1>2, <2>1 DEF StreamTypes
    <2> QED BY <2>1, <2>4, <2>5 DEF StreamInv
  <1>11. CASE ~(ReadInt(buffer) < 0)
    <2>1. /\ msgLen' = IF ReadInt(buffer) = 0 THEN -1 ELSE ReadInt(buffer)
          /\ buffer' = << >> /\ pc' = "recv"
          /\ UNCHANGED <<frames, unsent, wire, inbox>>
      BY <1>1, <1>11 DEF TakeLength, sender
    <2>2. StreamTypes'
      BY <1>2, <2>1 DEF StreamTypes
    <2>3. CASE LengthOf(f) = 0 /\ b = << >> /\ f.says = << >> /\ f.valid
      <3>1. wire \o unsent = c
        BY <1>6, <1>8, <2>3, ConcatEmptySeq
      <3>2. Said(k + 1) = Said(k)
        BY <1>2, <1>6, <2>3, SaidOf, ConcatEmptySeq DEF f
      <3>3. Received(k + 1) /\ Valid(k + 1)
        BY <1>2, <1>4, <1>6, <2>3, <3>2, OneMoreValid DEF Received, f
      <3>4. Received(k + 1)' /\ Valid(k + 1)'
        BY <2>1, <3>3, SameStream, SameReceived
      <3>5. msgLen' = -1
        BY <1>9, <2>1, <2>3
      <3>6. Position(k + 1)'
        BY <1>2, <1>6, <2>1, <3>1, <3>4, <3>5, NextFrame DEF c
      <3>7. k + 1 \in 0 .. Len(frames')
        BY <1>6, <2>1
      <3> QED BY <2>1, <2>2, <3>6, <3>7 DEF StreamInv
    <2>4. CASE HasBody(f)
      <3>1. LengthOf(f) = Len(b) /\ LengthOf(f) > 0
        BY <2>4 DEF HasBody, b
      <3>2. msgLen' = LengthOf(f) /\ LengthOf(f) \in Nat
        BY <1>6, <1>9, <2>1, <3>1
      <3>3. Pending' = b \o c
        <4>1. b \o c \in Seq(Byte)
          BY <1>6, ConcatProperties
        <4> QED BY <1>8, <2>1, <4>1, ConcatEmptySeq DEF Pending
      <3>4. Left' = Left
        BY <2>1, SameStream
      <3>5. HasBody(f)'
        BY <2>1, <2>4 DEF f, HasBody, LengthOf, LengthBytes, Body
      <3>6. Inside(k)'
        <4>1. k + 1 \in 1 .. Len(frames')
          BY <1>6, <2>1
        <4>2. Len(buffer') <= msgLen'
          BY <2>1, <3>2
        <4> QED BY <2>1, <3>2, <3>3, <3>4, <3>5, <4>1, <4>2 DEF Inside, f, b, c, LengthOf, LengthBytes, Body
      <3>7. Received(k)' /\ Valid(k)'
        BY <1>4, <2>1, SameStream, SameReceived
      <3>8. Position(k)'
        BY <3>6, <3>7 DEF Position
      <3> QED BY <2>1, <2>2, <3>8 DEF StreamInv
    <2>5. LengthOf(f) < 0 => FALSE
      BY <1>9, <1>11
    <2> QED BY <1>7, <2>3, <2>4, <2>5 DEF Understood, b
  <1> QED BY <1>10, <1>11

\* The body that was received is that of the next frame: its message is taken,
\* or it is none.
LEMMA TakeBodyStream == ASSUME StreamInv, TakeBody PROVE StreamInv'
  <1>1. pc = "recv" /\ msgLen # -1 /\ Len(buffer) = msgLen
    BY DEF TakeBody, Enough, Wanted
  <1>2. StreamTypes /\ frames \in Streams
    BY DEF StreamInv, StreamTypes
  <1>3. PICK k \in 0 .. Len(frames) : Position(k)
    BY <1>1 DEF StreamInv
  <1>4. Inside(k) /\ Received(k) /\ Valid(k)
    BY <1>1, <1>2, <1>3, PositionFacts DEF Position
  <1>5. k # Len(frames)
    BY <1>2, <1>4, FramesOf DEF Inside
  <1> DEFINE f == frames[k + 1]
             b == Body(f)
             c == Left[k + 1]
  <1>6. /\ k \in 0 .. Len(frames) - 1 /\ k + 1 \in 1 .. Len(frames) /\ k + 1 \in 0 .. Len(frames)
        /\ b \in Seq(Byte) /\ c \in Seq(Byte)
    BY <1>2, <1>5, NothingLeft
  <1>7. HasBody(f) /\ msgLen = Len(b) /\ Pending = b \o c
    BY <1>4 DEF Inside, HasBody
  <1>8. f.says \in Seq(SUBSET Messages)
    BY <1>2, <1>6, FramesOf DEF Frames
  <1> HIDE DEF f, b, c
  <1>9. buffer = b /\ wire \o unsent = c
    BY <1>1, <1>2, <1>6, <1>7, ReadOff
  <1>10. CASE Refused(buffer)
    <2>1. pc' = "failed" /\ UNCHANGED <<frames, unsent, wire, buffer, inbox>>
      BY <1>10 DEF TakeBody, Throw, receiver, sender
    <2>2. ~f.valid
      BY <1>7, <1>9, <1>10 DEF HasBody, b
    <2>3. ~Valid(Len(frames))
      BY <1>2, <1>6, <2>2, OneInvalid DEF f
    <2>4. FramesKeepBoundaries'
      BY <1>2, <1>4, <2>1, <2>3, GivenUp
    <2>5. StreamTypes'
      BY <1>2, <2>1 DEF StreamTypes
    <2> QED BY <2>1, <2>4, <2>5 DEF StreamInv
  <1>11. CASE ~Refused(buffer)
    <2>1. PICK m \in Decode(buffer) : inbox' = Append(inbox, m)
      BY <1>11 DEF TakeBody
    <2>2. msgLen' = -1 /\ buffer' = << >> /\ pc' = "recv" /\ UNCHANGED <<frames, unsent, wire>>
      BY <1>1, <1>11 DEF TakeBody, sender
    <2>3. f.valid /\ Len(f.says) = 1 /\ m \in f.says[1]
      BY <1>7, <1>9, <1>11, <2>1 DEF HasBody, b
    <2>4. f.says[1] \in SUBSET Messages /\ m \in Messages
      <3>1. f.says[1] \in SUBSET Messages
        BY <1>8, <2>3
      <3> QED BY <2>3, <3>1
    <2>5. inbox \in Seq(Messages) /\ inbox' \in Seq(Messages)
      BY <1>2, <2>1, <2>4 DEF StreamTypes
    <2>6. StreamTypes'
      BY <1>2, <2>2, <2>5 DEF StreamTypes
    <2>7. Received(k + 1)'
      <3> DEFINE s == Said(k)
                 t == Said(k + 1)
      <3>1. s \in Seq(SUBSET Messages) /\ t = s \o f.says
        BY <1>2, <1>6, SaidOf DEF f
      <3>2. Len(inbox) = Len(s) /\ \A j \in 1 .. Len(s) : inbox[j] \in s[j]
        BY <1>4, <2>5 DEF Received
      <3>3. Said(k + 1)' = t
        BY <2>2, SameStream
      <3> HIDE DEF s, t
      <3>4. Len(t) = Len(s) + 1 /\ Len(s) \in Nat
        <4>1. Len(s) \in Nat /\ Len(f.says) = 1
          BY <2>3, <3>1
        <4>2. Len(s \o f.says) = Len(s) + Len(f.says)
          BY <1>8, <3>1, ConcatProperties
        <4> QED BY <3>1, <4>1, <4>2
      <3>5. ASSUME NEW j \in 1 .. Len(s) + 1
            PROVE  t[j] = IF j <= Len(s) THEN s[j] ELSE f.says[j - Len(s)]
        <4>1. j \in 1 .. Len(s) + Len(f.says)
          BY <2>3
        <4> QED BY <1>8, <3>1, <4>1, ConcatProperties
      <3>6. /\ Len(inbox') = Len(s) + 1
            /\ \A j \in 1 .. Len(s) + 1 : inbox'[j] = IF j <= Len(s) THEN inbox[j] ELSE m
        BY <2>1, <2>4, <2>5, <3>2
      <3>7. ASSUME NEW j \in 1 .. Len(s) + 1 PROVE inbox'[j] \in t[j]
        <4>1. CASE j <= Len(s)
          <5>1. j \in 1 .. Len(s)
            BY <3>4, <4>1
          <5> QED BY <3>2, <3>5, <3>6, <4>1, <5>1
        <4>2. CASE ~(j <= Len(s))
          <5>1. j - Len(s) = 1
            BY <3>4, <4>2
          <5> QED BY <2>3, <3>5, <3>6, <4>2, <5>1
        <4> QED BY <4>1, <4>2
      <3>8. DOMAIN inbox' = 1 .. Len(s) + 1
        BY <2>5, <3>6
      <3> QED BY <3>3, <3>4, <3>6, <3>7, <3>8 DEF Received
    <2>8. Valid(k + 1)'
      BY <1>2, <1>4, <1>6, <2>2, <2>3, OneMoreValid, SameStream DEF f
    <2>9. Position(k + 1)'
      BY <1>2, <1>6, <1>9, <2>2, <2>7, <2>8, NextFrame DEF c
    <2>10. k + 1 \in 0 .. Len(frames')
      BY <1>6, <2>2
    <2> QED BY <2>2, <2>6, <2>9, <2>10 DEF StreamInv
  <1> QED BY <1>10, <1>11

LEMMA NextStream == ASSUME StreamInv, [Next]_vars PROVE StreamInv'
  <1>1. CASE AddressRefuses \/ NoSocket \/ AddressAccepts
    <2>1. pc = "connect" /\ pc' \in {"connect", "recv"} /\ UNCHANGED <<sender, receiver>>
      BY <1>1 DEF AddressRefuses, NoSocket, AddressAccepts, Try
    <2> QED BY <2>1, IdleStream DEF sender
  <1>2. CASE HandOver \/ Close
    <2>1. pc = "recv" /\ pc' = "recv" /\ UNCHANGED <<frames, unsent, wire, receiver>>
      BY <1>2 DEF HandOver, Close, sender
    <2> QED BY <2>1, IdleStream
  <1>3. CASE CannotConnect
    <2>1. pc = "connect" /\ Throw /\ UNCHANGED <<sender, receiver>>
      BY <1>3 DEF CannotConnect
    <2>2. buffer = << >>
      BY <2>1 DEF StreamInv
    <2>3. Len(buffer) # Wanted
      <3>1. PICK k \in 0 .. Len(frames) : Position(k)
        BY <2>1 DEF StreamInv
      <3>2. Wanted \in Nat \ {0}
        BY <3>1, PositionFacts DEF StreamInv
      <3> QED BY <2>2, <3>2
    <2> QED BY <2>1, <2>3, EndStream
  <1>4. CASE ReceiveFails
    BY <1>4, EndStream DEF ReceiveFails, Enough
  <1>5. CASE Stopped \/ UNCHANGED vars
    <2>1. UNCHANGED <<frames, unsent, wire, buffer, msgLen, inbox, pc>>
      BY <1>5 DEF Stopped, vars, sender, receiver
    <2>2. StreamTypes'
      BY <2>1 DEF StreamInv, StreamTypes
    <2>3. CASE pc = "failed"
      <3>1. FramesKeepBoundaries
        BY <2>3 DEF StreamInv
      <3>2. FramesKeepBoundaries'
        BY <2>1, <3>1, SameStream, SameReceived DEF FramesKeepBoundaries
      <3> QED BY <2>1, <2>2, <2>3, <3>2 DEF StreamInv
    <2>4. CASE pc # "failed"
      <3>1. pc' \in {"connect", "recv"}
        BY <2>1, <2>4 DEF StreamInv, StreamTypes
      <3> QED BY <2>1, <2>4, <3>1, IdleStream DEF receiver
    <2> QED BY <2>3, <2>4
  <1> QED
    BY <1>1, <1>2, <1>3, <1>4, <1>5, SendStream, ReceiveStream, TakeLengthStream, TakeBodyStream
    DEF Next, Connecting, Receiving

\* For every stream of frames, every width of an integer and every size of the
\* calls: the messages recv_message returns are those sent, in their order and
\* whole, and it throws only at the end of the stream or at what is no message.
THEOREM BoundariesKept == Spec => []FramesKeepBoundaries
  <1>1. Init => StreamInv
    BY InitStream
  <1>2. StreamInv /\ [Next]_vars => StreamInv'
    BY NextStream
  <1>3. StreamInv => FramesKeepBoundaries
    <2> SUFFICES ASSUME StreamInv PROVE FramesKeepBoundaries
      OBVIOUS
    <2>1. CASE pc = "failed"
      BY <2>1 DEF StreamInv
    <2>2. CASE pc # "failed"
      BY <2>2 DEF StreamInv, Position, FramesKeepBoundaries
    <2> QED BY <2>1, <2>2
  <1> QED BY <1>1, <1>2, <1>3, PTL DEF Spec

=============================================================================
