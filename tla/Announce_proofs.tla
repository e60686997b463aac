---------------------------- MODULE Announce_proofs ----------------------------
(***************************************************************************)
(* Theorems about Announce, for every tracker, torrent, link and reply: a   *)
(* link is read as what it means, the tracker is told the hash of the       *)
(* torrent, a list of peers that is returned is the whole list, and an      *)
(* exchange with a sound tracker over a sound connection does not fail.     *)
(*                                                                         *)
(* The first two rest on what url_encode and url_decode do to every text    *)
(* and on where a text has its "&", "=", "?" and "/"; the last two on the   *)
(* shape of a reply: where its empty line is, and that the text of a        *)
(* dictionary ends with the only part that closes it.                       *)
(***************************************************************************)
EXTENDS Announce, SequenceTheorems, WellFoundedInduction, TLAPS

----------------------------------------------------------------------------
(* Texts *)

\* A set of numbers that is not empty has a least element.
LEMMA LeastOf ==
  ASSUME NEW I \in SUBSET Nat, I # {}
  PROVE  \E i \in I : \A j \in I : i <= j
  <1>1. PICK t \in I : \A s \in I : ~(<<s, t>> \in OpToRel(<, Nat))
    BY NatLessThanWellFounded, WFMin
  <1>2. ASSUME NEW s \in I, ~(t <= s) PROVE FALSE
    <2>1. <<s, t>> \in Nat \X Nat /\ <<s, t>>[1] = s /\ <<s, t>>[2] = t /\ s < t
      BY <1>2
    <2>2. <<s, t>> \in {ss \in Nat \X Nat : ss[1] < ss[2]}
      BY <2>1
    <2> QED BY <1>1, <2>2 DEF OpToRel
  <1> QED BY <1>2

\* What is flattened step by step: the parts up to each of them.
ArePrefixes(seqs, G) ==
  /\ G[0] = << >>
  /\ \A i \in 1 .. Len(seqs) : G[i] = G[i - 1] \o seqs[i]

\* Every sequence of sequences has these parts.  The lengths up to which it has
\* none have no least.
LEMMA PrefixesExist ==
  ASSUME NEW S, NEW seqs \in Seq(Seq(S))
  PROVE  \E G \in [0 .. Len(seqs) -> Seq(S)] : ArePrefixes(seqs, G)
  <1> DEFINE n == Len(seqs)
             Upto(m, g) == g[0] = << >> /\ \A i \in 1 .. m : g[i] = g[i - 1] \o seqs[i]
             Bad == {m \in 0 .. n : ~ \E g \in [0 .. n -> Seq(S)] : Upto(m, g)}
  <1>1. n \in Nat
    OBVIOUS
  <1>2. Bad = {}
    <2> SUFFICES ASSUME Bad # {} PROVE FALSE
      OBVIOUS
    <2>1. Bad \in SUBSET Nat
      <3> HIDE DEF n, Upto
      <3> QED BY <1>1
    <2>2. PICK m \in Bad : \A k \in Bad : m <= k
      BY <2>1, LeastOf
    <2>3. m # 0
      <3>1. [i \in 0 .. n |-> << >>] \in [0 .. n -> Seq(S)]
        OBVIOUS
      <3>2. m = 0 => Upto(m, [i \in 0 .. n |-> << >>])
        BY <1>1
      <3> QED BY <3>1, <3>2
    <2>4. m \in 1 .. n /\ m - 1 \in 0 .. n /\ m - 1 \notin Bad
      <3>1. m \in 0 .. n /\ n \in Nat
        BY <2>2, <1>1
      <3>2. m \in 1 .. n /\ m - 1 \in 0 .. n /\ ~(m <= m - 1)
        BY <2>3, <3>1
      <3> QED BY <2>2, <3>2
    <2>5. PICK f \in [0 .. n -> Seq(S)] : Upto(m - 1, f)
      BY <2>4
    <2> DEFINE g == [f EXCEPT ![m] = f[m - 1] \o seqs[m]]
    <2>6. seqs[m] \in Seq(S) /\ f[m - 1] \in Seq(S)
      <3>1. seqs[m] \in Seq(S)
        BY <2>4, ElementOfSeq
      <3> QED BY <2>4, <2>5, <3>1
    <2>7. g \in [0 .. n -> Seq(S)]
      BY <2>6
    <2>8. ASSUME NEW i \in 1 .. m PROVE g[i] = g[i - 1] \o seqs[i]
      <3>1. i \in 0 .. n /\ i - 1 \in 0 .. n /\ i - 1 # m /\ (i # m => i \in 1 .. m - 1)
        BY <1>1, <2>4, <2>8
      <3>2. CASE i = m
        BY <2>4, <3>1, <3>2
      <3>3. CASE i # m
        BY <2>5, <3>1, <3>3
      <3> QED BY <3>2, <3>3
    <2>9. g[0] = << >>
      BY <2>4, <2>5
    <2>10. Upto(m, g)
      BY <2>8, <2>9
    <2> HIDE DEF g, Upto
    <2> QED BY <2>2, <2>7, <2>10
  <1>3. n \in 0 .. n
    BY <1>1
  <1>4. \E G \in [0 .. n -> Seq(S)] : Upto(n, G)
    <2> HIDE DEF n, Upto
    <2> QED BY <1>2, <1>3
  <1> QED BY <1>4 DEF ArePrefixes

\* The last of the parts is what FlattenSeq makes of it.
LEMMA FlattenIs ==
  ASSUME NEW S, NEW seqs \in Seq(Seq(S)),
         NEW G \in [0 .. Len(seqs) -> Seq(S)], ArePrefixes(seqs, G)
  PROVE  FlattenSeq(seqs) = G[Len(seqs)]
  <1> DEFINE n == Len(seqs)
             Step(f) == [i \in 1 .. n |-> IF i = 1 THEN seqs[i] ELSE f[i - 1] \o seqs[i]]
             F == CHOOSE f : f = Step(f)
  <1>1. n \in Nat
    OBVIOUS
  <1>2. CASE n = 0
    <2>1. seqs = << >>
      BY <1>2, EmptySeq
    <2> QED BY <1>2, <2>1 DEF FlattenSeq, ArePrefixes
  <1>3. CASE n # 0
    <2>1. FlattenSeq(seqs) = F[n]
      BY <1>3 DEF FlattenSeq
    <2> DEFINE g == [i \in 1 .. n |-> G[i]]
    <2>2. ASSUME NEW i \in 1 .. n
          PROVE  G[i] = IF i = 1 THEN seqs[i] ELSE G[i - 1] \o seqs[i]
      <3>1. seqs[i] \in Seq(S)
        BY <2>2, ElementOfSeq
      <3>2. << >> \o seqs[i] = seqs[i]
        BY <3>1, ConcatEmptySeq
      <3>3. G[i] = G[i - 1] \o seqs[i] /\ (i = 1 => G[i - 1] = << >>)
        BY <2>2 DEF ArePrefixes
      <3> QED BY <3>2, <3>3
    <2>3. g = Step(g)
      <3>1. \A i \in 1 .. n : i # 1 => i - 1 \in 1 .. n
        BY <1>1
      <3> QED BY <2>2, <3>1
    <2>4. F = Step(F)
      <3> HIDE DEF Step, g
      <3> QED BY <2>3
    <2>5. \A i \in 1 .. n : F[i] = IF i = 1 THEN seqs[i] ELSE F[i - 1] \o seqs[i]
      BY <2>4
    <2> HIDE DEF F
    <2> DEFINE Bad == {m \in 1 .. n : F[m] # G[m]}
    <2>6. Bad = {}
      <3> SUFFICES ASSUME Bad # {} PROVE FALSE
        OBVIOUS
      <3>1. Bad \in SUBSET Nat
        OBVIOUS
      <3>2. PICK m \in Bad : \A k \in Bad : m <= k
        BY <3>1, LeastOf
      <3>3. m # 1 => m - 1 \in 1 .. n /\ m - 1 \notin Bad
        BY <1>1, <3>2
      <3> QED BY <2>2, <2>5, <3>2, <3>3
    <2>7. n \in 1 .. n
      BY <1>1, <1>3
    <2> QED BY <2>1, <2>6, <2>7
  <1> QED BY <1>2, <1>3


\* One sequence after another.
LEMMA Appended ==
  ASSUME NEW S, NEW a \in Seq(S), NEW b \in Seq(S), NEW c, c = a \o b
  PROVE  /\ c \in Seq(S) /\ Len(a) \in Nat /\ Len(b) \in Nat /\ Len(c) = Len(a) + Len(b)
         /\ \A k \in 1 .. Len(a) : c[k] = a[k]
         /\ \A k \in 1 .. Len(b) : c[Len(a) + k] = b[k]
  <1>1. Len(a) \in Nat /\ Len(b) \in Nat
    OBVIOUS
  <1>2. \A k \in 1 .. Len(b) : Len(a) + k \in 1 .. Len(a) + Len(b) /\ ~(Len(a) + k =< Len(a))
            /\ Len(a) + k - Len(a) = k
    BY <1>1
  <1> QED BY <1>1, <1>2, ConcatProperties

\* The text up to a part is the start of the whole, and each part has its place.
LEMMA PartsHavePlaces ==
  ASSUME NEW S, NEW seqs \in Seq(Seq(S)), NEW G \in [0 .. Len(seqs) -> Seq(S)], ArePrefixes(seqs, G)
  PROVE  /\ FlattenSeq(seqs) = G[Len(seqs)] /\ Len(G[0]) = 0
         /\ \A i \in 0 .. Len(seqs) : Len(G[i]) \in 0 .. Len(FlattenSeq(seqs))
         /\ \A i \in 1 .. Len(seqs) :
              /\ seqs[i] \in Seq(S) /\ Len(seqs[i]) \in Nat
              /\ Len(G[i]) = Len(G[i - 1]) + Len(seqs[i])
              /\ \A k \in 1 .. Len(seqs[i]) : FlattenSeq(seqs)[Len(G[i - 1]) + k] = seqs[i][k]
  <1> DEFINE n == Len(seqs)
             t == FlattenSeq(seqs)
             Starts(i) == Len(G[i]) =< Len(t) /\ \A k \in 1 .. Len(G[i]) : t[k] = G[i][k]
  <1>1. n \in Nat /\ t = G[n] /\ t \in Seq(S)
    <2>1. n \in Nat /\ n \in 0 .. n
      OBVIOUS
    <2>2. t = G[n]
      BY FlattenIs
    <2> QED BY <2>1, <2>2
  <1>2. G[0] = << >> /\ Len(G[0]) = 0
    BY DEF ArePrefixes
  <1> DEFINE Grows(i) ==
               /\ Len(G[i]) = Len(G[i - 1]) + Len(seqs[i])
               /\ \A k \in 1 .. Len(G[i - 1]) : G[i][k] = G[i - 1][k]
               /\ \A k \in 1 .. Len(seqs[i]) : G[i][Len(G[i - 1]) + k] = seqs[i][k]
  <1>3. ASSUME NEW i \in 1 .. n
        PROVE  i - 1 \in 0 .. n /\ i \in 0 .. n /\ seqs[i] \in Seq(S) /\ Len(seqs[i]) \in Nat /\ Grows(i)
    <2>1. seqs[i] \in Seq(S)
      BY ElementOfSeq
    <2>2. i - 1 \in 0 .. n /\ i \in 0 .. n
      BY <1>1
    <2> DEFINE a == G[i - 1]
               b == seqs[i]
               c == G[i]
    <2>3. c = a \o b
      BY DEF ArePrefixes
    <2>4. a \in Seq(S) /\ b \in Seq(S)
      BY <2>1, <2>2
    <2> HIDE DEF a, b, c
    <2>5. /\ Len(b) \in Nat /\ Len(c) = Len(a) + Len(b)
          /\ \A k \in 1 .. Len(a) : c[k] = a[k]
          /\ \A k \in 1 .. Len(b) : c[Len(a) + k] = b[k]
      BY <2>3, <2>4, Appended
    <2>6. Grows(i) /\ Len(seqs[i]) \in Nat
      BY <2>5, Zenon DEF a, b, c
    <2> HIDE DEF Grows, n
    <2> QED BY <2>1, <2>2, <2>6
  <1>4. \A i \in 0 .. n : Len(G[i]) \in Nat
    BY <1>1
  <1> HIDE DEF n, t, Starts, Grows
  <1>5. \A i \in 0 .. n : Starts(i)
    <2> DEFINE Bad == {d \in 0 .. n : ~Starts(n - d)}
    <2>1. Bad = {}
      <3> SUFFICES ASSUME Bad # {} PROVE FALSE
        OBVIOUS
      <3>1. Bad \in SUBSET Nat
        BY <1>1
      <3>2. PICK d \in Bad : \A e \in Bad : d =< e
        BY <3>1, LeastOf
      <3>3. d # 0
        <4>1. Starts(n)
          <5>1. Len(t) \in Nat
            BY <1>1
          <5> QED BY <1>1, <5>1 DEF Starts
        <4> QED BY <4>1, <3>2, <1>1
      <3>4. \E i \in 1 .. n : i - 1 = n - d /\ d - 1 \in 0 .. n /\ n - (d - 1) = i /\ ~(d =< d - 1)
        <4>1. n - d + 1 \in 1 .. n /\ (n - d + 1) - 1 = n - d /\ d - 1 \in 0 .. n
                /\ n - (d - 1) = n - d + 1 /\ ~(d =< d - 1)
          BY <1>1, <3>2, <3>3
        <4> QED BY <4>1
      <3>5. PICK i \in 1 .. n : i - 1 = n - d /\ d - 1 \in 0 .. n /\ n - (d - 1) = i /\ ~(d =< d - 1)
        BY <3>4
      <3>6. Starts(i)
        <4>1. d - 1 \notin Bad
          BY <3>2, <3>5
        <4> QED BY <3>5, <4>1
      <3>7. ~Starts(i - 1)
        BY <3>2, <3>5
      <3> DEFINE u == Len(G[i - 1])
                 v == Len(seqs[i])
      <3>8. u \in Nat /\ v \in Nat /\ Len(G[i]) = u + v /\ \A k \in 1 .. u : G[i][k] = G[i - 1][k]
        BY <1>3, <1>4, <3>5 DEF Grows
      <3>9. Len(t) \in Nat /\ Len(G[i]) =< Len(t) /\ \A k \in 1 .. Len(G[i]) : t[k] = G[i][k]
        BY <1>1, <3>6 DEF Starts
      <3>10. Starts(i - 1)
        <4> HIDE DEF u, v
        <4>1. u =< Len(t) /\ \A k \in 1 .. u : k \in 1 .. Len(G[i])
          BY <3>8, <3>9
        <4>2. \A k \in 1 .. u : t[k] = G[i - 1][k]
          BY <3>8, <3>9, <4>1
        <4> QED BY <4>1, <4>2 DEF u, Starts
      <3> QED BY <3>7, <3>10
    <2>2. \A i \in 0 .. n : n - i \in 0 .. n /\ n - (n - i) = i
      BY <1>1
    <2> QED BY <2>1, <2>2
  <1>6. ASSUME NEW i \in 0 .. n PROVE Len(G[i]) \in 0 .. Len(t)
    <2>1. Len(t) \in Nat
      BY <1>1
    <2> QED BY <2>1, <1>4, <1>5 DEF Starts
  <1>7. ASSUME NEW i \in 1 .. n, NEW k \in 1 .. Len(seqs[i])
        PROVE  t[Len(G[i - 1]) + k] = seqs[i][k]
    <2> DEFINE u == Len(G[i - 1])
               v == Len(seqs[i])
               m == u + k
    <2>1. u \in Nat /\ v \in Nat /\ k \in 1 .. v /\ Len(G[i]) = u + v /\ G[i][m] = seqs[i][k]
      BY <1>3, <1>4 DEF Grows
    <2> HIDE DEF u, v
    <2>2. m \in 1 .. Len(G[i])
      BY <2>1
    <2> HIDE DEF m
    <2>3. t[m] = G[i][m]
      BY <1>3, <1>5, <2>2 DEF Starts
    <2> QED BY <2>1, <2>3 DEF m, u
  <1>8. \A i \in 1 .. n : /\ seqs[i] \in Seq(S) /\ Len(seqs[i]) \in Nat
                           /\ Len(G[i]) = Len(G[i - 1]) + Len(seqs[i])
    BY <1>3 DEF Grows
  <1>9. t = G[n]
    BY <1>1
  <1> QED BY <1>2, <1>6, <1>7, <1>8, <1>9 DEF n, t

LEMMA TakeOneMore ==
  ASSUME NEW S, NEW s \in Seq(S), NEW i \in 1 .. Len(s)
  PROVE  SubSeq(s, 1, i) = SubSeq(s, 1, i - 1) \o <<s[i]>>
  <1> DEFINE a == SubSeq(s, 1, i - 1)
             c == SubSeq(s, 1, i)
  <1>1. i \in Nat /\ i - 1 \in Nat /\ Len(s) \in Nat /\ s[i] \in S /\ i =< Len(s) /\ 1 =< i
    BY ElementOfSeq
  <1>2. a \in Seq(S) /\ Len(a) = i - 1 /\ \A k \in 1 .. i - 1 : a[k] = s[k]
    BY <1>1, SubSeqProperties
  <1>3. c \in Seq(S) /\ Len(c) = i /\ \A k \in 1 .. i : c[k] = s[k]
    BY <1>1, SubSeqProperties
  <1> HIDE DEF a, c
  <1>4. <<s[i]>> \in Seq(S) /\ Len(<<s[i]>>) = 1 /\ <<s[i]>>[1] = s[i]
    BY <1>1
  <1> DEFINE d == a \o <<s[i]>>
  <1>5. d \in Seq(S) /\ Len(d) = i /\ \A k \in 1 .. i : d[k] = s[k]
    <2> DEFINE e == <<s[i]>>
    <2>1. e \in Seq(S) /\ Len(e) = 1 /\ e[1] = s[i]
      BY <1>4
    <2> HIDE DEF e
    <2>2. /\ d \in Seq(S) /\ Len(d) = Len(a) + Len(e)
          /\ \A k \in 1 .. Len(a) : d[k] = a[k]
          /\ \A k \in 1 .. Len(e) : d[Len(a) + k] = e[k]
      BY <1>2, <2>1, Appended DEF e
    <2> HIDE DEF d
    <2>3. d[i] = s[i]
      <3>1. d[Len(a) + 1] = e[1] /\ Len(a) + 1 = i
        BY <1>1, <1>2, <2>1, <2>2
      <3> QED BY <2>1, <3>1
    <2> QED BY <1>1, <1>2, <2>1, <2>2, <2>3
  <1> HIDE DEF d
  <1>6. c = d
    BY <1>3, <1>5, SeqEqual
  <1> QED BY <1>6 DEF a, c, d

----------------------------------------------------------------------------
(* Escapes *)

\* The digits of a byte, of either case, are read as the byte.
LEMMA HexRead ==
  ASSUME NEW byte \in Byte, NEW high, NEW low, HexOf(byte, high, low)
  PROVE  /\ high \in Byte /\ low \in Byte /\ IsHex(high) /\ IsHex(low)
         /\ high # Percent /\ low # Percent
         /\ FromHex(high, low) = byte
  <1>1. ASSUME NEW v \in 0 .. 15, NEW d \in {UpperDigit(v), LowerDigit(v)}
        PROVE  d \in Byte /\ IsHex(d) /\ d # Percent /\ HexValue(d) = v
    BY <1>1 DEF UpperDigit, LowerDigit, IsHex, HexValue, Byte, Percent, Digits, Upper
  <1>2. /\ byte \div 16 \in 0 .. 15 /\ byte % 16 \in 0 .. 15
        /\ byte = 16 * (byte \div 16) + (byte % 16)
    BY DEF Byte
  <1> DEFINE h == byte \div 16
             l == byte % 16
  <1>3. high \in {UpperDigit(h), LowerDigit(h)} /\ low \in {UpperDigit(l), LowerDigit(l)}
    BY DEF HexOf
  <1>4. h \in 0 .. 15 /\ l \in 0 .. 15 /\ byte = 16 * h + l
    BY <1>2
  <1> HIDE DEF h, l
  <1>5. high \in Byte /\ IsHex(high) /\ high # Percent /\ HexValue(high) = h
    BY <1>1, <1>3, <1>4
  <1>6. low \in Byte /\ IsHex(low) /\ low # Percent /\ HexValue(low) = l
    BY <1>1, <1>3, <1>4
  <1> QED BY <1>4, <1>5, <1>6 DEF FromHex

Hows == {"plain", "upper", "lower"}

\* The ways to write a text in which nothing can be taken for an escape.
Ways(raw) ==
  {how \in Seq(Hows) : /\ Len(how) = Len(raw)
                       /\ \A i \in 1 .. Len(raw) : how[i] = "plain" => raw[i] # Percent}

\* A byte stands for itself or is three characters.
LEMMA SpelledShape ==
  ASSUME NEW byte \in Byte, NEW how \in Hows, how = "plain" => byte # Percent
  PROVE  /\ Spelled(byte, how) \in Seq(Byte)
         /\ \/ /\ Len(Spelled(byte, how)) \in 1 .. 1
               /\ Spelled(byte, how)[1] = byte /\ byte # Percent
            \/ /\ Len(Spelled(byte, how)) \in 3 .. 3
               /\ Spelled(byte, how)[1] = Percent
               /\ HexOf(byte, Spelled(byte, how)[2], Spelled(byte, how)[3])
  <1>1. CASE how = "plain"
    <2>1. Spelled(byte, how) = <<byte>>
      BY <1>1 DEF Spelled
    <2> QED BY <1>1, <2>1
  <1>2. CASE how # "plain"
    <2>1. PICK high, low : Spelled(byte, how) = <<Percent, high, low>> /\ HexOf(byte, high, low)
      <3>1. CASE how = "upper"
        <4>1. Spelled(byte, how) = <<Percent, UpperDigit(byte \div 16), UpperDigit(byte % 16)>>
          BY <3>1 DEF Spelled, Escape
        <4> QED BY <4>1 DEF HexOf
      <3>2. CASE how = "lower"
        <4>1. Spelled(byte, how) = <<Percent, LowerDigit(byte \div 16), LowerDigit(byte % 16)>>
          BY <3>2 DEF Spelled
        <4> QED BY <4>1 DEF HexOf
      <3> QED BY <1>2, <3>1, <3>2 DEF Hows
    <2>2. high \in Byte /\ low \in Byte /\ Percent \in Byte
      <3>1. high \in Byte /\ low \in Byte
        BY <2>1, HexRead
      <3> QED BY <3>1 DEF Percent, Byte
    <2> QED BY <2>1, <2>2
  <1> QED BY <1>1, <1>2

\* Where in a text the spelling of each byte of another ends.
Laid(raw, text, L) ==
  /\ L[0] = 0 /\ L[Len(raw)] = Len(text)
  /\ \A i \in 1 .. Len(raw) :
       /\ L[i] =< Len(text)
       /\ \/ /\ L[i] = L[i - 1] + 1
             /\ text[L[i - 1] + 1] = raw[i] /\ raw[i] # Percent
          \/ /\ L[i] = L[i - 1] + 3
             /\ text[L[i - 1] + 1] = Percent
             /\ HexOf(raw[i], text[L[i - 1] + 2], text[L[i - 1] + 3])

LEMMA SpellingIsLaid ==
  ASSUME NEW raw \in Seq(Byte), NEW how \in Ways(raw)
  PROVE  /\ Spelling(raw, how) \in Seq(Byte)
         /\ \E L \in [0 .. Len(raw) -> Nat] : Laid(raw, Spelling(raw, how), L)
  <1> DEFINE n == Len(raw)
             seqs == [i \in 1 .. n |-> Spelled(raw[i], how[i])]
             t == FlattenSeq(seqs)
  <1>1. n \in Nat /\ Len(how) = n /\ \A i \in 1 .. n : raw[i] \in Byte /\ how[i] \in Hows
    BY ElementOfSeq DEF Ways
  <1>2. ASSUME NEW i \in 1 .. n PROVE how[i] = "plain" => raw[i] # Percent
    BY DEF Ways
  <1>3. Spelling(raw, how) = t
    BY DEF Spelling
  <1>4. \A i \in 1 .. n : seqs[i] = Spelled(raw[i], how[i])
    OBVIOUS
  <1>5. seqs \in Seq(Seq(Byte)) /\ Len(seqs) = n
    <2>1. \A i \in 1 .. n : Spelled(raw[i], how[i]) \in Seq(Byte)
      <3> HIDE DEF n
      <3> QED BY <1>1, <1>2, SpelledShape
    <2> HIDE DEF n
    <2> QED BY <1>1, <2>1
  <1> HIDE DEF n, seqs, t
  <1>6. PICK G \in [0 .. n -> Seq(Byte)] : ArePrefixes(seqs, G)
    BY <1>5, PrefixesExist
  <1>7. /\ t = G[n] /\ Len(G[0]) = 0
        /\ \A i \in 0 .. n : Len(G[i]) \in 0 .. Len(t)
        /\ \A i \in 1 .. n :
              /\ seqs[i] \in Seq(Byte) /\ Len(seqs[i]) \in Nat
              /\ Len(G[i]) = Len(G[i - 1]) + Len(seqs[i])
              /\ \A k \in 1 .. Len(seqs[i]) : t[Len(G[i - 1]) + k] = seqs[i][k]
    BY <1>5, <1>6, PartsHavePlaces, ZenonT(40) DEF t
  <1> DEFINE L == [i \in 0 .. n |-> Len(G[i])]
  <1>8. L \in [0 .. n -> Nat] /\ \A i \in 0 .. n : L[i] = Len(G[i])
    <2>1. \A i \in 0 .. n : Len(G[i]) \in Nat
      BY <1>6
    <2> QED BY <2>1
  <1> HIDE DEF L
  <1>9. t \in Seq(Byte) /\ L[0] = 0 /\ L[n] = Len(t)
    <2>1. 0 \in 0 .. n /\ n \in 0 .. n
      BY <1>1
    <2> QED BY <1>6, <1>7, <1>8, <2>1
  <1>10. ASSUME NEW i \in 1 .. n
         PROVE  /\ L[i] =< Len(t)
                /\ \/ /\ L[i] = L[i - 1] + 1
                      /\ t[L[i - 1] + 1] = raw[i] /\ raw[i] # Percent
                   \/ /\ L[i] = L[i - 1] + 3
                      /\ t[L[i - 1] + 1] = Percent
                      /\ HexOf(raw[i], t[L[i - 1] + 2], t[L[i - 1] + 3])
    <2> DEFINE p == seqs[i]
               b == raw[i]
               u == L[i - 1]
               v == L[i]
    <2>1. i \in 0 .. n /\ i - 1 \in 0 .. n
      BY <1>1
    <2>2. u \in Nat /\ v \in Nat /\ v =< Len(t)
      <3>1. Len(t) \in Nat /\ Len(G[i]) \in 0 .. Len(t)
        BY <1>7, <1>9, <2>1
      <3> QED BY <1>8, <2>1, <3>1
    <2>3. v = u + Len(p) /\ \A k \in 1 .. Len(p) : t[u + k] = p[k]
      BY <1>7, <1>8, <2>1
    <2>4. \/ Len(p) \in 1 .. 1 /\ p[1] = b /\ b # Percent
          \/ Len(p) \in 3 .. 3 /\ p[1] = Percent /\ HexOf(b, p[2], p[3])
      <3>1. raw[i] \in Byte /\ how[i] \in Hows /\ (how[i] = "plain" => raw[i] # Percent)
        BY <1>1, <1>2
      <3>2. p = Spelled(raw[i], how[i])
        BY <1>4
      <3> HIDE DEF p
      <3> QED BY <3>1, <3>2, SpelledShape
    <2> HIDE DEF p, b, u, v
    <2>5. \/ v = u + 1 /\ t[u + 1] = b /\ b # Percent
          \/ v = u + 3 /\ t[u + 1] = Percent /\ HexOf(b, t[u + 2], t[u + 3])
      <3>1. CASE Len(p) \in 1 .. 1 /\ p[1] = b /\ b # Percent
        <4>1. Len(p) = 1
          BY <3>1
        <4>2. v = u + 1 /\ t[u + 1] = p[1]
          BY <2>2, <2>3, <4>1
        <4> QED BY <3>1, <4>2
      <3>2. CASE Len(p) \in 3 .. 3 /\ p[1] = Percent /\ HexOf(b, p[2], p[3])
        <4>1. Len(p) = 3
          BY <3>2
        <4>2. v = u + 3 /\ t[u + 1] = p[1] /\ t[u + 2] = p[2] /\ t[u + 3] = p[3]
          BY <2>2, <2>3, <4>1
        <4> QED BY <3>2, <4>2
      <3> QED BY <2>4, <3>1, <3>2
    <2> QED BY <2>2, <2>5 DEF b, u, v
  <1>11. Laid(raw, t, L)
    BY <1>9, <1>10 DEF Laid, n
  <1> QED BY <1>3, <1>8, <1>9, <1>11 DEF n

LEMMA DecodedType ==
  ASSUME NEW text \in Seq(Byte), NEW m \in 1 .. Len(text)
  PROVE  Decoded(text, m) \in Seq(Byte)
  <1>1. text[m] \in Byte
    BY ElementOfSeq
  <1>2. \A c : IsHex(c) => HexValue(c) \in 0 .. 15
    BY DEF IsHex, HexValue, Digits, Upper
  <1>3. \A h, l : IsHex(h) /\ IsHex(l) => FromHex(h, l) \in Byte
    <2> SUFFICES ASSUME NEW h, NEW l, IsHex(h), IsHex(l) PROVE 16 * HexValue(h) + HexValue(l) \in 0 .. 255
      BY DEF FromHex, Byte
    <2> DEFINE x == HexValue(h)
               y == HexValue(l)
    <2>1. x \in 0 .. 15 /\ y \in 0 .. 15
      BY <1>2
    <2> HIDE DEF x, y
    <2>2. 16 * x + y \in 0 .. 255
      BY <2>1
    <2> QED BY <2>2 DEF x, y
  <1>4. EscapeAt(text, m) => FromHex(text[m + 1], text[m + 2]) \in Byte
    BY <1>3 DEF EscapeAt
  <1> QED BY <1>1, <1>4 DEF Decoded

\* What is laid out is decoded: no escape begins at the end of a spelling.
LEMMA LaidDecodes ==
  ASSUME NEW raw \in Seq(Byte), NEW text \in Seq(Byte),
         NEW L \in [0 .. Len(raw) -> Nat], Laid(raw, text, L)
  PROVE  UrlDecode(text) = raw
  <1> DEFINE n == Len(raw)
             N == Len(text)
             dec == [m \in 1 .. N |-> Decoded(text, m)]
  <1>1. n \in Nat /\ N \in Nat /\ \A i \in 1 .. n : raw[i] \in Byte
    BY ElementOfSeq
  <1>2. L[0] = 0 /\ L[n] = N
    BY DEF Laid
  <1> DEFINE AsItIs(i) == /\ L[i] = L[i - 1] + 1
                          /\ text[L[i - 1] + 1] = raw[i] /\ raw[i] # Percent
             Escaped(i) == /\ L[i] = L[i - 1] + 3
                           /\ text[L[i - 1] + 1] = Percent
                           /\ HexOf(raw[i], text[L[i - 1] + 2], text[L[i - 1] + 3])
  <1>3. ASSUME NEW i \in 1 .. n
        PROVE  /\ i - 1 \in 0 .. n /\ i \in 0 .. n /\ L[i - 1] \in Nat /\ L[i] \in Nat /\ L[i] =< N
               /\ AsItIs(i) \/ Escaped(i)
    <2>1. i - 1 \in 0 .. n /\ i \in 0 .. n
      BY <1>1
    <2>2. L[i - 1] \in Nat /\ L[i] \in Nat
      BY <2>1
    <2>3. L[i] =< N /\ (AsItIs(i) \/ Escaped(i))
      BY DEF Laid
    <2> HIDE DEF n, N, AsItIs, Escaped
    <2> QED BY <2>1, <2>2, <2>3
  <1>4. UrlDecode(text) = FlattenSeq(dec)
    BY DEF UrlDecode
  <1>5. dec \in Seq(Seq(Byte)) /\ Len(dec) = N
    <2>1. \A m \in 1 .. N : Decoded(text, m) \in Seq(Byte)
      BY DecodedType
    <2> QED BY <1>1, <2>1
  <1>6. \A m \in 1 .. N : dec[m] = Decoded(text, m)
    OBVIOUS
  <1> HIDE DEF n, N, dec, AsItIs, Escaped
  <1>7. ASSUME NEW i \in 0 .. n PROVE ~EscapeAt(text, L[i])
    <2>1. CASE i = 0
      BY <1>2, <2>1 DEF EscapeAt
    <2>2. CASE i # 0
      <3>1. i \in 1 .. n
        BY <1>1, <2>2
      <3>2. text[L[i]] # Percent
        <4>1. CASE AsItIs(i)
          BY <4>1 DEF AsItIs
        <4>2. CASE Escaped(i)
          <5>1. raw[i] \in Byte /\ HexOf(raw[i], text[L[i - 1] + 2], text[L[i - 1] + 3])
            BY <1>1, <3>1, <4>2 DEF Escaped
          <5>2. text[L[i - 1] + 3] # Percent
            BY <5>1, HexRead
          <5> QED BY <4>2, <5>2 DEF Escaped
        <4> QED BY <1>3, <3>1, <4>1, <4>2
      <3> QED BY <3>2 DEF EscapeAt
    <2> QED BY <2>1, <2>2
  <1>8. ASSUME NEW i \in 0 .. n PROVE ~EscapeAt(text, L[i] - 1)
    <2>1. CASE i = 0
      BY <1>2, <2>1 DEF EscapeAt
    <2>2. CASE i # 0
      <3>1. i \in 1 .. n
        BY <1>1, <2>2
      <3>2. i - 1 \in 0 .. n /\ L[i - 1] \in Nat
        BY <1>3, <3>1
      <3>3. CASE AsItIs(i)
        <4>1. L[i] - 1 = L[i - 1]
          BY <3>2, <3>3 DEF AsItIs
        <4> QED BY <1>7, <3>2, <4>1
      <3>4. CASE Escaped(i)
        <4>1. raw[i] \in Byte /\ HexOf(raw[i], text[L[i - 1] + 2], text[L[i - 1] + 3])
          BY <1>1, <3>1, <3>4 DEF Escaped
        <4>2. text[L[i - 1] + 2] # Percent
          BY <4>1, HexRead
        <4>3. L[i] - 1 = L[i - 1] + 2
          BY <3>2, <3>4 DEF Escaped
        <4> QED BY <4>2, <4>3 DEF EscapeAt
      <3> QED BY <1>3, <3>1, <3>3, <3>4
    <2> QED BY <2>1, <2>2
  <1>9. PICK D \in [0 .. N -> Seq(Byte)] : ArePrefixes(dec, D)
    BY <1>5, PrefixesExist
  <1>10. /\ FlattenSeq(dec) = D[N] /\ D[0] = << >>
         /\ \A m \in 1 .. N : D[m] = D[m - 1] \o Decoded(text, m)
    BY <1>5, <1>6, <1>9, FlattenIs DEF ArePrefixes
  <1>11. ASSUME NEW i \in 1 .. n PROVE D[L[i]] = D[L[i - 1]] \o <<raw[i]>>
    <2> DEFINE u == L[i - 1]
               v == L[i]
               b == raw[i]
    <2>1. u \in Nat /\ v \in Nat /\ v =< N /\ b \in Byte /\ ~EscapeAt(text, u) /\ ~EscapeAt(text, u - 1)
      BY <1>1, <1>3, <1>7, <1>8
    <2>2. CASE AsItIs(i)
      <3>1. v = u + 1 /\ text[u + 1] = b /\ b # Percent
        BY <2>2 DEF AsItIs
      <3> HIDE DEF u, v, b
      <3>2. u + 1 \in 1 .. N /\ (u + 1) - 1 = u /\ (u + 1) - 2 = u - 1
        BY <2>1, <3>1
      <3>3. Decoded(text, u + 1) = <<b>>
        <4>1. ~EscapeAt(text, u + 1)
          BY <3>1 DEF EscapeAt
        <4> QED BY <2>1, <3>1, <3>2, <4>1 DEF Decoded
      <3>4. D[u + 1] = D[u] \o <<b>>
        BY <1>10, <3>2, <3>3
      <3> QED BY <3>1, <3>4 DEF u, v, b
    <2>3. CASE Escaped(i)
      <3>1. v = u + 3 /\ text[u + 1] = Percent /\ HexOf(b, text[u + 2], text[u + 3])
        BY <2>3 DEF Escaped
      <3> HIDE DEF u, v, b
      <3>2. /\ u + 1 \in 1 .. N /\ u + 2 \in 1 .. N /\ u + 3 \in 1 .. N /\ u + 1 \in 1 .. N - 2
            /\ (u + 1) - 1 = u /\ (u + 2) - 1 = u + 1 /\ (u + 3) - 1 = u + 2 /\ (u + 3) - 2 = u + 1
            /\ (u + 1) + 1 = u + 2 /\ (u + 1) + 2 = u + 3
        BY <1>1, <2>1, <3>1
      <3>3. /\ IsHex(text[u + 2]) /\ IsHex(text[u + 3]) /\ FromHex(text[u + 2], text[u + 3]) = b
            /\ text[u + 2] # Percent /\ text[u + 3] # Percent
        BY <2>1, <3>1, HexRead
      <3>4. EscapeAt(text, u + 1)
        BY <3>1, <3>2, <3>3 DEF EscapeAt, N
      <3>5. Decoded(text, u + 1) = <<b>>
        BY <3>2, <3>3, <3>4 DEF Decoded
      <3>6. Decoded(text, u + 2) = << >>
        <4>1. ~EscapeAt(text, u + 2)
          BY <3>3 DEF EscapeAt
        <4> QED BY <3>2, <3>4, <4>1 DEF Decoded
      <3>7. Decoded(text, u + 3) = << >>
        <4>1. ~EscapeAt(text, u + 3)
          BY <3>3 DEF EscapeAt
        <4> QED BY <3>2, <3>4, <4>1 DEF Decoded
      <3>8. D[u + 1] = D[u] \o <<b>>
        BY <1>10, <3>2, <3>5
      <3>9. D[u + 2] = D[u + 1] \o << >>
        BY <1>10, <3>2, <3>6
      <3>10. D[u + 3] = D[u + 2] \o << >>
        BY <1>10, <3>2, <3>7
      <3>11. u + 1 \in 0 .. N /\ u + 2 \in 0 .. N
        BY <3>2
      <3>12. D[u + 1] \in Seq(Byte) /\ D[u + 2] \in Seq(Byte)
        BY <3>11
      <3>13. D[u + 3] = D[u + 1]
        BY <3>9, <3>10, <3>12, ConcatEmptySeq
      <3> QED BY <3>1, <3>8, <3>13 DEF u, v, b
    <2> QED BY <1>3, <2>2, <2>3
  <1> DEFINE Good(i) == D[L[i]] = SubSeq(raw, 1, i)
  <1>12. \A i \in 0 .. n : Good(i)
    <2> DEFINE Bad == {i \in 0 .. n : ~Good(i)}
    <2>1. ASSUME Bad # {} PROVE FALSE
      <3> HIDE DEF Good
      <3>1. Bad \in SUBSET Nat
        BY <1>1
      <3>2. PICK i \in Bad : \A j \in Bad : i =< j
        BY <2>1, <3>1, LeastOf
      <3>3. i # 0
        <4>1. SubSeq(raw, 1, 0) = << >>
          OBVIOUS
        <4> QED BY <1>2, <1>10, <3>2, <4>1 DEF Good
      <3>4. i \in 1 .. n /\ i - 1 \in 0 .. n /\ ~(i =< i - 1)
        BY <1>1, <3>2, <3>3
      <3>5. Good(i - 1)
        BY <3>2, <3>4
      <3>6. SubSeq(raw, 1, i) = SubSeq(raw, 1, i - 1) \o <<raw[i]>>
        <4>1. i \in 1 .. Len(raw)
          BY <3>4 DEF n
        <4> QED BY <4>1, TakeOneMore
      <3>7. Good(i)
        BY <1>11, <3>4, <3>5, <3>6 DEF Good
      <3> QED BY <3>2, <3>7
    <2> HIDE DEF Good
    <2> QED BY <2>1
  <1>13. SubSeq(raw, 1, n) = raw
    BY SubSeqFull DEF n
  <1>14. n \in 0 .. n
    BY <1>1
  <1> QED BY <1>2, <1>4, <1>10, <1>12, <1>13, <1>14

\* However each byte of a text is spelled, url_decode gives the text back.
THEOREM SpellingsAreDecoded ==
  ASSUME NEW raw \in Seq(Byte), NEW how \in Ways(raw)
  PROVE  UrlDecode(Spelling(raw, how)) = raw
  <1>1. PICK L \in [0 .. Len(raw) -> Nat] : Laid(raw, Spelling(raw, how), L)
    BY SpellingIsLaid
  <1>2. Spelling(raw, how) \in Seq(Byte)
    BY SpellingIsLaid
  <1> DEFINE t == Spelling(raw, how)
  <1>3. t \in Seq(Byte) /\ Laid(raw, t, L)
    BY <1>1, <1>2
  <1> HIDE DEF t
  <1>4. UrlDecode(t) = raw
    BY <1>3, LaidDecodes
  <1> QED BY <1>4 DEF t

\* What url_encode writes.
Safe == (Upper \cup Lower \cup Digits \cup {45, 46, 95, 126}) \cup {Percent}

LEMMA EncodedIsSafe ==
  ASSUME NEW raw \in Seq(Byte)
  PROVE  /\ UrlEncode(raw) \in Seq(Safe) /\ UrlEncode(raw) \in Seq(Byte)
  <1> DEFINE n == Len(raw)
             seqs == [i \in 1 .. n |-> IF IsUnreserved(raw[i]) THEN <<raw[i]>> ELSE Escape(raw[i])]
  <1>1. n \in Nat /\ \A i \in 1 .. n : raw[i] \in Byte
    BY ElementOfSeq
  <1>2. ASSUME NEW b \in Byte
        PROVE  (IF IsUnreserved(b) THEN <<b>> ELSE Escape(b)) \in Seq(Safe)
    <2>1. CASE IsUnreserved(b)
      <3>1. b \in Safe
        BY <2>1 DEF IsUnreserved, Safe
      <3> QED BY <2>1, <3>1
    <2>2. CASE ~IsUnreserved(b)
      <3>1. \A v \in 0 .. 15 : UpperDigit(v) \in Safe
        BY DEF UpperDigit, Safe, Digits, Upper
      <3>2. b \div 16 \in 0 .. 15 /\ b % 16 \in 0 .. 15
        BY DEF Byte
      <3>3. UpperDigit(b \div 16) \in Safe /\ UpperDigit(b % 16) \in Safe /\ Percent \in Safe
        BY <3>1, <3>2 DEF Safe
      <3>4. Escape(b) \in Seq(Safe)
        BY <3>3 DEF Escape
      <3> QED BY <2>2, <3>4
    <2> QED BY <2>1, <2>2
  <1>3. seqs \in Seq(Seq(Safe))
    <2> HIDE DEF n
    <2> QED BY <1>1, <1>2
  <1>4. UrlEncode(raw) = FlattenSeq(seqs)
    BY DEF UrlEncode
  <1> HIDE DEF seqs
  <1>5. PICK G \in [0 .. Len(seqs) -> Seq(Safe)] : ArePrefixes(seqs, G)
    BY <1>3, PrefixesExist
  <1>6. FlattenSeq(seqs) = G[Len(seqs)]
    BY <1>3, <1>5, FlattenIs
  <1>7. Len(seqs) \in 0 .. Len(seqs)
    BY <1>3
  <1>8. UrlEncode(raw) \in Seq(Safe)
    BY <1>4, <1>5, <1>6, <1>7
  <1>9. Safe \subseteq Byte
    BY DEF Safe, Byte, Upper, Lower, Digits, Percent
  <1>10. \A s \in Seq(Safe) : s \in Seq(Byte)
    BY <1>9
  <1> QED BY <1>8, <1>10

\* Every hash and every id is read as it was, whatever bytes it has.
THEOREM EncodingsAreDecoded ==
  ASSUME NEW raw \in Seq(Byte)
  PROVE  UrlDecode(UrlEncode(raw)) = raw
  <1> DEFINE how == [i \in 1 .. Len(raw) |-> IF IsUnreserved(raw[i]) THEN "plain" ELSE "upper"]
  <1>1. how \in Ways(raw)
    <2>1. how \in Seq(Hows) /\ Len(how) = Len(raw)
      BY DEF Hows
    <2>2. ~IsUnreserved(Percent)
      BY DEF IsUnreserved, Percent, Upper, Lower, Digits
    <2>3. ASSUME NEW i \in 1 .. Len(raw), how[i] = "plain" PROVE raw[i] # Percent
      BY <2>2, <2>3
    <2> QED BY <2>1, <2>3 DEF Ways
  <1>2. UrlEncode(raw) = Spelling(raw, how)
    <2>1. ASSUME NEW i \in 1 .. Len(raw)
          PROVE  (IF IsUnreserved(raw[i]) THEN <<raw[i]>> ELSE Escape(raw[i])) = Spelled(raw[i], how[i])
      BY DEF Spelled
    <2>2. [i \in 1 .. Len(raw) |-> IF IsUnreserved(raw[i]) THEN <<raw[i]>> ELSE Escape(raw[i])]
            = [i \in 1 .. Len(raw) |-> Spelled(raw[i], how[i])]
      BY <2>1
    <2> QED BY <2>2 DEF UrlEncode, Spelling
  <1> HIDE DEF how
  <1> QED BY <1>1, <1>2, SpellingsAreDecoded

----------------------------------------------------------------------------
(* Where a character is *)

LEMMA FindAt ==
  ASSUME NEW t, NEW c, NEW i \in 1 .. Len(t), Len(t) \in Nat, t[i] = c,
         \A j \in 1 .. i - 1 : t[j] # c
  PROVE  Find(t, c) = i
  <1>1. i \in Positions(t, c) /\ \A j \in Positions(t, c) : i =< j
    BY DEF Positions
  <1>2. \A k \in Positions(t, c) : (\A j \in Positions(t, c) : k =< j) => k = i
    BY <1>1 DEF Positions
  <1> QED BY <1>1, <1>2 DEF Find

LEMMA FindNone ==
  ASSUME NEW t, NEW c, \A j \in 1 .. Len(t) : t[j] # c
  PROVE  Find(t, c) = 0
  BY DEF Find, Positions

LEMMA FindIs ==
  ASSUME NEW t, NEW c, Len(t) \in Nat, Find(t, c) # 0
  PROVE  Find(t, c) \in 1 .. Len(t) /\ t[Find(t, c)] = c /\ \A j \in 1 .. Find(t, c) - 1 : t[j] # c
  <1>1. Positions(t, c) # {} /\ Positions(t, c) \in SUBSET Nat
    BY DEF Find, Positions
  <1>2. PICK i \in Positions(t, c) : \A j \in Positions(t, c) : i =< j
    BY <1>1, LeastOf
  <1>3. i \in 1 .. Len(t) /\ t[i] = c /\ \A j \in 1 .. i - 1 : t[j] # c
    BY <1>2 DEF Positions
  <1>4. Find(t, c) = i
    BY <1>3, FindAt
  <1> QED BY <1>3, <1>4

LEMMA Dropped ==
  ASSUME NEW S, NEW t \in Seq(S), NEW n \in 0 .. Len(t)
  PROVE  /\ Drop(t, n) \in Seq(S) /\ Len(Drop(t, n)) = Len(t) - n
         /\ \A i \in 1 .. Len(t) - n : Drop(t, n)[i] = t[n + i]
  <1>1. Len(t) \in Nat /\ n \in Nat /\ n + 1 \in Int /\ n =< Len(t)
    OBVIOUS
  <1>2. \A i \in n + 1 .. Len(t) : t[i] \in S
    BY <1>1, ElementOfSeq
  <1> DEFINE m == n + 1
             l == Len(t)
  <1>3. m \in Int /\ l \in Int /\ \A i \in m .. l : t[i] \in S
    BY <1>1, <1>2
  <1>4. m = n + 1 /\ l \in Nat /\ n \in Nat /\ n =< l
    BY <1>1
  <1> HIDE DEF m, l
  <1>5. /\ SubSeq(t, m, l) \in Seq(S)
        /\ Len(SubSeq(t, m, l)) = IF m =< l THEN l - m + 1 ELSE 0
        /\ \A i \in 1 .. l - m + 1 : SubSeq(t, m, l)[i] = t[m + i - 1]
    BY <1>3, SubSeqProperties
  <1>6. l - m + 1 = l - n /\ (IF m =< l THEN l - m + 1 ELSE 0) = l - n
    BY <1>4
  <1>7. \A i \in 1 .. l - n : m + i - 1 = n + i
    BY <1>4
  <1>8. /\ SubSeq(t, m, l) \in Seq(S) /\ Len(SubSeq(t, m, l)) = l - n
        /\ \A i \in 1 .. l - n : SubSeq(t, m, l)[i] = t[n + i]
    BY <1>5, <1>6, <1>7
  <1> QED BY <1>8 DEF Drop, m, l

\* A parameter and those after it, place by place.
IsParameter(t, k, v, o) ==
  /\ t \in Seq(Byte) /\ Len(k) \in Nat /\ Len(v) \in Nat /\ Len(o) \in Nat
  /\ Len(t) = Len(k) + Len(v) + 2 + Len(o)
  /\ \A i \in 1 .. Len(k) : t[i] = k[i]
  /\ t[Len(k) + 1] = Equals
  /\ \A i \in 1 .. Len(v) : t[Len(k) + 1 + i] = v[i]
  /\ t[Len(k) + Len(v) + 2] = Amp
  /\ \A i \in 1 .. Len(o) : t[Len(k) + Len(v) + 2 + i] = o[i]

LEMMA ParameterShape ==
  ASSUME NEW k \in Seq(Byte), NEW v \in Seq(Byte), NEW o \in Seq(Byte)
  PROVE  IsParameter(Parameter(k, v, o), k, v, o)
  <1> DEFINE e == <<Equals>>
             a == <<Amp>>
             x == k \o e
             y == x \o v
             z == y \o a
             t == z \o o
             K == Len(k)
             V == Len(v)
  <1>1. /\ e \in Seq(Byte) /\ Len(e) = 1 /\ e[1] = Equals
        /\ a \in Seq(Byte) /\ Len(a) = 1 /\ a[1] = Amp
    BY DEF Byte, Equals, Amp
  <1>2. Parameter(k, v, o) = t
    BY DEF Parameter
  <1> HIDE DEF e, a, x, y, z, t
  <1>3. /\ x \in Seq(Byte) /\ K \in Nat /\ Len(x) = K + 1
        /\ \A i \in 1 .. K : x[i] = k[i]
        /\ \A i \in 1 .. 1 : x[K + i] = e[i]
    <2>1. x = k \o e
      BY DEF x
    <2>2. k \in Seq(Byte) /\ e \in Seq(Byte)
      BY <1>1
    <2>3. /\ x \in Seq(Byte) /\ Len(k) \in Nat /\ Len(e) \in Nat /\ Len(x) = Len(k) + Len(e)
          /\ \A i \in 1 .. Len(k) : x[i] = k[i]
          /\ \A i \in 1 .. Len(e) : x[Len(k) + i] = e[i]
      BY <2>1, <2>2, Appended
    <2> QED BY <1>1, <2>3 DEF K
  <1>4. /\ y \in Seq(Byte) /\ V \in Nat /\ Len(y) = Len(x) + V
        /\ \A i \in 1 .. Len(x) : y[i] = x[i]
        /\ \A i \in 1 .. V : y[Len(x) + i] = v[i]
    <2>1. y = x \o v
      BY DEF y
    <2>2. x \in Seq(Byte) /\ v \in Seq(Byte)
      BY <1>1, <1>3
    <2>3. /\ y \in Seq(Byte) /\ Len(x) \in Nat /\ Len(v) \in Nat /\ Len(y) = Len(x) + Len(v)
          /\ \A i \in 1 .. Len(x) : y[i] = x[i]
          /\ \A i \in 1 .. Len(v) : y[Len(x) + i] = v[i]
      BY <2>1, <2>2, Appended
    <2> QED BY <2>3 DEF V
  <1>5. /\ z \in Seq(Byte) /\ Len(z) = Len(y) + 1
        /\ \A i \in 1 .. Len(y) : z[i] = y[i]
        /\ \A i \in 1 .. 1 : z[Len(y) + i] = a[i]
    <2>1. z = y \o a
      BY DEF z
    <2>2. y \in Seq(Byte) /\ a \in Seq(Byte)
      BY <1>1, <1>4
    <2>3. /\ z \in Seq(Byte) /\ Len(y) \in Nat /\ Len(a) \in Nat /\ Len(z) = Len(y) + Len(a)
          /\ \A i \in 1 .. Len(y) : z[i] = y[i]
          /\ \A i \in 1 .. Len(a) : z[Len(y) + i] = a[i]
      BY <2>1, <2>2, Appended
    <2> QED BY <1>1, <2>3
  <1>6. /\ t \in Seq(Byte) /\ Len(o) \in Nat /\ Len(t) = Len(z) + Len(o)
        /\ \A i \in 1 .. Len(z) : t[i] = z[i]
        /\ \A i \in 1 .. Len(o) : t[Len(z) + i] = o[i]
    <2>1. t = z \o o
      BY DEF t
    <2>2. z \in Seq(Byte) /\ o \in Seq(Byte)
      BY <1>1, <1>5
    <2>3. /\ t \in Seq(Byte) /\ Len(z) \in Nat /\ Len(o) \in Nat /\ Len(t) = Len(z) + Len(o)
          /\ \A i \in 1 .. Len(z) : t[i] = z[i]
          /\ \A i \in 1 .. Len(o) : t[Len(z) + i] = o[i]
      BY <2>1, <2>2, Appended
    <2> QED BY <2>3
  <1> HIDE DEF K, V
  <1>7. Len(x) = K + 1 /\ Len(y) = K + V + 1 /\ Len(z) = K + V + 2 /\ K \in Nat /\ V \in Nat
    BY <1>3, <1>4, <1>5
  <1>8. ASSUME NEW i \in 1 .. K PROVE t[i] = k[i]
    <2>1. i \in 1 .. Len(x) /\ i \in 1 .. Len(y) /\ i \in 1 .. Len(z)
      BY <1>7
    <2> QED BY <1>3, <1>4, <1>5, <1>6, <2>1
  <1>9. t[K + 1] = Equals
    <2>1. 1 \in 1 .. 1 /\ K + 1 \in 1 .. Len(x) /\ K + 1 \in 1 .. Len(y) /\ K + 1 \in 1 .. Len(z)
      BY <1>7
    <2> QED BY <1>1, <1>3, <1>4, <1>5, <1>6, <2>1
  <1>10. ASSUME NEW i \in 1 .. V PROVE t[K + 1 + i] = v[i]
    <2>1. K + 1 + i \in 1 .. Len(y) /\ K + 1 + i \in 1 .. Len(z)
      BY <1>7
    <2>2. y[K + 1 + i] = v[i]
      BY <1>4, <1>7
    <2> QED BY <1>5, <1>6, <2>1, <2>2
  <1>11. t[K + V + 2] = Amp
    <2>1. 1 \in 1 .. 1 /\ K + V + 2 \in 1 .. Len(z) /\ Len(y) + 1 = K + V + 2
      BY <1>7
    <2> QED BY <1>1, <1>5, <1>6, <2>1
  <1>12. ASSUME NEW i \in 1 .. Len(o) PROVE t[K + V + 2 + i] = o[i]
    BY <1>6, <1>7
  <1>13. Len(t) = K + V + 2 + Len(o)
    BY <1>6, <1>7
  <1> QED BY <1>2, <1>6, <1>7, <1>8, <1>9, <1>10, <1>11, <1>12, <1>13 DEF K, V, IsParameter

\* The value of the first parameter.
LEMMA ValueOfParameter ==
  ASSUME NEW k \in Seq(Byte), NEW v \in Seq(Byte), NEW o \in Seq(Byte),
         \A i \in 1 .. Len(k) : k[i] \notin {Equals, Amp},
         \A i \in 1 .. Len(v) : v[i] # Amp
  PROVE  Value(Parameter(k, v, o)) = v
  <1> DEFINE t == Parameter(k, v, o)
             K == Len(k)
             V == Len(v)
             L == Len(t)
  <1>1. /\ t \in Seq(Byte) /\ K \in Nat /\ V \in Nat /\ L \in Nat /\ L = K + V + 2 + Len(o) /\ Len(o) \in Nat
        /\ \A i \in 1 .. K : t[i] = k[i]
        /\ t[K + 1] = Equals
        /\ \A i \in 1 .. V : t[K + 1 + i] = v[i]
        /\ t[K + V + 2] = Amp
    <2>1. IsParameter(t, k, v, o)
      BY ParameterShape
    <2> HIDE DEF t
    <2> QED BY <2>1 DEF IsParameter
  <1>2. Equals # Amp
    BY DEF Equals, Amp
  <1>3. /\ \A i \in 1 .. K : k[i] # Equals /\ k[i] # Amp
        /\ \A i \in 1 .. V : v[i] # Amp
    OBVIOUS
  <1>4. v \in Seq(Byte) /\ V = Len(v)
    OBVIOUS
  <1>5. L = Len(t)
    OBVIOUS
  <1>6. Value(t) = SubSeq(t, Find(t, Equals) + 1, IF Find(t, Amp) = 0 THEN Len(t) ELSE Find(t, Amp) - 1)
    BY DEF Value
  <1> HIDE DEF t, K, V, L
  <1>7. Find(t, Equals) = K + 1
    <2>1. K + 1 \in 1 .. Len(t) /\ \A j \in 1 .. (K + 1) - 1 : t[j] # Equals
      BY <1>1, <1>3, <1>5
    <2> QED BY <1>1, <1>5, <2>1, FindAt
  <1>8. Find(t, Amp) = K + V + 2
    <2> DEFINE m == K + V + 2
    <2>1. m \in 1 .. Len(t)
      BY <1>1, <1>5
    <2>2. ASSUME NEW j \in 1 .. m - 1 PROVE t[j] # Amp
      <3>1. CASE j =< K
        BY <1>1, <1>3, <2>2, <3>1, SMTT(30)
      <3>2. CASE j = K + 1
        BY <1>1, <1>2, <3>2
      <3>3. CASE j > K + 1
        <4>1. j - K - 1 \in 1 .. V /\ K + 1 + (j - K - 1) = j
          BY <1>1, <2>2, <3>3
        <4> QED BY <1>1, <1>3, <4>1, ZenonT(40)
      <3>4. j \in Nat /\ K \in Nat
        BY <1>1, <2>2
      <3> QED BY <3>1, <3>2, <3>3, <3>4
    <2>3. t[m] = Amp /\ Len(t) \in Nat
      BY <1>1, <1>5
    <2> HIDE DEF m
    <2>4. Find(t, Amp) = m
      BY <2>1, <2>2, <2>3, FindAt
    <2> QED BY <2>4 DEF m
  <1>9. Value(t) = SubSeq(t, K + 2, K + V + 1)
    <2>1. K + V + 2 # 0 /\ K + 1 + 1 = K + 2 /\ K + V + 2 - 1 = K + V + 1
      BY <1>1
    <2>2. Find(t, Equals) + 1 = K + 2
      BY <1>7, <2>1
    <2>3. (IF Find(t, Amp) = 0 THEN Len(t) ELSE Find(t, Amp) - 1) = K + V + 1
      <3> DEFINE a == Find(t, Amp)
      <3>1. a = K + V + 2 /\ K \in Nat /\ V \in Nat
        BY <1>1, <1>8
      <3> HIDE DEF a
      <3>2. (IF a = 0 THEN Len(t) ELSE a - 1) = K + V + 1
        BY <3>1
      <3> QED BY <3>2 DEF a
    <2> QED BY <1>6, <2>2, <2>3
  <1>10. SubSeq(t, K + 2, K + V + 1) = v
    <2> DEFINE w == SubSeq(t, K + 2, K + V + 1)
    <2>1. \A i \in K + 2 .. K + V + 1 : t[i] \in Byte
      <3>1. \A i \in K + 2 .. K + V + 1 : i \in 1 .. Len(t)
        BY <1>1, <1>5
      <3> QED BY <1>1, <3>1, ElementOfSeq
    <2>2. K + 2 \in Int /\ K + V + 1 \in Int
      BY <1>1
    <2>3. /\ w \in Seq(Byte)
          /\ Len(w) = IF K + 2 =< K + V + 1 THEN (K + V + 1) - (K + 2) + 1 ELSE 0
          /\ \A i \in 1 .. (K + V + 1) - (K + 2) + 1 : w[i] = t[K + 2 + i - 1]
      BY <2>1, <2>2, SubSeqProperties
    <2> HIDE DEF w
    <2>4. Len(w) = V
      <3>1. K \in Nat /\ V \in Nat
        BY <1>1
      <3>2. (IF K + 2 =< K + V + 1 THEN (K + V + 1) - (K + 2) + 1 ELSE 0) = V
        BY <3>1
      <3> QED BY <2>3, <3>2
    <2>5. ASSUME NEW i \in 1 .. V PROVE w[i] = v[i]
      <3>1. i \in 1 .. (K + V + 1) - (K + 2) + 1 /\ K + 2 + i - 1 = K + 1 + i
        BY <1>1
      <3> QED BY <1>1, <2>3, <3>1
    <2>6. w = v
      BY <1>4, <2>3, <2>4, <2>5, SeqEqual
    <2> QED BY <2>6 DEF w
  <1> QED BY <1>9, <1>10 DEF t

\* Where a tracker looks for a name in a query.
TailsOf(query) == {Drop(query, j) : j \in {0} \cup Positions(query, Amp)}

LEMMA DropsNothing ==
  ASSUME NEW S, NEW t \in Seq(S)
  PROVE  Drop(t, 0) = t
  <1>1. 0 \in 0 .. Len(t)
    OBVIOUS
  <1> DEFINE d == Drop(t, 0)
  <1>2. d \in Seq(S) /\ Len(d) = Len(t) - 0 /\ \A i \in 1 .. Len(t) - 0 : d[i] = t[0 + i]
    BY <1>1, Dropped
  <1> HIDE DEF d
  <1>3. Len(d) = Len(t) /\ \A i \in 1 .. Len(t) : d[i] = t[i]
    BY <1>2
  <1>4. d = t
    BY <1>2, <1>3, SeqEqual
  <1> QED BY <1>4 DEF d

\* What is left of a text behind its first part.
LEMMA DropsToo ==
  ASSUME NEW S, NEW t \in Seq(S), NEW o \in Seq(S), NEW n \in Nat, NEW j \in 0 .. Len(o),
         Len(t) = n + Len(o), \A i \in 1 .. Len(o) : t[n + i] = o[i]
  PROVE  Drop(t, n + j) = Drop(o, j)
  <1> DEFINE m == n + j
             a == Drop(t, m)
             b == Drop(o, j)
  <1>1. Len(o) \in Nat /\ Len(t) \in Nat /\ j \in Nat /\ m \in 0 .. Len(t) /\ Len(t) - m = Len(o) - j
    OBVIOUS
  <1>2. m = n + j
    OBVIOUS
  <1> HIDE DEF m
  <1>3. a \in Seq(S) /\ Len(a) = Len(t) - m /\ \A i \in 1 .. Len(t) - m : a[i] = t[m + i]
    BY <1>1, Dropped
  <1>4. b \in Seq(S) /\ Len(b) = Len(o) - j /\ \A i \in 1 .. Len(o) - j : b[i] = o[j + i]
    BY Dropped
  <1> HIDE DEF a, b
  <1>5. ASSUME NEW i \in 1 .. Len(b) PROVE a[i] = b[i]
    <2>1. i \in 1 .. Len(t) - m /\ i \in 1 .. Len(o) - j /\ j + i \in 1 .. Len(o) /\ m + i = n + (j + i)
      BY <1>1, <1>2, <1>4
    <2> QED BY <1>3, <1>4, <2>1
  <1>6. a = b
    BY <1>1, <1>3, <1>4, <1>5, SeqEqual
  <1> QED BY <1>6 DEF a, b, m

\* A parameter adds itself to what the tracker looks at.
LEMMA TailsOfParameter ==
  ASSUME NEW k \in Seq(Byte), NEW v \in Seq(Byte), NEW o \in Seq(Byte),
         \A i \in 1 .. Len(k) : k[i] # Amp,
         \A i \in 1 .. Len(v) : v[i] # Amp
  PROVE  TailsOf(Parameter(k, v, o)) = {Parameter(k, v, o)} \cup TailsOf(o)
  <1> DEFINE t == Parameter(k, v, o)
             K == Len(k)
             V == Len(v)
             n == K + V + 2
  <1>1. /\ t \in Seq(Byte) /\ K \in Nat /\ V \in Nat /\ Len(o) \in Nat /\ Len(t) = K + V + 2 + Len(o)
        /\ \A i \in 1 .. K : t[i] = k[i]
        /\ t[K + 1] = Equals
        /\ \A i \in 1 .. V : t[K + 1 + i] = v[i]
        /\ t[K + V + 2] = Amp
        /\ \A i \in 1 .. Len(o) : t[K + V + 2 + i] = o[i]
    <2>1. IsParameter(t, k, v, o)
      BY ParameterShape
    <2> HIDE DEF t
    <2> QED BY <2>1 DEF IsParameter
  <1>2. Equals # Amp
    BY DEF Equals, Amp
  <1>3. /\ \A i \in 1 .. K : k[i] # Amp
        /\ \A i \in 1 .. V : v[i] # Amp
    OBVIOUS
  <1> HIDE DEF t, K, V
  <1>4. n \in Nat /\ n = K + V + 2 /\ Len(t) = n + Len(o) /\ \A i \in 1 .. Len(o) : t[n + i] = o[i]
    BY <1>1
  <1>5. ASSUME NEW j \in 1 .. Len(t), t[j] = Amp
        PROVE  j >= n
    <2>1. CASE j =< K
      <3>1. j \in 1 .. K
        BY <1>1, <1>5, <2>1
      <3> QED BY <1>1, <1>3, <1>5, <3>1
    <2>2. CASE j = K + 1
      BY <1>1, <1>2, <1>5, <2>2
    <2>3. CASE j > K + 1 /\ j < n
      <3>1. j - K - 1 \in 1 .. V /\ K + 1 + (j - K - 1) = j
        BY <1>1, <2>3
      <3> QED BY <1>1, <1>3, <1>5, <3>1, ZenonT(40)
    <2>4. j \in Nat /\ K \in Nat
      BY <1>1, <1>5
    <2> QED BY <1>4, <2>1, <2>2, <2>3, <2>4
  <1>6. ASSUME NEW j \in 0 .. Len(o) PROVE Drop(t, n + j) = Drop(o, j)
    <2>1. t \in Seq(Byte) /\ o \in Seq(Byte) /\ n \in Nat /\ j \in 0 .. Len(o)
      BY <1>1, <1>4, <1>6
    <2>2. Len(t) = n + Len(o)
      BY <1>4
    <2>3. \A i \in 1 .. Len(o) : t[n + i] = o[i]
      BY <1>4
    <2> HIDE DEF n
    <2> QED BY <2>1, <2>2, <2>3, DropsToo
  <1>7. Drop(t, 0) = t
    BY <1>1, DropsNothing
  <1>8. t[n] = Amp
    BY <1>1
  <1> HIDE DEF n
  <1>9. Positions(t, Amp) = {n + j : j \in {0} \cup Positions(o, Amp)}
    <2>1. ASSUME NEW j \in Positions(t, Amp)
          PROVE  j - n \in {0} \cup Positions(o, Amp) /\ n + (j - n) = j
      <3>1. j \in 1 .. Len(t) /\ t[j] = Amp
        BY DEF Positions
      <3>2. j >= n
        BY <1>5, <3>1
      <3>3. n + (j - n) = j /\ (j - n # 0 => j - n \in 1 .. Len(o))
        BY <1>1, <1>4, <3>1, <3>2
      <3> QED BY <1>4, <3>1, <3>3 DEF Positions
    <2>2. ASSUME NEW j \in {0} \cup Positions(o, Amp)
          PROVE  n + j \in Positions(t, Amp)
      <3>1. CASE j = 0
        <4>1. n + 0 = n /\ n \in 1 .. Len(t)
          BY <1>1, <1>4
        <4> QED BY <1>8, <3>1, <4>1 DEF Positions
      <3>2. CASE j \in Positions(o, Amp)
        <4>1. j \in 1 .. Len(o) /\ o[j] = Amp
          BY <3>2 DEF Positions
        <4>2. n + j \in 1 .. Len(t)
          BY <1>1, <1>4, <4>1
        <4> QED BY <1>4, <4>1, <4>2 DEF Positions
      <3> QED BY <3>1, <3>2
    <2> QED BY <2>1, <2>2
  <1>10. \A j \in {0} \cup Positions(o, Amp) : j \in 0 .. Len(o)
    BY <1>1 DEF Positions
  <1>11. TailsOf(t) = {t} \cup TailsOf(o)
    BY <1>6, <1>7, <1>9, <1>10 DEF TailsOf
  <1> QED BY <1>11 DEF t

LEMMA TailsOfLast ==
  ASSUME NEW t \in Seq(Byte), \A i \in 1 .. Len(t) : t[i] # Amp
  PROVE  TailsOf(t) = {t}
  <1>1. Positions(t, Amp) = {}
    BY DEF Positions
  <1>2. Drop(t, 0) = t
    BY DropsNothing
  <1> QED BY <1>1, <1>2 DEF TailsOf

\* A text that differs from a name at one of its places does not start with it.
LEMMA StartsOtherwise ==
  ASSUME NEW t \in Seq(Byte), NEW name \in Seq(Byte), NEW i \in 1 .. Len(name), t[i] # name[i]
  PROVE  ~StartsWith(t, name)
  <1> SUFFICES ASSUME StartsWith(t, name) PROVE FALSE
    OBVIOUS
  <1> DEFINE w == SubSeq(t, 1, Len(name))
  <1>1. Len(name) =< Len(t) /\ w = name /\ Len(name) \in Nat /\ Len(t) \in Nat
    BY DEF StartsWith
  <1>2. \A j \in 1 .. Len(name) : t[j] \in Byte
    <2>1. \A j \in 1 .. Len(name) : j \in 1 .. Len(t)
      BY <1>1
    <2> QED BY <2>1, ElementOfSeq
  <1>3. \A j \in 1 .. Len(name) - 1 + 1 : w[j] = t[1 + j - 1]
    <2>1. 1 \in Int /\ Len(name) \in Int
      BY <1>1
    <2> QED BY <1>2, <2>1, SubSeqProperties
  <1> HIDE DEF w
  <1>4. w[i] = t[i]
    BY <1>1, <1>3
  <1> QED BY <1>1, <1>4

\* A text starts with what is at its first places.
LEMMA StartsSo ==
  ASSUME NEW t \in Seq(Byte), NEW name \in Seq(Byte), Len(name) =< Len(t),
         \A i \in 1 .. Len(name) : t[i] = name[i]
  PROVE  StartsWith(t, name)
  <1> DEFINE w == SubSeq(t, 1, Len(name))
             n == Len(name)
  <1>1. n \in Nat /\ Len(t) \in Nat
    OBVIOUS
  <1>2. \A j \in 1 .. n : t[j] \in Byte
    <2>1. \A j \in 1 .. n : j \in 1 .. Len(t)
      BY <1>1
    <2> QED BY <2>1, ElementOfSeq
  <1>3. /\ w \in Seq(Byte) /\ Len(w) = IF 1 =< n THEN n - 1 + 1 ELSE 0
        /\ \A j \in 1 .. n - 1 + 1 : w[j] = t[1 + j - 1]
    <2>1. 1 \in Int /\ n \in Int
      BY <1>1
    <2> QED BY <1>2, <2>1, SubSeqProperties
  <1>4. Len(w) = n /\ \A j \in 1 .. n : w[j] = t[j]
    <2> HIDE DEF w, n
    <2> QED BY <1>1, <1>3
  <1> HIDE DEF w
  <1>5. w = name
    BY <1>3, <1>4, SeqEqual
  <1> QED BY <1>5 DEF w, StartsWith

\* One parameter of a request, as the tracker looks for it.
LEMMA ParameterStarts ==
  ASSUME NEW k \in Seq(Byte), NEW v \in Seq(Byte), NEW o \in Seq(Byte)
  PROVE  StartsWith(Parameter(k, v, o), k \o <<Equals>>)
  <1> DEFINE t == Parameter(k, v, o)
             e == <<Equals>>
             name == k \o e
  <1>1. IsParameter(t, k, v, o)
    BY ParameterShape
  <1>2. e \in Seq(Byte) /\ Len(e) = 1 /\ e[1] = Equals
    BY DEF Byte, Equals
  <1>3. name = k \o e
    OBVIOUS
  <1> HIDE DEF t, e, name
  <1>4. k \in Seq(Byte) /\ e \in Seq(Byte)
    BY <1>2
  <1>5. /\ name \in Seq(Byte) /\ Len(k) \in Nat /\ Len(name) = Len(k) + Len(e)
        /\ \A i \in 1 .. Len(k) : name[i] = k[i]
        /\ \A i \in 1 .. Len(e) : name[Len(k) + i] = e[i]
    BY <1>3, <1>4, Appended
  <1>6. ASSUME NEW i \in 1 .. Len(name) PROVE t[i] = name[i]
    <2>1. CASE i \in 1 .. Len(k)
      BY <1>1, <1>5, <2>1 DEF IsParameter
    <2>2. CASE i = Len(k) + 1
      <3>1. name[Len(k) + 1] = e[1] /\ t[Len(k) + 1] = Equals
        BY <1>1, <1>2, <1>5 DEF IsParameter
      <3> QED BY <1>2, <2>2, <3>1
    <2>3. i \in 1 .. Len(k) \/ i = Len(k) + 1
      BY <1>2, <1>5
    <2> QED BY <2>1, <2>2, <2>3
  <1>7. Len(name) =< Len(t) /\ t \in Seq(Byte)
    BY <1>1, <1>2, <1>5 DEF IsParameter
  <1>8. StartsWith(t, name)
    BY <1>5, <1>6, <1>7, StartsSo
  <1> QED BY <1>8 DEF t, name, e

\* A key of a request: a text without "=" and "&", and how it starts.
IsKey(k, first, second) ==
  /\ k \in Seq(Byte) /\ Len(k) >= 2
  /\ \A i \in 1 .. Len(k) : k[i] \notin {Equals, Amp}
  /\ k[1] = first /\ k[2] = second

LEMMA Keys ==
  /\ IsKey(InfoHashKey, 105, 110) /\ IsKey(PeerIdKey, 112, 101)
  /\ IsKey(PortKey, 112, 111) /\ IsKey(UploadedKey, 117, 112)
  /\ IsKey(DownloadedKey, 100, 111) /\ IsKey(LeftKey, 108, 101)
  <1>1. IsKey(InfoHashKey, 105, 110)
    BY DEF IsKey, InfoHashKey, Byte, Equals, Amp
  <1>2. IsKey(PeerIdKey, 112, 101)
    BY DEF IsKey, PeerIdKey, Byte, Equals, Amp
  <1>3. IsKey(PortKey, 112, 111)
    BY DEF IsKey, PortKey, Byte, Equals, Amp
  <1>4. IsKey(UploadedKey, 117, 112)
    BY DEF IsKey, UploadedKey, Byte, Equals, Amp
  <1>5. IsKey(DownloadedKey, 100, 111)
    BY DEF IsKey, DownloadedKey, Byte, Equals, Amp
  <1>6. IsKey(LeftKey, 108, 101)
    BY DEF IsKey, LeftKey, Byte, Equals, Amp
  <1> QED BY <1>1, <1>2, <1>3, <1>4, <1>5, <1>6

\* How a name that is looked for starts.
LEMMA NameStarts ==
  ASSUME NEW k, NEW first, NEW second, IsKey(k, first, second)
  PROVE  /\ k \o <<Equals>> \in Seq(Byte) /\ 1 \in 1 .. Len(k \o <<Equals>>) /\ 2 \in 1 .. Len(k \o <<Equals>>)
         /\ (k \o <<Equals>>)[1] = first /\ (k \o <<Equals>>)[2] = second
  <1> DEFINE e == <<Equals>>
             name == k \o e
  <1>1. e \in Seq(Byte) /\ Len(e) = 1
    BY DEF Byte, Equals
  <1>2. name = k \o e
    OBVIOUS
  <1> HIDE DEF e, name
  <1>3. k \in Seq(Byte) /\ e \in Seq(Byte)
    BY <1>1 DEF IsKey
  <1>4. /\ name \in Seq(Byte) /\ Len(k) \in Nat /\ Len(name) = Len(k) + Len(e)
        /\ \A i \in 1 .. Len(k) : name[i] = k[i]
    BY <1>2, <1>3, Appended
  <1>5. /\ name \in Seq(Byte) /\ 1 \in 1 .. Len(name) /\ 2 \in 1 .. Len(name)
        /\ name[1] = first /\ name[2] = second
    BY <1>1, <1>4 DEF IsKey
  <1> QED BY <1>5 DEF name, e

\* How a parameter starts.
LEMMA ParameterFirst ==
  ASSUME NEW k, NEW first, NEW second, IsKey(k, first, second), NEW v \in Seq(Byte), NEW o \in Seq(Byte),
         \A i \in 1 .. Len(v) : v[i] # Amp
  PROVE  /\ Parameter(k, v, o) \in Seq(Byte)
         /\ Parameter(k, v, o)[1] = first /\ Parameter(k, v, o)[2] = second
         /\ TailsOf(Parameter(k, v, o)) = {Parameter(k, v, o)} \cup TailsOf(o)
         /\ Value(Parameter(k, v, o)) = v
         /\ StartsWith(Parameter(k, v, o), k \o <<Equals>>)
  <1> DEFINE t == Parameter(k, v, o)
  <1>1. k \in Seq(Byte) /\ \A i \in 1 .. Len(k) : k[i] \notin {Equals, Amp}
    BY DEF IsKey
  <1>2. IsParameter(t, k, v, o)
    BY <1>1, ParameterShape
  <1>3. TailsOf(t) = {t} \cup TailsOf(o)
    BY <1>1, TailsOfParameter
  <1>4. Value(t) = v
    BY <1>1, ValueOfParameter
  <1>5. StartsWith(t, k \o <<Equals>>)
    BY <1>1, ParameterStarts
  <1> HIDE DEF t
  <1>6. t \in Seq(Byte) /\ t[1] = first /\ t[2] = second
    BY <1>2 DEF IsParameter, IsKey
  <1> QED BY <1>3, <1>4, <1>5, <1>6 DEF t

\* A query answers for the hash and for the id: no other of its parameters has
\* one of these names.
LEMMA QueryAnswers ==
  ASSUME NEW infoHash \in Seq(Byte), NEW peerId \in Seq(Byte), NEW left \in Seq(Digits \cup {45})
  PROVE  /\ Query(infoHash, peerId, left) \in Seq(Byte)
         /\ UrlDecode(Value(CHOOSE t \in TailsOf(Query(infoHash, peerId, left)) :
                              StartsWith(t, InfoHashKey \o <<Equals>>))) = infoHash
         /\ UrlDecode(Value(CHOOSE t \in TailsOf(Query(infoHash, peerId, left)) :
                              StartsWith(t, PeerIdKey \o <<Equals>>))) = peerId
  <1> DEFINE h  == UrlEncode(infoHash)
             id == UrlEncode(peerId)
             zero == <<48>>
             port == <<54, 56, 56, 49>>
             p6 == Parameter(LeftKey, left, AsBytes)
             p5 == Parameter(DownloadedKey, zero, p6)
             p4 == Parameter(UploadedKey, zero, p5)
             p3 == Parameter(PortKey, port, p4)
             p2 == Parameter(PeerIdKey, id, p3)
             p1 == Parameter(InfoHashKey, h, p2)
             IsValue(v) == v \in Seq(Byte) /\ \A i \in 1 .. Len(v) : v[i] # Amp
             named == InfoHashKey \o <<Equals>>
             other == PeerIdKey \o <<Equals>>
  <1>1. IsValue(h) /\ IsValue(id)
    <2>1. Amp \notin Safe
      BY DEF Amp, Safe, Upper, Lower, Digits, Percent
    <2>2. ASSUME NEW raw \in Seq(Byte) PROVE IsValue(UrlEncode(raw))
      <3> DEFINE v == UrlEncode(raw)
      <3>1. v \in Seq(Safe) /\ v \in Seq(Byte)
        BY EncodedIsSafe
      <3> HIDE DEF v
      <3>2. \A i \in 1 .. Len(v) : v[i] \in Safe
        BY <3>1, ElementOfSeq
      <3>3. IsValue(v)
        BY <2>1, <3>1, <3>2
      <3> QED BY <3>3 DEF v
    <2> HIDE DEF IsValue
    <2> QED BY <2>2
  <1>2. IsValue(zero) /\ IsValue(port)
    BY DEF Byte, Amp
  <1>3. IsValue(left)
    <2>1. Digits \cup {45} \subseteq Byte /\ Amp \notin Digits \cup {45}
      BY DEF Digits, Byte, Amp
    <2>2. left \in Seq(Byte)
      BY <2>1
    <2>3. \A i \in 1 .. Len(left) : left[i] \in Digits \cup {45}
      BY ElementOfSeq
    <2> QED BY <2>1, <2>2, <2>3
  <1>4. /\ AsBytes \in Seq(Byte) /\ AsBytes[1] = 99
        /\ TailsOf(AsBytes) = {AsBytes}
    <2>1. AsBytes \in Seq(Byte) /\ AsBytes[1] = 99 /\ \A i \in 1 .. Len(AsBytes) : AsBytes[i] # Amp
      BY DEF AsBytes, Byte, Equals, Amp
    <2> QED BY <2>1, TailsOfLast
  <1> HIDE DEF h, id, zero, port
  <1>5. p6 \in Seq(Byte) /\ p6[1] = 108 /\ TailsOf(p6) = {p6} \cup TailsOf(AsBytes)
    BY <1>3, <1>4, Keys, ParameterFirst
  <1> HIDE DEF p6
  <1>6. p5 \in Seq(Byte) /\ p5[1] = 100 /\ TailsOf(p5) = {p5} \cup TailsOf(p6)
    BY <1>2, <1>5, Keys, ParameterFirst
  <1> HIDE DEF p5
  <1>7. p4 \in Seq(Byte) /\ p4[1] = 117 /\ TailsOf(p4) = {p4} \cup TailsOf(p5)
    BY <1>2, <1>6, Keys, ParameterFirst
  <1> HIDE DEF p4
  <1>8. p3 \in Seq(Byte) /\ p3[1] = 112 /\ p3[2] = 111 /\ TailsOf(p3) = {p3} \cup TailsOf(p4)
    BY <1>2, <1>7, Keys, ParameterFirst
  <1> HIDE DEF p3
  <1>9. /\ p2 \in Seq(Byte) /\ p2[1] = 112 /\ TailsOf(p2) = {p2} \cup TailsOf(p3)
        /\ Value(p2) = id /\ StartsWith(p2, other)
    <2>1. IsKey(PeerIdKey, 112, 101)
      BY Keys
    <2>2. id \in Seq(Byte) /\ (\A i \in 1 .. Len(id) : id[i] # Amp) /\ p3 \in Seq(Byte)
      BY <1>1, <1>8
    <2> HIDE DEF IsValue, named, other
    <2>3. /\ p2 \in Seq(Byte) /\ p2[1] = 112 /\ TailsOf(p2) = {p2} \cup TailsOf(p3)
          /\ Value(p2) = id /\ StartsWith(p2, PeerIdKey \o <<Equals>>)
      BY <2>1, <2>2, ParameterFirst
    <2> QED BY <2>3 DEF other
  <1> HIDE DEF p2
  <1>10. /\ p1 \in Seq(Byte) /\ p1[1] = 105 /\ TailsOf(p1) = {p1} \cup TailsOf(p2)
         /\ Value(p1) = h /\ StartsWith(p1, named)
    <2>1. IsKey(InfoHashKey, 105, 110)
      BY Keys
    <2>2. h \in Seq(Byte) /\ (\A i \in 1 .. Len(h) : h[i] # Amp) /\ p2 \in Seq(Byte)
      BY <1>1, <1>9
    <2> HIDE DEF IsValue, named, other
    <2>3. /\ p1 \in Seq(Byte) /\ p1[1] = 105 /\ TailsOf(p1) = {p1} \cup TailsOf(p2)
          /\ Value(p1) = h /\ StartsWith(p1, InfoHashKey \o <<Equals>>)
      BY <2>1, <2>2, ParameterFirst
    <2> QED BY <2>3 DEF named
  <1>11. p1 = Query(infoHash, peerId, left)
    BY DEF p1, p2, p3, p4, p5, p6, h, id, zero, port, Query
  <1>12. /\ named \in Seq(Byte) /\ 1 \in 1 .. Len(named) /\ named[1] = 105
         /\ other \in Seq(Byte) /\ 1 \in 1 .. Len(other) /\ 2 \in 1 .. Len(other)
         /\ other[1] = 112 /\ other[2] = 101
    <2>1. IsKey(InfoHashKey, 105, 110) /\ IsKey(PeerIdKey, 112, 101)
      BY Keys
    <2> HIDE DEF named, other
    <2>2. /\ InfoHashKey \o <<Equals>> \in Seq(Byte) /\ 1 \in 1 .. Len(InfoHashKey \o <<Equals>>)
          /\ (InfoHashKey \o <<Equals>>)[1] = 105
      BY <2>1, NameStarts
    <2>3. /\ PeerIdKey \o <<Equals>> \in Seq(Byte)
          /\ 1 \in 1 .. Len(PeerIdKey \o <<Equals>>) /\ 2 \in 1 .. Len(PeerIdKey \o <<Equals>>)
          /\ (PeerIdKey \o <<Equals>>)[1] = 112 /\ (PeerIdKey \o <<Equals>>)[2] = 101
      BY <2>1, NameStarts
    <2> QED BY <2>2, <2>3 DEF named, other
  <1> HIDE DEF p1, named, other
  <1>13. TailsOf(p1) = {p1, p2, p3, p4, p5, p6, AsBytes}
    BY <1>4, <1>5, <1>6, <1>7, <1>8, <1>9, <1>10
  <1>14. \A t \in {p2, p3, p4, p5, p6, AsBytes} : ~StartsWith(t, named)
    <2>1. \A t \in {p2, p3, p4, p5, p6, AsBytes} : t \in Seq(Byte) /\ t[1] # named[1]
      <3>1. /\ p2 \in Seq(Byte) /\ p3 \in Seq(Byte) /\ p4 \in Seq(Byte) /\ p5 \in Seq(Byte)
            /\ p6 \in Seq(Byte) /\ AsBytes \in Seq(Byte)
        BY <1>4, <1>5, <1>6, <1>7, <1>8, <1>9, <1>12
      <3>2. /\ p2[1] # named[1] /\ p3[1] # named[1] /\ p4[1] # named[1] /\ p5[1] # named[1]
            /\ p6[1] # named[1] /\ AsBytes[1] # named[1]
        BY <1>4, <1>5, <1>6, <1>7, <1>8, <1>9, <1>12
      <3> QED BY <3>1, <3>2, Zenon
    <2>2. ASSUME NEW t \in Seq(Byte), t[1] # named[1] PROVE ~StartsWith(t, named)
      BY <1>12, <2>2, StartsOtherwise
    <2> QED BY <2>1, <2>2
  <1>15. \A t \in {p1, p4, p5, p6, AsBytes} : ~StartsWith(t, other)
    <2>1. \A t \in {p1, p4, p5, p6, AsBytes} : t \in Seq(Byte) /\ t[1] # other[1]
      <3>1. /\ p1 \in Seq(Byte) /\ p4 \in Seq(Byte) /\ p5 \in Seq(Byte) /\ p6 \in Seq(Byte)
            /\ AsBytes \in Seq(Byte)
        BY <1>4, <1>5, <1>6, <1>7, <1>10, <1>12
      <3>2. /\ p1[1] # other[1] /\ p4[1] # other[1] /\ p5[1] # other[1] /\ p6[1] # other[1]
            /\ AsBytes[1] # other[1]
        BY <1>4, <1>5, <1>6, <1>7, <1>10, <1>12
      <3> QED BY <3>1, <3>2, Zenon
    <2>2. ASSUME NEW t \in Seq(Byte), t[1] # other[1] PROVE ~StartsWith(t, other)
      BY <1>12, <2>2, StartsOtherwise
    <2> QED BY <2>1, <2>2
  <1>16. ~StartsWith(p3, other)
    BY <1>8, <1>12, StartsOtherwise
  <1>17. (CHOOSE t \in TailsOf(p1) : StartsWith(t, named)) = p1
    BY <1>10, <1>13, <1>14
  <1>18. (CHOOSE t \in TailsOf(p1) : StartsWith(t, other)) = p2
    BY <1>9, <1>13, <1>15, <1>16
  <1>19. UrlDecode(h) = infoHash /\ UrlDecode(id) = peerId
    BY EncodingsAreDecoded DEF h, id
  <1> QED BY <1>9, <1>10, <1>11, <1>17, <1>18, <1>19 DEF named, other

----------------------------------------------------------------------------
(* The path of a request *)

\* Two texts with a character between them.
IsJoined(t, a, c, b) ==
  /\ t \in Seq(Byte) /\ Len(a) \in Nat /\ Len(b) \in Nat
  /\ Len(t) = Len(a) + 1 + Len(b)
  /\ \A i \in 1 .. Len(a) : t[i] = a[i]
  /\ t[Len(a) + 1] = c
  /\ \A i \in 1 .. Len(b) : t[Len(a) + 1 + i] = b[i]

LEMMA JoinedShape ==
  ASSUME NEW a \in Seq(Byte), NEW c \in Byte, NEW b \in Seq(Byte)
  PROVE  IsJoined(a \o <<c>> \o b, a, c, b)
  <1> DEFINE e == <<c>>
             x == a \o e
             t == x \o b
  <1>1. e \in Seq(Byte) /\ Len(e) = 1 /\ e[1] = c
    OBVIOUS
  <1>2. x = a \o e /\ t = x \o b
    OBVIOUS
  <1>3. a \o <<c>> \o b = t
    OBVIOUS
  <1> HIDE DEF e, x, t
  <1>4. /\ x \in Seq(Byte) /\ Len(a) \in Nat /\ Len(x) = Len(a) + Len(e)
        /\ \A i \in 1 .. Len(a) : x[i] = a[i]
        /\ \A i \in 1 .. Len(e) : x[Len(a) + i] = e[i]
    <2>1. a \in Seq(Byte) /\ e \in Seq(Byte)
      BY <1>1
    <2> QED BY <1>2, <2>1, Appended
  <1>5. /\ t \in Seq(Byte) /\ Len(b) \in Nat /\ Len(t) = Len(x) + Len(b)
        /\ \A i \in 1 .. Len(x) : t[i] = x[i]
        /\ \A i \in 1 .. Len(b) : t[Len(x) + i] = b[i]
    <2>1. x \in Seq(Byte) /\ b \in Seq(Byte)
      BY <1>4
    <2> QED BY <1>2, <2>1, Appended
  <1>6. Len(x) = Len(a) + 1 /\ x[Len(a) + 1] = c
    <2>1. x[Len(a) + 1] = e[1]
      BY <1>1, <1>4
    <2> QED BY <1>1, <1>4, <2>1
  <1>7. t[Len(a) + 1] = c /\ \A i \in 1 .. Len(a) : t[i] = a[i]
    BY <1>4, <1>5, <1>6
  <1>8. Len(t) = Len(a) + 1 + Len(b) /\ \A i \in 1 .. Len(b) : t[Len(a) + 1 + i] = b[i]
    BY <1>4, <1>5, <1>6
  <1> QED BY <1>3, <1>4, <1>5, <1>7, <1>8 DEF IsJoined

\* What is asked of a path is asked of its query.
LEMMA AskedOfQuery ==
  ASSUME NEW x \in Seq(Byte), NEW query \in Seq(Byte), NEW name,
         \A i \in 1 .. Len(x) : x[i] # Question
  PROVE  Asked(x \o <<Question>> \o query, name)
           = UrlDecode(Value(CHOOSE t \in TailsOf(query) : StartsWith(t, name \o <<Equals>>)))
  <1> DEFINE path == x \o <<Question>> \o query
             n == Len(x) + 1
             places == {Find(path, Question)} \cup {p \in Positions(path, Amp) : p > Find(path, Question)}
  <1>1. IsJoined(path, x, Question, query)
    <2>1. Question \in Byte
      BY DEF Question, Byte
    <2> QED BY <2>1, JoinedShape
  <1>2. Asked(path, name) =
          UrlDecode(Value(CHOOSE t \in {Drop(path, i) : i \in places} : StartsWith(t, name \o <<Equals>>)))
    BY DEF Asked
  <1> HIDE DEF path
  <1>3. /\ path \in Seq(Byte) /\ Len(query) \in Nat /\ n \in Nat /\ Len(path) = n + Len(query)
        /\ path[n] = Question /\ n \in 1 .. Len(path)
        /\ \A i \in 1 .. Len(query) : path[n + i] = query[i]
    BY <1>1 DEF IsJoined
  <1>4. Find(path, Question) = n
    <2>1. \A j \in 1 .. n - 1 : path[j] # Question
      BY <1>1 DEF IsJoined
    <2>2. n \in 1 .. Len(path) /\ Len(path) \in Nat /\ path[n] = Question
      BY <1>3
    <2> HIDE DEF n
    <2> QED BY <2>1, <2>2, FindAt
  <1> HIDE DEF n
  <1>5. places = {n + j : j \in {0} \cup Positions(query, Amp)}
    <2>1. ASSUME NEW i \in places PROVE i - n \in {0} \cup Positions(query, Amp) /\ n + (i - n) = i
      <3>1. CASE i = n
        BY <1>3, <3>1
      <3>2. CASE i # n
        <4>1. i \in 1 .. Len(path) /\ path[i] = Amp /\ i > n
          BY <1>4, <3>2 DEF Positions
        <4>2. i - n \in 1 .. Len(query) /\ n + (i - n) = i
          BY <1>3, <4>1
        <4> QED BY <1>3, <4>1, <4>2 DEF Positions
      <3> QED BY <3>1, <3>2
    <2>2. ASSUME NEW j \in {0} \cup Positions(query, Amp) PROVE n + j \in places
      <3>1. CASE j = 0
        BY <1>3, <1>4, <3>1
      <3>2. CASE j \in Positions(query, Amp)
        <4>1. j \in 1 .. Len(query) /\ query[j] = Amp
          BY <3>2 DEF Positions
        <4>2. n + j \in 1 .. Len(path) /\ n + j > n
          BY <1>3, <4>1
        <4> QED BY <1>3, <1>4, <4>1, <4>2 DEF Positions
      <3> QED BY <3>1, <3>2
    <2> HIDE DEF places
    <2> QED BY <2>1, <2>2
  <1>6. ASSUME NEW j \in {0} \cup Positions(query, Amp) PROVE Drop(path, n + j) = Drop(query, j)
    <2>1. j \in 0 .. Len(query)
      BY <1>3 DEF Positions
    <2>2. path \in Seq(Byte) /\ query \in Seq(Byte) /\ n \in Nat
      BY <1>3
    <2>3. Len(path) = n + Len(query) /\ \A i \in 1 .. Len(query) : path[n + i] = query[i]
      BY <1>3
    <2> QED BY <2>1, <2>2, <2>3, DropsToo
  <1> HIDE DEF places
  <1>7. {Drop(path, i) : i \in places} = TailsOf(query)
    BY <1>5, <1>6 DEF TailsOf
  <1> QED BY <1>2, <1>7 DEF path

LEMMA ReadUrlsStart ==
  ASSUME NEW url, UrlIsRead(url)
  PROVE  StartsWith(url, Http)
  BY DEF UrlIsRead

\* The path of a request for a tracker with a path, and its host.
LEMMA PathOfRequest ==
  ASSUME NEW tracker \in Seq(Byte), NEW query \in Seq(Byte), WithPath(tracker),
         UrlIsRead(tracker \o <<Question>> \o query)
  PROVE  /\ \E x \in Seq(Byte) : /\ Path(tracker \o <<Question>> \o query) = x \o <<Question>> \o query
                                 /\ \A i \in 1 .. Len(x) : x[i] # Question
         /\ StartsWith(tracker, Http \o Host(tracker \o <<Question>> \o query))
  <1> DEFINE full == tracker \o <<Question>> \o query
             r == Drop(tracker, 7)
             u == Drop(full, 7)
             T == Len(tracker)
             Q == Len(query)
  <1>1. Question \in Byte /\ Question # Slash /\ Slash \in Byte
    BY DEF Question, Byte, Slash
  <1>2. IsJoined(full, tracker, Question, query)
    BY <1>1, JoinedShape
  <1>3. Len(Http) = 7 /\ Http \in Seq(Byte)
    BY DEF Http, Byte, Colon, Slash
  <1> DEFINE begins == StartsWith(full, Http)
  <1>a. begins
    BY ReadUrlsStart
  <1>4. Find(r, Slash) # 0 /\ Rest(full) = u
    BY <1>3 DEF WithPath, Rest
  <1>5. \A i \in 1 .. T : tracker[i] # Question
    <2>1. Find(tracker, Question) = 0
      BY DEF WithPath
    <2>2. Positions(tracker, Question) \in SUBSET Nat
      BY DEF Positions
    <2>3. Positions(tracker, Question) = {}
      <3> SUFFICES ASSUME Positions(tracker, Question) # {} PROVE FALSE
        OBVIOUS
      <3>1. PICK i \in Positions(tracker, Question) : \A j \in Positions(tracker, Question) : i =< j
        BY <2>2, LeastOf
      <3>2. i \in 1 .. Len(tracker) /\ tracker[i] = Question /\ \A j \in 1 .. i - 1 : tracker[j] # Question
        BY <3>1 DEF Positions
      <3>3. Find(tracker, Question) = i
        BY <3>2, FindAt
      <3> QED BY <2>1, <3>2, <3>3
    <2> QED BY <2>3 DEF Positions
  <1>6. T \in Nat /\ Q \in Nat /\ Len(full) = T + 1 + Q
    BY <1>2 DEF IsJoined
  <1>7. T > 7
    <2> SUFFICES ASSUME T =< 7 PROVE FALSE
      BY <1>6
    <2>1. r = << >>
      BY <1>6, SubSeqEmpty DEF Drop
    <2>2. Find(r, Slash) = 0
      BY <2>1, FindNone
    <2> QED BY <1>4, <2>2
  <1>8. /\ r \in Seq(Byte) /\ Len(r) = T - 7 /\ \A i \in 1 .. T - 7 : r[i] = tracker[7 + i]
    <2>1. 7 \in 0 .. Len(tracker)
      BY <1>6, <1>7
    <2> QED BY <2>1, Dropped
  <1>9. /\ full \in Seq(Byte) /\ \A i \in 1 .. T : full[i] = tracker[i]
        /\ full[T + 1] = Question /\ \A i \in 1 .. Q : full[T + 1 + i] = query[i]
    BY <1>2 DEF IsJoined
  <1> HIDE DEF full, T, Q, r
  <1>10. /\ u \in Seq(Byte) /\ Len(u) = T + 1 + Q - 7
         /\ \A i \in 1 .. T + 1 + Q - 7 : u[i] = full[7 + i]
    <2>1. 7 \in 0 .. Len(full)
      BY <1>6, <1>7
    <2>2. /\ u \in Seq(Byte) /\ Len(u) = Len(full) - 7 /\ \A i \in 1 .. Len(full) - 7 : u[i] = full[7 + i]
      BY <1>9, <2>1, Dropped
    <2> QED BY <1>6, <2>2
  <1> HIDE DEF u
  <1> DEFINE s == Find(r, Slash)
  <1>11. s \in 1 .. T - 7 /\ r[s] = Slash /\ \A j \in 1 .. s - 1 : r[j] # Slash
    <2>1. Len(r) \in Nat
      BY <1>8
    <2>2. Find(r, Slash) \in 1 .. Len(r) /\ r[Find(r, Slash)] = Slash
            /\ \A j \in 1 .. Find(r, Slash) - 1 : r[j] # Slash
      BY <1>4, <2>1, FindIs
    <2> QED BY <1>8, <2>2
  <1> HIDE DEF s
  <1>12. \A i \in 1 .. T - 7 : u[i] = r[i]
    BY <1>6, <1>7, <1>8, <1>9, <1>10
  <1>13. Find(u, Slash) = s /\ s # 0
    <2>1. s \in 1 .. Len(u) /\ Len(u) \in Nat /\ u[s] = Slash
      BY <1>6, <1>7, <1>10, <1>11, <1>12
    <2>2. \A j \in 1 .. s - 1 : u[j] # Slash
      BY <1>6, <1>7, <1>11, <1>12
    <2>3. Find(u, Slash) = s
      BY <2>1, <2>2, FindAt
    <2> QED BY <2>1, <2>3
  <1>14. HostEnd(full) = s - 1 /\ Path(full) = Drop(u, s - 1) /\ HostPort(full) = SubSeq(u, 1, s - 1)
    <2>1. HostEnd(full) = s - 1
      BY <1>4, <1>13 DEF HostEnd
    <2> QED BY <1>4, <1>13, <2>1 DEF Path, HostPort
  <1> DEFINE x == Drop(r, s - 1)
             joined == x \o <<Question>> \o query
  <1>15. x \in Seq(Byte) /\ Len(x) = T - 6 - s /\ \A i \in 1 .. T - 6 - s : x[i] = r[s - 1 + i]
    <2> DEFINE m == s - 1
    <2>1. m \in 0 .. Len(r) /\ r \in Seq(Byte) /\ Len(r) - m = T - 6 - s
      BY <1>6, <1>7, <1>8, <1>11
    <2> HIDE DEF m
    <2>2. /\ Drop(r, m) \in Seq(Byte) /\ Len(Drop(r, m)) = Len(r) - m
          /\ \A i \in 1 .. Len(r) - m : Drop(r, m)[i] = r[m + i]
      BY <2>1, Dropped
    <2> QED BY <2>1, <2>2 DEF m
  <1>16. IsJoined(joined, x, Question, query)
    <2>1. x \in Seq(Byte)
      BY <1>15
    <2> HIDE DEF x
    <2> QED BY <1>1, <2>1, JoinedShape
  <1> HIDE DEF x, joined
  <1>17. ASSUME NEW i \in 1 .. Len(x) PROVE x[i] # Question
    <2>1. s - 1 + i \in 1 .. T - 7 /\ 7 + (s - 1 + i) \in 1 .. T
      BY <1>6, <1>7, <1>11, <1>15
    <2> QED BY <1>5, <1>8, <1>15, <2>1 DEF T
  <1>18. Drop(u, s - 1) = joined
    <2> DEFINE m == s - 1
               d == Drop(u, m)
    <2>1. m \in 0 .. Len(u) /\ Len(u) - m = T + 1 + Q - 6 - s /\ m \in Nat
      BY <1>6, <1>7, <1>10, <1>11
    <2>2. m = s - 1
      OBVIOUS
    <2> HIDE DEF m
    <2>3. d \in Seq(Byte) /\ Len(d) = Len(u) - m /\ \A i \in 1 .. Len(u) - m : d[i] = u[m + i]
      BY <1>10, <2>1, Dropped
    <2> HIDE DEF d
    <2>4. /\ joined \in Seq(Byte) /\ Len(joined) = Len(x) + 1 + Q
          /\ \A i \in 1 .. Len(x) : joined[i] = x[i]
          /\ joined[Len(x) + 1] = Question
          /\ \A i \in 1 .. Q : joined[Len(x) + 1 + i] = query[i]
      BY <1>16 DEF IsJoined, Q
    <2>5. Len(d) = Len(joined) /\ Len(x) = T - 6 - s /\ Len(x) \in Nat
      BY <1>6, <1>11, <1>15, <2>1, <2>3, <2>4
    <2>6. ASSUME NEW i \in 1 .. Len(joined) PROVE d[i] = joined[i]
      <3>1. d[i] = u[m + i] /\ m + i \in 1 .. T + 1 + Q - 7 /\ u[m + i] = full[7 + (m + i)]
        BY <1>6, <1>7, <1>10, <1>11, <2>1, <2>2, <2>3, <2>5
      <3>2. CASE i \in 1 .. Len(x)
        <4>1. m + i \in 1 .. T - 7 /\ s - 1 + i = m + i
          BY <1>6, <1>7, <1>11, <2>2, <2>5, <3>2
        <4> QED BY <1>12, <1>15, <2>4, <2>5, <3>1, <3>2, <4>1
      <3>3. CASE i = Len(x) + 1
        <4>1. 7 + (m + i) = T + 1
          BY <1>6, <1>7, <1>11, <2>2, <2>5, <3>3
        <4> QED BY <1>9, <2>4, <3>1, <3>3, <4>1
      <3>4. CASE i > Len(x) + 1
        <4>1. i - Len(x) - 1 \in 1 .. Q /\ Len(x) + 1 + (i - Len(x) - 1) = i
                /\ 7 + (m + i) = T + 1 + (i - Len(x) - 1)
          <5> DEFINE X == Len(x)
          <5>1. X \in Nat /\ X = T - 6 - s /\ i \in 1 .. X + 1 + Q /\ i > X + 1
            BY <2>4, <2>5, <3>4
          <5>2. T \in Nat /\ Q \in Nat /\ s \in Nat /\ m = s - 1
            BY <1>6, <1>11, <2>2
          <5> HIDE DEF X
          <5>3. i - X - 1 \in 1 .. Q /\ X + 1 + (i - X - 1) = i
            BY <5>1, <5>2
          <5>4. 7 + (m + i) = T + 1 + (i - X - 1)
            BY <5>1, <5>2
          <5> QED BY <5>3, <5>4 DEF X
        <4> QED BY <1>9, <2>4, <3>1, <4>1
      <3>5. i \in Nat /\ Len(x) \in Nat
        BY <2>4, <2>5
      <3> QED BY <3>2, <3>3, <3>4, <3>5
    <2>7. d = joined
      BY <2>3, <2>4, <2>5, <2>6, SeqEqual
    <2> QED BY <2>7 DEF d, m
  <1> DEFINE port == HostPort(full)
             host == Host(full)
  <1>19. port \in Seq(Byte) /\ Len(port) = s - 1 /\ \A i \in 1 .. s - 1 : port[i] = u[i]
    <2> DEFINE m == s - 1
               w == SubSeq(u, 1, m)
    <2>1. m \in Nat /\ m =< Len(u) /\ Len(u) \in Nat
      BY <1>6, <1>7, <1>10, <1>11
    <2> HIDE DEF m
    <2>2. \A i \in 1 .. m : u[i] \in Byte
      <3>1. \A i \in 1 .. m : i \in 1 .. Len(u)
        BY <2>1
      <3> QED BY <1>10, <3>1, ElementOfSeq
    <2>3. /\ w \in Seq(Byte) /\ Len(w) = IF 1 =< m THEN m - 1 + 1 ELSE 0
          /\ \A i \in 1 .. m - 1 + 1 : w[i] = u[1 + i - 1]
      <3>1. 1 \in Int /\ m \in Int
        BY <2>1
      <3> QED BY <2>2, <3>1, SubSeqProperties
    <2> HIDE DEF w
    <2>4. w \in Seq(Byte) /\ Len(w) = m /\ \A i \in 1 .. m : w[i] = u[i]
      BY <2>1, <2>3
    <2> QED BY <1>14, <2>4 DEF w, m
  <1> HIDE DEF port
  <1>20. host \in Seq(Byte) /\ Len(host) \in 0 .. s - 1 /\ \A i \in 1 .. Len(host) : host[i] = u[i]
    <2>1. CASE Find(port, Colon) = 0
      <3>1. host = port
        BY <2>1 DEF Host, port
      <3> HIDE DEF host
      <3> QED BY <1>11, <1>19, <3>1
    <2>2. CASE Find(port, Colon) # 0
      <3> DEFINE m == Find(port, Colon) - 1
                 w == SubSeq(port, 1, m)
      <3>1. host = w
        BY <2>2 DEF Host, port
      <3>2. m \in Nat /\ m =< Len(port) /\ Len(port) \in Nat /\ m =< s - 1
        <4>1. Len(port) \in Nat
          BY <1>19
        <4>2. Find(port, Colon) \in 1 .. Len(port)
          BY <2>2, <4>1, FindIs
        <4> QED BY <1>11, <1>19, <4>1, <4>2
      <3> HIDE DEF m, host
      <3>3. \A i \in 1 .. m : port[i] \in Byte /\ i \in 1 .. s - 1
        <4>1. \A i \in 1 .. m : i \in 1 .. Len(port)
          BY <3>2
        <4> QED BY <1>19, <4>1, ElementOfSeq
      <3>4. /\ w \in Seq(Byte) /\ Len(w) = IF 1 =< m THEN m - 1 + 1 ELSE 0
            /\ \A i \in 1 .. m - 1 + 1 : w[i] = port[1 + i - 1]
        <4>1. 1 \in Int /\ m \in Int
          BY <3>2
        <4> QED BY <3>3, <4>1, SubSeqProperties
      <3> HIDE DEF w
      <3>5. w \in Seq(Byte) /\ Len(w) = m /\ \A i \in 1 .. m : w[i] = port[i]
        BY <3>2, <3>4
      <3> QED BY <1>11, <1>19, <3>1, <3>2, <3>3, <3>5
    <2> QED BY <2>1, <2>2
  <1> HIDE DEF host
  <1> DEFINE name == Http \o host
  <1>21. /\ name \in Seq(Byte) /\ Len(name) = 7 + Len(host)
         /\ \A i \in 1 .. 7 : name[i] = Http[i]
         /\ \A i \in 1 .. Len(host) : name[7 + i] = host[i]
    <2>1. name = Http \o host
      OBVIOUS
    <2>2. Http \in Seq(Byte) /\ host \in Seq(Byte)
      BY <1>3, <1>20
    <2> HIDE DEF name
    <2>3. /\ name \in Seq(Byte) /\ Len(name) = Len(Http) + Len(host)
          /\ \A i \in 1 .. Len(Http) : name[i] = Http[i]
          /\ \A i \in 1 .. Len(host) : name[Len(Http) + i] = host[i]
      BY <2>1, <2>2, Appended
    <2> QED BY <1>3, <2>3
  <1> HIDE DEF name
  <1>22. \A i \in 1 .. 7 : tracker[i] = Http[i]
    <2>1. StartsWith(full, Http)
      BY <1>a DEF begins
    <2>2. ASSUME NEW i \in 1 .. 7, full[i] # Http[i] PROVE FALSE
      <3>1. i \in 1 .. Len(Http)
        BY <1>3
      <3>2. full \in Seq(Byte) /\ Http \in Seq(Byte)
        BY <1>3, <1>9
      <3> QED BY <2>1, <2>2, <3>1, <3>2, StartsOtherwise
    <2>3. \A i \in 1 .. 7 : i \in 1 .. T
      BY <1>6, <1>7
    <2> QED BY <1>9, <2>2, <2>3
  <1>23. StartsWith(tracker, name)
    <2>1. Len(name) =< Len(tracker)
      BY <1>6, <1>7, <1>11, <1>20, <1>21 DEF T
    <2>2. ASSUME NEW i \in 1 .. Len(name) PROVE tracker[i] = name[i]
      <3>1. CASE i \in 1 .. 7
        BY <1>21, <1>22, <3>1
      <3>2. CASE i > 7
        <4>1. i - 7 \in 1 .. Len(host) /\ 7 + (i - 7) = i /\ i - 7 \in 1 .. T - 7
          BY <1>6, <1>7, <1>11, <1>20, <1>21, <3>2
        <4> QED BY <1>8, <1>12, <1>20, <1>21, <4>1
      <3>3. i \in Nat /\ i >= 1
        BY <1>21
      <3> QED BY <3>1, <3>2, <3>3
    <2> QED BY <1>21, <2>1, <2>2, StartsSo
  <1> QED BY <1>14, <1>15, <1>17, <1>18, <1>23 DEF full, joined, name, host

----------------------------------------------------------------------------
(* What magnet::parse takes from a link *)

LEMMA Cut ==
  ASSUME NEW S, NEW t \in Seq(S), NEW a \in 1 .. Len(t) + 1, NEW b \in a - 1 .. Len(t)
  PROVE  /\ SubSeq(t, a, b) \in Seq(S) /\ Len(SubSeq(t, a, b)) = b - a + 1
         /\ \A i \in 1 .. b - a + 1 : SubSeq(t, a, b)[i] = t[a + i - 1]
  <1>1. Len(t) \in Nat /\ a \in Int /\ b \in Int
    OBVIOUS
  <1>2. \A i \in a .. b : t[i] \in S
    <2>1. \A i \in a .. b : i \in 1 .. Len(t)
      BY <1>1
    <2> QED BY <2>1, ElementOfSeq
  <1> DEFINE w == SubSeq(t, a, b)
  <1>3. /\ w \in Seq(S) /\ Len(w) = IF a =< b THEN b - a + 1 ELSE 0
        /\ \A i \in 1 .. b - a + 1 : w[i] = t[a + i - 1]
    BY <1>1, <1>2, SubSeqProperties
  <1> HIDE DEF w
  <1>4. (IF a =< b THEN b - a + 1 ELSE 0) = b - a + 1
    BY <1>1
  <1>5. w \in Seq(S) /\ Len(w) = b - a + 1 /\ \A i \in 1 .. b - a + 1 : w[i] = t[a + i - 1]
    BY <1>3, <1>4
  <1> QED BY <1>5 DEF w

LEMMA CutOfDropped ==
  ASSUME NEW S, NEW t \in Seq(S), NEW n \in 0 .. Len(t),
         NEW a \in 1 .. Len(t) - n + 1, NEW b \in a - 1 .. Len(t) - n
  PROVE  SubSeq(Drop(t, n), a, b) = SubSeq(t, n + a, n + b)
  <1> DEFINE d == Drop(t, n)
             x == SubSeq(d, a, b)
             m == n + a
             l == n + b
             y == SubSeq(t, m, l)
  <1>1. d \in Seq(S) /\ Len(d) = Len(t) - n /\ \A i \in 1 .. Len(t) - n : d[i] = t[n + i]
    BY Dropped
  <1>2. Len(t) \in Nat /\ n \in Nat /\ a \in Nat /\ b \in Nat /\ a >= 1 /\ b >= a - 1 /\ b =< Len(t) - n
    OBVIOUS
  <1>3. m \in 1 .. Len(t) + 1 /\ l \in m - 1 .. Len(t) /\ l - m + 1 = b - a + 1 /\ m = n + a
    BY <1>2
  <1> HIDE DEF d, m, l
  <1>4. x \in Seq(S) /\ Len(x) = b - a + 1 /\ \A i \in 1 .. b - a + 1 : x[i] = d[a + i - 1]
    <2>1. a \in 1 .. Len(d) + 1 /\ b \in a - 1 .. Len(d)
      BY <1>1, <1>2
    <2> QED BY <1>1, <2>1, Cut
  <1>5. y \in Seq(S) /\ Len(y) = b - a + 1 /\ \A i \in 1 .. b - a + 1 : y[i] = t[m + i - 1]
    <2>1. y \in Seq(S) /\ Len(y) = l - m + 1 /\ \A i \in 1 .. l - m + 1 : y[i] = t[m + i - 1]
      BY <1>3, Cut
    <2> QED BY <1>3, <2>1
  <1> HIDE DEF x, y
  <1>6. ASSUME NEW i \in 1 .. b - a + 1 PROVE x[i] = y[i]
    <2>1. a + i - 1 \in 1 .. Len(t) - n /\ n + (a + i - 1) = m + i - 1
      BY <1>2, <1>3
    <2> QED BY <1>1, <1>4, <1>5, <2>1
  <1>7. x = y
    BY <1>4, <1>5, <1>6, SeqEqual
  <1> QED BY <1>7 DEF x, y, d, m, l

LEMMA StartsThen ==
  ASSUME NEW t \in Seq(Byte), NEW name \in Seq(Byte), StartsWith(t, name)
  PROVE  Len(name) =< Len(t) /\ \A i \in 1 .. Len(name) : t[i] = name[i]
  <1>1. Len(name) =< Len(t)
    BY DEF StartsWith
  <1> QED BY <1>1, StartsOtherwise

\* A key of a link, and the text that gives it a value.
IsLinkKey(key) == key \in Seq(Byte) /\ Len(key) >= 1 /\ \A i \in 1 .. Len(key) : key[i] \notin {Equals, Amp}

LEMMA NameShape ==
  ASSUME NEW key \in Seq(Byte)
  PROVE  /\ key \o <<Equals>> \in Seq(Byte) /\ Len(key) \in Nat /\ Len(key \o <<Equals>>) = Len(key) + 1
         /\ \A i \in 1 .. Len(key) : (key \o <<Equals>>)[i] = key[i]
         /\ (key \o <<Equals>>)[Len(key) + 1] = Equals
  <1> DEFINE e == <<Equals>>
             name == key \o e
  <1>1. e \in Seq(Byte) /\ Len(e) = 1 /\ e[1] = Equals
    BY DEF Byte, Equals
  <1>2. name = key \o e
    OBVIOUS
  <1> HIDE DEF e, name
  <1>3. key \in Seq(Byte) /\ e \in Seq(Byte)
    BY <1>1
  <1>4. /\ name \in Seq(Byte) /\ Len(key) \in Nat /\ Len(name) = Len(key) + Len(e)
        /\ \A i \in 1 .. Len(key) : name[i] = key[i]
        /\ \A i \in 1 .. Len(e) : name[Len(key) + i] = e[i]
    BY <1>2, <1>3, Appended
  <1>5. name[Len(key) + 1] = Equals
    <2>1. name[Len(key) + 1] = e[1]
      BY <1>1, <1>4
    <2> QED BY <1>1, <2>1
  <1> QED BY <1>1, <1>4, <1>5 DEF name, e

\* Where a tail gives a key its value.
IsNamed(t, key) ==
  /\ Len(key) + 1 =< Len(t) /\ t[Len(key) + 1] = Equals
  /\ \A i \in 1 .. Len(key) : t[i] = key[i]

LEMMA NamedStarts ==
  ASSUME NEW t \in Seq(Byte), NEW key \in Seq(Byte)
  PROVE  StartsWith(t, key \o <<Equals>>) <=> IsNamed(t, key)
  <1> DEFINE name == key \o <<Equals>>
             K == Len(key)
  <1>1. /\ name \in Seq(Byte) /\ K \in Nat /\ Len(name) = K + 1
        /\ \A i \in 1 .. K : name[i] = key[i]
        /\ name[K + 1] = Equals
    BY NameShape
  <1> HIDE DEF name
  <1>2. ASSUME StartsWith(t, name) PROVE IsNamed(t, key)
    <2>1. Len(name) =< Len(t) /\ \A i \in 1 .. Len(name) : t[i] = name[i]
      BY <1>1, <1>2, StartsThen
    <2>2. K + 1 \in 1 .. Len(name) /\ \A i \in 1 .. K : i \in 1 .. Len(name)
      BY <1>1
    <2> QED BY <1>1, <2>1, <2>2 DEF IsNamed
  <1>3. ASSUME IsNamed(t, key) PROVE StartsWith(t, name)
    <2>1. Len(name) =< Len(t)
      BY <1>1, <1>3 DEF IsNamed
    <2>2. ASSUME NEW i \in 1 .. Len(name) PROVE t[i] = name[i]
      <3>1. i \in 1 .. K \/ i = K + 1
        BY <1>1
      <3> QED BY <1>1, <1>3, <3>1 DEF IsNamed
    <2> QED BY <1>1, <2>1, <2>2, StartsSo
  <1>4. StartsWith(t, name) <=> IsNamed(t, key)
    BY <1>2, <1>3 DEF StartsWith, IsNamed
  <1> QED BY <1>4 DEF name

\* The first "=" of a tail that gives a key its value.
LEMMA NamedAt ==
  ASSUME NEW t \in Seq(Byte), NEW key, IsLinkKey(key), IsNamed(t, key)
  PROVE  Find(t, Equals) = Len(key) + 1 /\ \A i \in 1 .. Len(key) + 1 : t[i] # Amp
  <1> DEFINE m == Len(key) + 1
  <1>1. Len(key) \in Nat /\ Len(t) \in Nat /\ m \in 1 .. Len(t) /\ t[m] = Equals
    BY DEF IsLinkKey, IsNamed
  <1>2. \A j \in 1 .. m - 1 : t[j] # Equals /\ t[j] # Amp
    BY <1>1 DEF IsLinkKey, IsNamed
  <1>3. Equals # Amp
    BY DEF Equals, Amp
  <1>4. \A i \in 1 .. m : i \in 1 .. m - 1 \/ i = m
    BY <1>1
  <1> HIDE DEF m
  <1>5. Find(t, Equals) = m
    BY <1>1, <1>2, FindAt
  <1>6. \A i \in 1 .. m : t[i] # Amp
    BY <1>1, <1>2, <1>3, <1>4
  <1> QED BY <1>5, <1>6 DEF m

\* The key of a tail is one that it gives a value, or all of it.
LEMMA KeyIs ==
  ASSUME NEW t \in Seq(Byte), NEW key, IsLinkKey(key)
  PROVE  Key(t) = key <=> IsNamed(t, key) \/ t = key
  <1> DEFINE f == Find(t, Equals)
  <1>1. Len(t) \in Nat /\ Len(key) \in Nat /\ key \in Seq(Byte)
    BY DEF IsLinkKey
  <1>2. CASE f = 0
    <2>1. Key(t) = t
      BY <1>2 DEF Key
    <2>2. ~IsNamed(t, key)
      <3> SUFFICES ASSUME IsNamed(t, key) PROVE FALSE
        OBVIOUS
      <3>1. f = Len(key) + 1
        BY NamedAt
      <3> QED BY <1>1, <1>2, <3>1
    <2> QED BY <2>1, <2>2
  <1>3. CASE f # 0
    <2>1. f \in 1 .. Len(t) /\ t[f] = Equals /\ \A j \in 1 .. f - 1 : t[j] # Equals
      BY <1>1, <1>3, FindIs
    <2>2. t # key
      BY <2>1 DEF IsLinkKey
    <2> DEFINE m == f - 1
               w == SubSeq(t, 1, m)
    <2>3. Key(t) = w
      BY <1>3 DEF Key
    <2>4. m \in Nat /\ m + 1 = f /\ 1 \in 1 .. Len(t) + 1 /\ m \in 1 - 1 .. Len(t) /\ m - 1 + 1 = m
      BY <1>1, <2>1
    <2> HIDE DEF m
    <2>5. w \in Seq(Byte) /\ Len(w) = m /\ \A i \in 1 .. m : w[i] = t[i]
      <3>1. /\ w \in Seq(Byte) /\ Len(w) = m - 1 + 1
            /\ \A i \in 1 .. m - 1 + 1 : w[i] = t[1 + i - 1]
        BY <2>4, Cut
      <3> HIDE DEF w
      <3>2. \A i \in 1 .. m : 1 + i - 1 = i
        BY <2>4
      <3> QED BY <2>4, <3>1, <3>2
    <2> HIDE DEF w
    <2>6. ASSUME w = key PROVE IsNamed(t, key)
      <3>1. Len(key) + 1 = f
        BY <2>4, <2>5, <2>6
      <3>2. \A i \in 1 .. Len(key) : t[i] = key[i]
        BY <2>5, <2>6
      <3> QED BY <2>1, <3>1, <3>2 DEF IsNamed
    <2>7. ASSUME IsNamed(t, key) PROVE w = key
      <3>1. f = Len(key) + 1
        BY <2>7, NamedAt
      <3>2. m = Len(key)
        BY <1>1, <2>4, <3>1
      <3> QED BY <1>1, <2>5, <2>7, <3>2, SeqEqual DEF IsNamed
    <2> QED BY <2>2, <2>3, <2>6, <2>7
  <1> QED BY <1>2, <1>3

\* A parameter of a link is within it.
LEMMA ParametersAreWithin ==
  ASSUME NEW uri \in Seq(Byte), NEW r \in Parameters(uri)
  PROVE  /\ r[1] \in 9 .. Len(uri) /\ r[2] \in r[1] .. Len(uri)
         /\ r[1] = 9 \/ uri[r[1] - 1] = Amp
         /\ r[2] = Len(uri) \/ uri[r[2] + 1] = Amp
         /\ \A i \in r[1] .. r[2] : uri[i] # Amp
  <1>1. Len(Prefix) = 8 /\ Len(uri) \in Nat
    BY DEF Prefix
  <1> DEFINE within == Len(Prefix) + 1 .. Len(uri)
  <1>2. /\ r \in within \X within
        /\ r[1] = Len(Prefix) + 1 \/ uri[r[1] - 1] = Amp
        /\ r[2] = Len(uri) \/ uri[r[2] + 1] = Amp
        /\ r[1] =< r[2] /\ \A i \in r[1] .. r[2] : uri[i] # Amp
    BY DEF Parameters
  <1>3. within = 9 .. Len(uri)
    BY <1>1
  <1> HIDE DEF within
  <1>4. r[1] \in 9 .. Len(uri) /\ r[2] \in 9 .. Len(uri)
    BY <1>2, <1>3
  <1>5. r[2] \in r[1] .. Len(uri)
    BY <1>2, <1>4
  <1>6. r[1] = 9 \/ uri[r[1] - 1] = Amp
    BY <1>1, <1>2
  <1> QED BY <1>2, <1>4, <1>5, <1>6

\* The loop is at each of the parameters once.
LEMMA TailOfParameter ==
  ASSUME NEW uri \in Seq(Byte), NEW r \in Parameters(uri)
  PROVE  /\ Drop(uri, r[1] - 1) \in Tails(uri)
         /\ Drop(uri, r[1] - 1) \in Seq(Byte) /\ Len(Drop(uri, r[1] - 1)) = Len(uri) - r[1] + 1
         /\ \A i \in 1 .. Len(uri) - r[1] + 1 : Drop(uri, r[1] - 1)[i] = uri[r[1] - 1 + i]
  <1> DEFINE n == r[1] - 1
             t == Drop(uri, n)
  <1>1. Len(uri) \in Nat /\ r[1] \in 9 .. Len(uri) /\ (r[1] = 9 \/ uri[r[1] - 1] = Amp)
    BY ParametersAreWithin
  <1>2. n \in 0 .. Len(uri) /\ Len(uri) - n = Len(uri) - r[1] + 1 /\ Len(uri) - n >= 1 /\ n >= 8 /\ n \in Nat
    BY <1>1
  <1>3. n = 8 \/ uri[n] = Amp
    BY <1>1
  <1>4. n = r[1] - 1
    OBVIOUS
  <1> HIDE DEF n
  <1>5. t \in Seq(Byte) /\ Len(t) = Len(uri) - n /\ \A i \in 1 .. Len(uri) - n : t[i] = uri[n + i]
    BY <1>2, Dropped
  <1>6. Len(Prefix) = 8
    BY DEF Prefix
  <1>7. n \in {Len(Prefix)} \cup {p \in Positions(uri, Amp) : p > Len(Prefix)}
    <2>1. CASE n = 8
      BY <1>6, <2>1
    <2>2. CASE n # 8
      <3>1. n \in 1 .. Len(uri) /\ uri[n] = Amp /\ n > 8
        BY <1>1, <1>2, <1>3, <2>2
      <3> QED BY <1>6, <3>1 DEF Positions
    <2> QED BY <2>1, <2>2
  <1>8. t # << >>
    BY <1>2, <1>5
  <1>9. t \in Tails(uri)
    BY <1>7, <1>8 DEF Tails
  <1>10. Len(t) = Len(uri) - r[1] + 1 /\ \A i \in 1 .. Len(uri) - r[1] + 1 : t[i] = uri[n + i]
    BY <1>2, <1>5
  <1> QED BY <1>5, <1>9, <1>10 DEF n

\* A parameter that gives a key a value is read as giving this value.
LEMMA GivenIsRead ==
  ASSUME NEW uri \in Seq(Byte), NEW key, IsLinkKey(key), NEW r \in Given(uri, key)
  PROVE  /\ Drop(uri, r[1] - 1) \in With(uri, key)
         /\ Value(Drop(uri, r[1] - 1)) = GivenValue(uri, key, r)
  <1> DEFINE n == r[1] - 1
             t == Drop(uri, n)
             w == SubSeq(uri, r[1], r[2])
             K == Len(key)
             L == Len(uri)
             size == r[2] - r[1] + 1
  <1>1. r \in Parameters(uri) /\ StartsWith(w, key \o <<Equals>>)
    BY DEF Given
  <1>2. /\ r[1] \in 9 .. L /\ r[2] \in r[1] .. L
        /\ r[2] = L \/ uri[r[2] + 1] = Amp
        /\ \A i \in r[1] .. r[2] : uri[i] # Amp
    BY <1>1, ParametersAreWithin
  <1>3. /\ t \in Tails(uri) /\ t \in Seq(Byte) /\ Len(t) = L - r[1] + 1
        /\ \A i \in 1 .. L - r[1] + 1 : t[i] = uri[r[1] - 1 + i]
    BY <1>1, TailOfParameter
  <1>4. L \in Nat /\ K \in Nat /\ key \in Seq(Byte)
    BY DEF IsLinkKey
  <1>5. w \in Seq(Byte) /\ Len(w) = size /\ \A i \in 1 .. size : w[i] = uri[r[1] + i - 1]
    <2>1. r[1] \in 1 .. Len(uri) + 1 /\ r[2] \in r[1] - 1 .. Len(uri)
      BY <1>2, <1>4
    <2> QED BY <2>1, Cut
  <1>6. IsNamed(w, key)
    <2>1. w \in Seq(Byte) /\ key \in Seq(Byte)
      BY <1>4, <1>5
    <2> HIDE DEF w
    <2> QED BY <1>1, <2>1, NamedStarts
  <1>7. n = r[1] - 1 /\ n \in Nat /\ n \in 0 .. L /\ size \in Nat /\ size =< L - n /\ size = r[2] - n
    BY <1>2, <1>4
  <1> HIDE DEF t, w
  <1>8. K + 1 =< size /\ size =< Len(t)
    BY <1>2, <1>3, <1>4, <1>5, <1>6 DEF IsNamed
  <1>9. \A i \in 1 .. size : t[i] = w[i] /\ t[i] # Amp
    <2>1. ASSUME NEW i \in 1 .. size PROVE t[i] = w[i] /\ t[i] # Amp
      <3>1. i \in 1 .. L - r[1] + 1 /\ r[1] - 1 + i = r[1] + i - 1 /\ r[1] + i - 1 \in r[1] .. r[2]
        BY <1>2, <1>4, SMTT(30)
      <3> QED BY <1>2, <1>3, <1>5, <3>1
    <2> QED BY <2>1
  <1>10. IsNamed(t, key)
    <2>1. \A i \in 1 .. K : i \in 1 .. size
      BY <1>4, <1>7, <1>8
    <2>2. K + 1 \in 1 .. size /\ K + 1 =< Len(t)
      <3>1. Len(t) \in Nat /\ K \in Nat /\ size \in Nat /\ K + 1 =< size /\ size =< Len(t)
        BY <1>3, <1>4, <1>7, <1>8
      <3> HIDE DEF K, size
      <3> QED BY <3>1
    <2> QED BY <1>6, <1>9, <2>1, <2>2 DEF IsNamed
  <1>11. t \in With(uri, key)
    BY <1>3, <1>10, KeyIs DEF With
  <1>12. Find(t, Equals) = K + 1
    BY <1>3, <1>10, NamedAt
  <1>13. (IF Find(t, Amp) = 0 THEN Len(t) ELSE Find(t, Amp) - 1) = size
    <2>1. CASE r[2] = L
      <3>1. Len(t) = size
        BY <1>3, <2>1
      <3>2. Find(t, Amp) = 0
        BY <1>9, <3>1, FindNone
      <3> QED BY <3>1, <3>2
    <2>2. CASE r[2] # L
      <3> DEFINE m == size + 1
      <3>1. m \in 1 .. Len(t) /\ r[1] - 1 + m = r[2] + 1 /\ m \in 1 .. L - r[1] + 1 /\ m - 1 = size
        BY <1>2, <1>3, <1>4, <2>2, SMTT(30)
      <3>2. t[m] = Amp /\ Len(t) \in Nat
        BY <1>2, <1>3, <2>2, <3>1, SMTT(30)
      <3> HIDE DEF m, size
      <3>3. Find(t, Amp) = m
        BY <1>9, <3>1, <3>2, FindAt
      <3> QED BY <3>1, <3>3
    <2> QED BY <2>1, <2>2
  <1>14. Value(t) = SubSeq(t, K + 2, size)
    <2>1. Find(t, Equals) + 1 = K + 2
      BY <1>4, <1>12
    <2> QED BY <1>13, <2>1 DEF Value
  <1>15. SubSeq(t, K + 2, size) = SubSeq(uri, n + (K + 2), n + size)
    <2>1. K + 2 \in 1 .. Len(uri) - n + 1 /\ size \in (K + 2) - 1 .. Len(uri) - n /\ n \in 0 .. Len(uri)
      BY <1>4, <1>7, <1>8
    <2> HIDE DEF n, size
    <2> QED BY <2>1, CutOfDropped DEF t
  <1>16. n + (K + 2) = r[1] + K + 1 /\ n + size = r[2]
    <2>1. n \in Nat /\ K \in Nat /\ size \in Nat /\ r[1] \in Nat /\ r[2] \in Nat
            /\ n = r[1] - 1 /\ size = r[2] - n
      BY <1>2, <1>4, <1>7
    <2> HIDE DEF n, K, size
    <2> QED BY <2>1, SMTT(30)
  <1> QED BY <1>11, <1>14, <1>15, <1>16 DEF GivenValue, t

\* What is read for a key is given, or is the key itself at the end of the link.
LEMMA ReadIsGiven ==
  ASSUME NEW uri \in Seq(Byte), NEW key, IsLinkKey(key), NEW t \in With(uri, key)
  PROVE  \/ t = key /\ EndsBare(uri, key)
         \/ \E r \in Given(uri, key) : t = Drop(uri, r[1] - 1)
  <1> DEFINE K == Len(key)
             L == Len(uri)
  <1>1. L \in Nat /\ K \in Nat /\ key \in Seq(Byte) /\ K >= 1 /\ \A i \in 1 .. K : key[i] # Amp
    BY DEF IsLinkKey
  <1>2. Len(Prefix) = 8
    BY DEF Prefix
  <1>3. PICK n \in {8} \cup {p \in Positions(uri, Amp) : p > 8} : t = Drop(uri, n) /\ t # << >>
    BY <1>2 DEF With, Tails
  <1>4. n \in Nat /\ n >= 8 /\ (n = 8 \/ uri[n] = Amp)
    BY <1>3 DEF Positions
  <1>5. n < L
    <2> SUFFICES ASSUME n >= L PROVE FALSE
      BY <1>1, <1>4
    <2>1. t = << >>
      BY <1>1, <1>3, <1>4, SubSeqEmpty DEF Drop
    <2> QED BY <1>3, <2>1
  <1>6. t \in Seq(Byte) /\ Len(t) = L - n /\ \A i \in 1 .. L - n : t[i] = uri[n + i]
    <2>1. n \in 0 .. Len(uri)
      BY <1>1, <1>4, <1>5
    <2> QED BY <1>3, <2>1, Dropped
  <1>7. IsNamed(t, key) \/ t = key
    BY <1>6, KeyIs DEF With
  <1> DEFINE size == IF Find(t, Amp) = 0 THEN Len(t) ELSE Find(t, Amp) - 1
             first == n + 1
             last == n + size
             r == <<first, last>>
  <1>8. /\ size \in 0 .. Len(t) /\ \A i \in 1 .. size : t[i] # Amp
        /\ size = Len(t) \/ t[size + 1] = Amp
    <2>1. Len(t) \in Nat
      BY <1>6
    <2>2. CASE Find(t, Amp) = 0
      <3>1. size = Len(t)
        BY <2>2
      <3>2. \A i \in 1 .. Len(t) : t[i] # Amp
        <4> SUFFICES ASSUME NEW i \in 1 .. Len(t), t[i] = Amp PROVE FALSE
          OBVIOUS
        <4>1. Positions(t, Amp) # {} /\ Positions(t, Amp) \in SUBSET Nat
          BY DEF Positions
        <4>2. PICK j \in Positions(t, Amp) : \A k \in Positions(t, Amp) : j =< k
          BY <4>1, LeastOf
        <4>3. j \in 1 .. Len(t) /\ t[j] = Amp /\ \A k \in 1 .. j - 1 : t[k] # Amp
          BY <4>2 DEF Positions
        <4>4. Find(t, Amp) = j
          BY <2>1, <4>3, FindAt
        <4> QED BY <2>2, <4>3, <4>4
      <3> QED BY <2>1, <3>1, <3>2
    <2>3. CASE Find(t, Amp) # 0
      <3> DEFINE f == Find(t, Amp)
      <3>1. f \in 1 .. Len(t) /\ t[f] = Amp /\ \A j \in 1 .. f - 1 : t[j] # Amp
        BY <2>1, <2>3, FindIs
      <3>2. size = f - 1
        BY <2>3
      <3> HIDE DEF f, size
      <3>3. size \in 0 .. Len(t) /\ size + 1 = f
        BY <2>1, <3>1, <3>2
      <3> QED BY <3>1, <3>2, <3>3
    <2> QED BY <2>2, <2>3
  <1> HIDE DEF size
  <1>9. size >= K
    <2>1. CASE size = Len(t)
      BY <1>1, <1>6, <1>7, <2>1 DEF IsNamed
    <2>2. CASE t[size + 1] = Amp /\ size # Len(t)
      <3> SUFFICES ASSUME size < K PROVE FALSE
        BY <1>1, <1>6, <1>8
      <3>1. size + 1 \in 1 .. K
        BY <1>1, <1>6, <1>8
      <3>2. t[size + 1] = key[size + 1]
        BY <1>7, <3>1 DEF IsNamed
      <3> QED BY <1>1, <2>2, <3>1, <3>2
    <2> QED BY <1>8, <2>1, <2>2
  <1>10. /\ first \in 9 .. L /\ last \in 9 .. L /\ first =< last /\ first - 1 = n
         /\ size \in Nat /\ last - first + 1 = size /\ size =< L - n
    BY <1>1, <1>4, <1>5, <1>6, <1>8, <1>9
  <1>11. r \in Parameters(uri)
    <2>1. ASSUME NEW i \in first .. last PROVE uri[i] # Amp
      <3>1. i - n \in 1 .. size /\ i - n \in 1 .. L - n /\ n + (i - n) = i
        BY <1>4, <1>10
      <3> QED BY <1>6, <1>8, <3>1
    <2>2. last = L \/ uri[last + 1] = Amp
      <3>1. CASE size = Len(t)
        BY <1>1, <1>4, <1>6, <3>1
      <3>2. CASE t[size + 1] = Amp /\ size # Len(t)
        <4>1. size + 1 \in 1 .. L - n /\ n + (size + 1) = last + 1
          <5>1. size \in Nat /\ L - n \in Nat /\ size =< L - n /\ size # L - n
            BY <1>1, <1>4, <1>5, <1>6, <1>10, <3>2
          <5> QED BY <1>1, <1>4, <5>1
        <4> QED BY <1>6, <3>2, <4>1
      <3> QED BY <1>8, <3>1, <3>2
    <2>3. first = 9 \/ uri[first - 1] = Amp
      BY <1>4, <1>10
    <2> DEFINE within == Len(Prefix) + 1 .. Len(uri)
    <2>4. within = 9 .. L
      BY <1>2
    <2> HIDE DEF first, last, within
    <2>5. r \in within \X within /\ r[1] = first /\ r[2] = last
      BY <1>10, <2>4
    <2>6. Len(Prefix) + 1 = 9
      BY <1>2
    <2> HIDE DEF r
    <2>7. /\ r[1] = Len(Prefix) + 1 \/ uri[r[1] - 1] = Amp
          /\ r[2] = Len(uri) \/ uri[r[2] + 1] = Amp
          /\ r[1] =< r[2] /\ \A i \in r[1] .. r[2] : uri[i] # Amp
      BY <1>10, <2>1, <2>2, <2>3, <2>5, <2>6
    <2> QED BY <2>5, <2>7 DEF Parameters, within
  <1>12. r[1] = first /\ r[2] = last
    OBVIOUS
  <1>13. Drop(uri, r[1] - 1) = t
    BY <1>3, <1>10
  <1>14. CASE t = key
    BY <1>11, <1>13, <1>14 DEF EndsBare
  <1>15. CASE IsNamed(t, key)
    <2> DEFINE w == SubSeq(uri, first, last)
    <2>1. w \in Seq(Byte) /\ Len(w) = size /\ \A i \in 1 .. size : w[i] = uri[first + i - 1]
      <3>1. first \in 1 .. Len(uri) + 1 /\ last \in first - 1 .. Len(uri)
        BY <1>1, <1>10
      <3> HIDE DEF first, last
      <3>2. /\ w \in Seq(Byte) /\ Len(w) = last - first + 1
            /\ \A i \in 1 .. last - first + 1 : w[i] = uri[first + i - 1]
        BY <3>1, Cut
      <3> QED BY <1>10, <3>2
    <2> HIDE DEF w
    <2>2. ASSUME NEW i \in 1 .. size PROVE w[i] = t[i]
      <3>1. first + i - 1 = n + i /\ i \in 1 .. L - n
        BY <1>4, <1>10
      <3> QED BY <1>6, <2>1, <3>1
    <2>3. IsNamed(w, key)
      <3>1. size >= K + 1
        <4>1. t[K + 1] # Amp
          BY <1>15 DEF IsNamed, Equals, Amp
        <4>2. size # K
          <5> SUFFICES ASSUME size = K PROVE FALSE
            OBVIOUS
          <5>1. size # Len(t)
            BY <1>1, <1>15 DEF IsNamed
          <5> QED BY <1>8, <4>1, <5>1
        <4> QED BY <1>1, <1>9, <1>10, <4>2
      <3>2. K + 1 \in 1 .. size /\ \A i \in 1 .. K : i \in 1 .. size
        BY <1>1, <1>10, <3>1
      <3> QED BY <1>15, <2>1, <2>2, <3>1, <3>2 DEF IsNamed
    <2>4. StartsWith(w, key \o <<Equals>>)
      BY <1>1, <2>1, <2>3, NamedStarts
    <2>5. r \in Given(uri, key)
      BY <1>11, <1>12, <2>4 DEF Given, w
    <2> QED BY <1>13, <2>5
  <1> QED BY <1>7, <1>14, <1>15

\* A link that ends with the key alone is read as giving it to itself.
LEMMA BareIsRead ==
  ASSUME NEW uri \in Seq(Byte), NEW key, IsLinkKey(key), EndsBare(uri, key)
  PROVE  key \in With(uri, key) /\ Value(key) = key
  <1>1. PICK r \in Parameters(uri) : Drop(uri, r[1] - 1) = key
    BY DEF EndsBare
  <1>2. key \in Tails(uri) /\ key \in Seq(Byte) /\ Len(key) \in Nat
    BY <1>1, TailOfParameter
  <1>3. Key(key) = key
    BY <1>2, KeyIs
  <1>4. Find(key, Equals) = 0 /\ Find(key, Amp) = 0
    BY FindNone DEF IsLinkKey
  <1>5. Value(key) = SubSeq(key, 1, Len(key))
    BY <1>4 DEF Value
  <1>6. SubSeq(key, 1, Len(key)) = key
    <2> DEFINE w == SubSeq(key, 1, Len(key))
               n == Len(key)
    <2>1. n >= 1 /\ n \in Nat
      BY <1>2 DEF IsLinkKey
    <2>2. 1 \in 1 .. Len(key) + 1 /\ n \in 1 - 1 .. Len(key)
      BY <2>1
    <2>3. w \in Seq(Byte) /\ Len(w) = n - 1 + 1 /\ \A i \in 1 .. n - 1 + 1 : w[i] = key[1 + i - 1]
      BY <1>2, <2>2, Cut
    <2> HIDE DEF w
    <2>4. Len(w) = n /\ \A i \in 1 .. n : w[i] = key[i]
      BY <2>1, <2>3
    <2>5. w = key
      BY <1>2, <2>3, <2>4, SeqEqual
    <2> QED BY <2>5 DEF w
  <1> QED BY <1>2, <1>3, <1>5, <1>6 DEF With

\* Of what is given for a key, that which is given last is read.
LEMMA LastIsRead ==
  ASSUME NEW uri \in Seq(Byte), NEW key, IsLinkKey(key), ~EndsBare(uri, key), Given(uri, key) # {}
  PROVE  \E r \in Given(uri, key) :
           IsLast(uri, key, r) /\ LastValue(uri, key) = GivenValue(uri, key, r)
  <1> DEFINE L == Len(uri)
             tail(r) == Drop(uri, r[1] - 1)
             I == {L - r[1] : r \in Given(uri, key)}
  <1>1. \A r \in Given(uri, key) : /\ r[1] \in 9 .. L /\ L \in Nat
                                   /\ Len(tail(r)) = L - r[1] + 1
                                   /\ tail(r) \in With(uri, key)
                                   /\ Value(tail(r)) = GivenValue(uri, key, r)
    <2> TAKE r \in Given(uri, key)
    <2>1. r \in Parameters(uri)
      BY DEF Given
    <2>2. r[1] \in 9 .. L /\ L \in Nat
      BY <2>1, ParametersAreWithin
    <2>3. Len(tail(r)) = L - r[1] + 1
      BY <2>1, TailOfParameter
    <2>4. tail(r) \in With(uri, key) /\ Value(tail(r)) = GivenValue(uri, key, r)
      BY GivenIsRead
    <2> QED BY <2>2, <2>3, <2>4
  <1>2. \A t \in With(uri, key) : \E r \in Given(uri, key) : t = tail(r)
    BY ReadIsGiven
  <1> HIDE DEF L, tail
  <1>3. I \in SUBSET Nat /\ I # {}
    BY <1>1
  <1>4. PICK m \in I : \A j \in I : m =< j
    BY <1>3, LeastOf
  <1>5. PICK last \in Given(uri, key) : m = L - last[1]
    BY <1>4
  <1>6. ASSUME NEW q \in Given(uri, key) PROVE q[1] =< last[1]
    <2>1. L - q[1] \in I
      OBVIOUS
    <2>2. L - last[1] =< L - q[1]
      BY <1>4, <1>5, <2>1
    <2>3. L \in Nat /\ q[1] \in Nat /\ last[1] \in Nat
      BY <1>1
    <2> QED BY <2>2, <2>3
  <1> DEFINE Shortest(t) == \A other \in With(uri, key) : Len(t) =< Len(other)
  <1>7. tail(last) \in With(uri, key) /\ Shortest(tail(last))
    <2>1. ASSUME NEW other \in With(uri, key) PROVE Len(tail(last)) =< Len(other)
      <3>1. PICK r \in Given(uri, key) : other = tail(r)
        BY <1>2
      <3>2. r[1] =< last[1] /\ L \in Nat /\ r[1] \in Nat /\ last[1] \in Nat
        BY <1>1, <1>6
      <3>3. Len(other) = L - r[1] + 1 /\ Len(tail(last)) = L - last[1] + 1
        BY <1>1, <3>1
      <3> QED BY <3>2, <3>3
    <2> QED BY <1>1, <2>1
  <1>8. ASSUME NEW t \in With(uri, key), Shortest(t) PROVE t = tail(last)
    <2>1. PICK r \in Given(uri, key) : t = tail(r)
      BY <1>2
    <2>2. Len(t) =< Len(tail(last))
      BY <1>7, <1>8
    <2>3. Len(t) = L - r[1] + 1 /\ Len(tail(last)) = L - last[1] + 1
      BY <1>1, <2>1
    <2>4. r[1] =< last[1] /\ L \in Nat /\ r[1] \in Nat /\ last[1] \in Nat
      BY <1>1, <1>6
    <2>5. r[1] = last[1]
      BY <2>2, <2>3, <2>4
    <2> QED BY <2>1, <2>5 DEF tail
  <1>9. (CHOOSE t \in With(uri, key) : Shortest(t)) = tail(last)
    <2> HIDE DEF Shortest
    <2> QED BY <1>7, <1>8
  <1>10. LastValue(uri, key) = Value(tail(last))
    BY <1>9 DEF LastValue
  <1> QED BY <1>1, <1>6, <1>10 DEF IsLast

LEMMA LinkKeys == IsLinkKey(Xt) /\ IsLinkKey(Tr)
  <1>1. IsLinkKey(Xt)
    BY DEF IsLinkKey, Xt, Byte, Equals, Amp
  <1>2. IsLinkKey(Tr)
    BY DEF IsLinkKey, Tr, Byte, Equals, Amp
  <1> QED BY <1>1, <1>2

\* A link is taken exactly when it is valid, and its hash and its tracker are
\* those it means, wherever it has them and however it spells them.
THEOREM LinksAreUnderstood ==
  ASSUME NEW s \in Sources, Meaning(s)
  PROVE  /\ LinkIsRead(s.link) <=> s.valid
         /\ s.valid => LinkHash(s.link) = s.infoHash /\ LinkTracker(s.link) = s.tracker
  <1> DEFINE uri == s.link
  <1>1. /\ uri \in Seq(Byte) /\ s.valid \in BOOLEAN /\ s.infoHash \in Seq(Byte) /\ s.tracker \in Seq(Byte)
        /\ s.spelled \in Seq(Hows)
    BY DEF Sources, Hows
  <1>2. /\ ~EndsBare(uri, Tr)
        /\ s.valid <=>
             /\ StartsWith(uri, Prefix) /\ ~EndsBare(uri, Xt)
             /\ Given(uri, Xt) # {}
             /\ \A r \in Given(uri, Xt) : XtIsRead(GivenValue(uri, Xt, r))
    BY DEF Meaning
  <1>3. ASSUME s.valid
        PROVE  /\ \A r \in Given(uri, Xt) : IsLast(uri, Xt, r) =>
                    /\ Len(s.infoHash) = HashSize
                    /\ \A i \in 1 .. HashSize :
                         HexOf(s.infoHash[i], Drop(GivenValue(uri, Xt, r), Len(XtPrefix))[2 * i - 1],
                               Drop(GivenValue(uri, Xt, r), Len(XtPrefix))[2 * i])
               /\ Len(s.spelled) = Len(s.tracker)
               /\ \A i \in 1 .. Len(s.tracker) : s.spelled[i] = "plain" => s.tracker[i] # Percent
               /\ Given(uri, Tr) = {} => s.tracker = << >>
               /\ \A r \in Given(uri, Tr) :
                    IsLast(uri, Tr, r) => GivenValue(uri, Tr, r) = Spelling(s.tracker, s.spelled)
    BY <1>3 DEF Meaning
  <1> HIDE DEF uri
  <1>4. ~XtIsRead(Xt)
    <2>1. ~StartsWith(Xt, XtPrefix)
      BY DEF StartsWith, Xt, XtPrefix
    <2> QED BY <2>1 DEF XtIsRead
  <1>5. LinkIsRead(uri) <=> s.valid
    <2>1. ASSUME EndsBare(uri, Xt) PROVE ~LinkIsRead(uri)
      <3>1. Xt \in With(uri, Xt) /\ Value(Xt) = Xt
        BY <1>1, <2>1, BareIsRead, LinkKeys
      <3> QED BY <1>4, <3>1 DEF LinkIsRead
    <2>2. ASSUME ~EndsBare(uri, Xt)
          PROVE  /\ With(uri, Xt) # {} <=> Given(uri, Xt) # {}
                 /\ (\A t \in With(uri, Xt) : XtIsRead(Value(t)))
                      <=> \A r \in Given(uri, Xt) : XtIsRead(GivenValue(uri, Xt, r))
      <3>1. \A r \in Given(uri, Xt) : /\ Drop(uri, r[1] - 1) \in With(uri, Xt)
                                      /\ Value(Drop(uri, r[1] - 1)) = GivenValue(uri, Xt, r)
        BY <1>1, GivenIsRead, LinkKeys
      <3>2. \A t \in With(uri, Xt) : \E r \in Given(uri, Xt) : t = Drop(uri, r[1] - 1)
        BY <1>1, <2>2, ReadIsGiven, LinkKeys
      <3> QED BY <3>1, <3>2
    <2> QED BY <1>1, <1>2, <2>1, <2>2 DEF LinkIsRead
  <1>6. ASSUME s.valid PROVE LinkHash(uri) = s.infoHash
    <2>1. PICK r \in Given(uri, Xt) : IsLast(uri, Xt, r) /\ LastValue(uri, Xt) = GivenValue(uri, Xt, r)
      BY <1>1, <1>2, <1>6, LastIsRead, LinkKeys
    <2> DEFINE hex == Drop(GivenValue(uri, Xt, r), Len(XtPrefix))
               hash == s.infoHash
    <2>2. Len(hash) = HashSize /\ \A i \in 1 .. HashSize : HexOf(hash[i], hex[2 * i - 1], hex[2 * i])
      BY <1>3, <1>6, <2>1
    <2>3. LinkHash(uri) = HexToBytes(hex)
      BY <2>1 DEF LinkHash
    <2>4. hash \in Seq(Byte)
      BY <1>1
    <2> HIDE DEF hex, hash
    <2>5. ASSUME NEW i \in 1 .. HashSize PROVE FromHex(hex[2 * i - 1], hex[2 * i]) = hash[i]
      <3>1. hash[i] \in Byte
        BY <2>2, <2>4, ElementOfSeq
      <3>2. HexOf(hash[i], hex[2 * i - 1], hex[2 * i])
        BY <2>2
      <3> QED BY <3>1, <3>2, HexRead
    <2>6. HexToBytes(hex) = [i \in 1 .. HashSize |-> hash[i]]
      BY <2>5 DEF HexToBytes
    <2>7. hash = [i \in 1 .. HashSize |-> hash[i]]
      BY <2>2, <2>4
    <2> QED BY <2>3, <2>6, <2>7 DEF hash
  <1>7. ASSUME s.valid PROVE LinkTracker(uri) = s.tracker
    <2>1. CASE Given(uri, Tr) = {}
      <3>1. With(uri, Tr) = {}
        BY <1>1, <1>2, <2>1, ReadIsGiven, LinkKeys
      <3> QED BY <1>3, <1>7, <2>1, <3>1 DEF LinkTracker
    <2>2. CASE Given(uri, Tr) # {}
      <3>1. PICK r \in Given(uri, Tr) : IsLast(uri, Tr, r) /\ LastValue(uri, Tr) = GivenValue(uri, Tr, r)
        BY <1>1, <1>2, <2>2, LastIsRead, LinkKeys
      <3>2. With(uri, Tr) # {}
        BY <1>1, <3>1, GivenIsRead, LinkKeys
      <3>3. LastValue(uri, Tr) = Spelling(s.tracker, s.spelled)
        BY <1>3, <1>7, <3>1
      <3>4. s.spelled \in Ways(s.tracker)
        BY <1>1, <1>3, <1>7 DEF Ways
      <3>5. UrlDecode(Spelling(s.tracker, s.spelled)) = s.tracker
        BY <1>1, <3>4, SpellingsAreDecoded
      <3> QED BY <3>2, <3>3, <3>5 DEF LinkTracker
    <2> QED BY <2>1, <2>2
  <1> QED BY <1>5, <1>6, <1>7 DEF uri

----------------------------------------------------------------------------
(* The link and the request *)

Refused == pc = "failed" /\ error = "link"

\* What was read of the source is what the source means, unless it was refused,
\* and the request is the one for it.
Told ==
  /\ source \in Sources /\ source.link \in Links /\ (source.kind = "link" => Meaning(source))
  /\ pc = "link" => target = Nothing /\ error = "none"
  /\ Refused => target = Nothing /\ source.kind = "link" /\ ~source.valid
  /\ pc # "link" /\ ~Refused =>
       /\ target.infoHash = source.infoHash /\ target.tracker = source.tracker
       /\ target.left \in Seq(Digits \cup {45})
       /\ error # "link" /\ (source.kind = "link" => source.valid)
  /\ pc \in {"connect", "send"} =>
       UrlIsRead(UrlFor(target)) /\ request = Request(UrlFor(target))

LEMMA InitTold == Init => Told
  BY AnnounceAssumption, LinkAssumption DEF Init, Told, Refused, Links

LEMMA ReadLinkTold ==
  ASSUME Told, ReadLink
  PROVE  Told'
  <1>1. /\ source \in Sources /\ source.kind = "link" /\ Meaning(source) /\ source' = source
        /\ source.link \in Links
        /\ pc = "link" /\ target = Nothing /\ error = "none"
    BY DEF Told, ReadLink
  <1>2. /\ LinkIsRead(source.link) <=> source.valid
        /\ source.valid => LinkHash(source.link) = source.infoHash /\ LinkTracker(source.link) = source.tracker
    BY <1>1, LinksAreUnderstood
  <1>3. source.link \in DOMAIN TargetOf <=> LinkIsRead(source.link)
    BY <1>1 DEF TargetOf
  <1>4. CASE source.link \in DOMAIN TargetOf
    <2>1. target' = TargetOf[source.link] /\ pc' = "url" /\ error' = error
      BY <1>4 DEF ReadLink
    <2>2. LinkIsRead(source.link)
      BY <1>4 DEF TargetOf
    <2>3. TargetOf[source.link] = [infoHash |-> LinkHash(source.link), tracker |-> LinkTracker(source.link),
                                   left |-> <<54, 53, 53, 51, 54>>]
      BY <1>4 DEF TargetOf
    <2>4. target'.infoHash = source.infoHash /\ target'.tracker = source.tracker
            /\ target'.left = <<54, 53, 53, 51, 54>>
      BY <1>2, <2>1, <2>2, <2>3
    <2>5. <<54, 53, 53, 51, 54>> \in Seq(Digits \cup {45})
      BY DEF Digits
    <2> QED BY <1>1, <1>2, <2>1, <2>2, <2>4, <2>5 DEF Told, Refused
  <1>5. CASE source.link \notin DOMAIN TargetOf
    <2>1. target' = target /\ pc' = "failed" /\ error' = "link"
      BY <1>5 DEF ReadLink, Throw
    <2>2. ~source.valid
      BY <1>2, <1>3, <1>5
    <2> QED BY <1>1, <2>1, <2>2 DEF Told, Refused
  <1> QED BY <1>4, <1>5

LEMMA TakeTorrentTold ==
  ASSUME Told, TakeTorrent
  PROVE  Told'
  <1>1. /\ source \in Sources /\ source.link \in Links /\ source.kind = "torrent" /\ source' = source
        /\ pc = "link" /\ target' = OfTorrent(source) /\ error = "none" /\ pc' = "url" /\ error' = error
    BY DEF Told, TakeTorrent
  <1>2. source.left \in Seq(Digits \cup {45})
    BY <1>1 DEF Sources
  <1>3. target'.infoHash = source.infoHash /\ target'.tracker = source.tracker /\ target'.left = source.left
    BY <1>1 DEF OfTorrent
  <1> QED BY <1>1, <1>2, <1>3 DEF Told, Refused

LEMMA BuildRequestTold ==
  ASSUME Told, BuildRequest
  PROVE  Told'
  <1>1. UNCHANGED <<source, target>> /\ pc = "url"
    BY DEF BuildRequest
  <1>2. CASE target \in DOMAIN RequestFor
    <2>1. UrlIsRead(UrlFor(target)) /\ RequestFor[target] = Request(UrlFor(target))
      BY <1>2 DEF RequestFor
    <2>2. request' = Request(UrlFor(target)) /\ pc' = "connect" /\ error' = error
      BY <1>2, <2>1 DEF BuildRequest
    <2>3. UrlFor(target)' = UrlFor(target)
      BY <1>1 DEF UrlFor
    <2> QED BY <1>1, <2>1, <2>2, <2>3 DEF Told, Refused
  <1>3. CASE target \notin DOMAIN RequestFor
    <2>1. pc' = "failed" /\ error' = "url"
      BY <1>3 DEF BuildRequest, Throw
    <2> QED BY <1>1, <2>1 DEF Told, Refused
  <1> QED BY <1>2, <1>3

\* Every other step leaves what was read and asked alone.
LEMMA LaterStepsTold ==
  ASSUME Told, UNCHANGED asked, pc # "link", pc # "failed",
         \/ UNCHANGED <<pc, error>>
         \/ pc' \notin {"link", "connect", "send", "failed"} /\ UNCHANGED error
         \/ pc = "connect" /\ pc' = "send" /\ UNCHANGED error
         \/ pc' = "failed" /\ error' # "link"
  PROVE  Told'
  <1>1. UNCHANGED <<source, target, request>> /\ UrlFor(target)' = UrlFor(target)
    BY DEF asked, UrlFor
  <1> QED BY <1>1 DEF Told, Refused

LEMMA NextTold ==
  ASSUME Told, [Next]_vars
  PROVE  Told'
  <1>1. ASSUME UNCHANGED vars \/ (UNCHANGED <<asked, pc, error>>) PROVE Told'
    <2>1. UNCHANGED <<source, target, request, pc, error>>
      BY <1>1 DEF vars, asked
    <2>2. UrlFor(target)' = UrlFor(target)
      BY <2>1 DEF UrlFor
    <2> QED BY <2>1, <2>2 DEF Told, Refused
  <1>2. CASE Client
    <2>1. CASE ReadLink \/ TakeTorrent \/ BuildRequest
      BY <2>1, ReadLinkTold, TakeTorrentTold, BuildRequestTold
    <2>2. CASE Connect \/ ConnectFails \/ SendRequest
      <3>1. /\ UNCHANGED asked /\ pc \in {"connect", "send"}
            /\ \/ pc' = "recv" /\ UNCHANGED error
               \/ pc = "connect" /\ pc' = "send" /\ UNCHANGED error
               \/ pc' = "failed" /\ error' # "link"
        BY <2>2 DEF Connect, ConnectFails, SendRequest, Throw
      <3> QED BY <3>1, LaterStepsTold
    <2>3. CASE Receive \/ ReceiveEnd \/ ReceiveFails
      <3>1. /\ UNCHANGED asked /\ pc = "recv"
            /\ \/ UNCHANGED <<pc, error>>
               \/ pc' = "parse" /\ UNCHANGED error
               \/ pc' = "failed" /\ error' # "link"
        BY <2>3 DEF Receive, ReceiveEnd, ReceiveFails, Throw
      <3> QED BY <3>1, LaterStepsTold
    <2>4. CASE ParseResponse \/ TakePeers
      <3>1. /\ UNCHANGED asked /\ pc \in {"parse", "decode"}
            /\ \/ pc' \in {"decode", "done"} /\ UNCHANGED error
               \/ pc' = "failed" /\ error' # "link"
        BY <2>4 DEF ParseResponse, TakePeers, Throw
      <3> QED BY <3>1, LaterStepsTold
    <2> QED BY <1>2, <2>1, <2>2, <2>3, <2>4 DEF Client
  <1>3. CASE ServerSends \/ ServerCloses \/ ServerResets
    BY <1>1, <1>3 DEF ServerSends, ServerCloses, ServerResets
  <1>4. CASE Stopped
    BY <1>1, <1>4 DEF Stopped
  <1> QED BY <1>1, <1>2, <1>3, <1>4 DEF Next

THEOREM WhatIsTold == Spec => []Told
  BY InitTold, NextTold, PTL DEF Spec

\* The hash and the tracker of a valid link are read, and no other link is taken.
THEOREM ReadLinks == Spec => []LinksAreRead
  <1>1. Told => LinksAreRead
    BY DEF Told, Refused, LinksAreRead, Nothing, Sources
  <1> QED BY <1>1, WhatIsTold, PTL

\* The tracker is told the hash of the torrent and our id, whatever their bytes,
\* at the host that its URL names.
THEOREM NamedTorrent == Spec => []RequestNamesTheTorrent
  <1>1. ASSUME Told PROVE RequestNamesTheTorrent
    <2> SUFFICES ASSUME pc = "send", WithPath(source.tracker)
                 PROVE  /\ Asked(request.path, InfoHashKey) = source.infoHash
                        /\ Asked(request.path, PeerIdKey) = PeerId
                        /\ StartsWith(source.tracker, Http \o request.host)
      BY DEF RequestNamesTheTorrent
    <2> DEFINE t == source.tracker
               h == source.infoHash
               left == target.left
               query == Query(h, PeerId, left)
               full == t \o <<Question>> \o query
    <2>1. t \in Seq(Byte) /\ h \in Seq(Byte) /\ PeerId \in Seq(Byte) /\ left \in Seq(Digits \cup {45})
      BY <1>1, AnnounceAssumption DEF Told, Refused, Sources
    <2>2. UrlIsRead(UrlFor(target)) /\ request = Request(UrlFor(target))
      BY <1>1 DEF Told
    <2>3. UrlFor(target) = full
      BY <1>1 DEF Told, Refused, UrlFor, AnnounceUrl
    <2>4. UrlIsRead(full) /\ WithPath(t)
      BY <2>2, <2>3
    <2>5. request.path = Path(full) /\ request.host = Host(full)
      BY <2>2, <2>3 DEF Request
    <2> HIDE DEF t, h, left
    <2>6. /\ query \in Seq(Byte)
          /\ UrlDecode(Value(CHOOSE p \in TailsOf(query) : StartsWith(p, InfoHashKey \o <<Equals>>))) = h
          /\ UrlDecode(Value(CHOOSE p \in TailsOf(query) : StartsWith(p, PeerIdKey \o <<Equals>>))) = PeerId
      BY <2>1, QueryAnswers
    <2> HIDE DEF query
    <2>7. /\ \E x \in Seq(Byte) : Path(full) = x \o <<Question>> \o query
                                    /\ \A i \in 1 .. Len(x) : x[i] # Question
          /\ StartsWith(t, Http \o Host(full))
      BY <2>1, <2>4, <2>6, PathOfRequest
    <2>8. PICK x \in Seq(Byte) : Path(full) = x \o <<Question>> \o query
                                   /\ \A i \in 1 .. Len(x) : x[i] # Question
      BY <2>7
    <2>9. ASSUME NEW name
          PROVE  Asked(Path(full), name) =
                   UrlDecode(Value(CHOOSE p \in TailsOf(query) : StartsWith(p, name \o <<Equals>>)))
      <3>1. Asked(x \o <<Question>> \o query, name) =
              UrlDecode(Value(CHOOSE p \in TailsOf(query) : StartsWith(p, name \o <<Equals>>)))
        BY <2>6, <2>8, AskedOfQuery
      <3> HIDE DEF full
      <3> QED BY <2>8, <3>1
    <2>10. Asked(Path(full), InfoHashKey) = h /\ Asked(Path(full), PeerIdKey) = PeerId
      BY <2>6, <2>9
    <2> HIDE DEF full
    <2> QED BY <2>5, <2>7, <2>10 DEF t, h
  <1> QED BY <1>1, WhatIsTold, PTL

----------------------------------------------------------------------------
(* The parts of a reply *)

EmptyLine   == Part("blank")
EntryPart(e) == [entry |-> e]

\* What is in a reply but the empty line.
Others ==
  {[status |-> s] : s \in {"200", "302"}}
    \cup {Part(k) : k \in {"headers", "chunk", "open", "close", "list", "text"}}
    \cup {EntryPart(e) : e \in Entries}

LEMMA PartsDiffer ==
  /\ EmptyLine \notin Others
  /\ \A e : EntryPart(e) # Part("close") /\ EntryPart(e) # Part("open")
  /\ \A e : EntryPart(e).entry = e /\ (IsPeers(EntryPart(e)) <=> e.key = "peers")
  /\ \A k : ~IsPeers(Part(k))
  BY DEF EmptyLine, EntryPart, Others, Part, IsPeers

\* A set of numbers that are not beyond n has a greatest.
LEMMA Greatest ==
  ASSUME NEW n \in Nat, NEW I \in SUBSET (1 .. n), I # {}
  PROVE  Max(I) \in I /\ \A i \in I : Max(I) >= i
  <1> DEFINE T == {n - i : i \in I}
  <1>1. T \subseteq Nat /\ T # {}
    <2>1. \A i \in I : i \in 1 .. n /\ n - i \in Nat
      OBVIOUS
    <2> QED
      BY <2>1
  <1>2. PICK t \in T : \A s \in T : ~(<<s, t>> \in OpToRel(<, Nat))
    BY <1>1, NatLessThanWellFounded, WFMin
  <1>3. \A s \in T : ~(s < t)
    <2> SUFFICES ASSUME NEW s \in T, s < t PROVE FALSE
      OBVIOUS
    <2>1. <<s, t>> \in Nat \X Nat /\ <<s, t>>[1] = s /\ <<s, t>>[2] = t
      BY <1>1
    <2>2. <<s, t>> \in {ss \in Nat \X Nat : ss[1] < ss[2]}
      BY <2>1
    <2> QED
      BY <1>2, <2>2 DEF OpToRel
  <1>4. PICK i \in I : t = n - i
    OBVIOUS
  <1>5. \A j \in I : i >= j
    <2> SUFFICES ASSUME NEW j \in I PROVE i >= j
      OBVIOUS
    <2>1. n - j \in T /\ i \in 1 .. n /\ j \in 1 .. n
      OBVIOUS
    <2>2. ~(n - j < n - i)
      BY <1>3, <1>4, <2>1
    <2> QED
      BY <2>1, <2>2
  <1> QED
    BY <1>5 DEF Max

\* And a least.
LEMMA Least ==
  ASSUME NEW n \in Nat, NEW I \in SUBSET (1 .. n), I # {}
  PROVE  Min(I) \in I /\ \A i \in I : Min(I) =< i
  <1>1. I \subseteq Nat
    OBVIOUS
  <1>2. PICK t \in I : \A s \in I : ~(<<s, t>> \in OpToRel(<, Nat))
    BY <1>1, NatLessThanWellFounded, WFMin
  <1>3. \A s \in I : t =< s
    <2> SUFFICES ASSUME NEW s \in I, ~(t =< s) PROVE FALSE
      OBVIOUS
    <2>1. <<s, t>> \in Nat \X Nat /\ <<s, t>>[1] = s /\ <<s, t>>[2] = t /\ s < t
      BY <1>1
    <2>2. <<s, t>> \in {ss \in Nat \X Nat : ss[1] < ss[2]}
      BY <2>1
    <2> QED
      BY <1>2, <2>2 DEF OpToRel
  <1> QED
    BY <1>3 DEF Min

\* Two sequences after one another: which part of which is where.
LEMMA Concatenation ==
  ASSUME NEW S, NEW s \in Seq(S), NEW t \in Seq(S)
  PROVE  /\ Len(s) \in Nat /\ Len(t) \in Nat
         /\ s \o t \in Seq(S) /\ Len(s \o t) = Len(s) + Len(t)
         /\ \A k \in 1 .. Len(s) : (s \o t)[k] = s[k]
         /\ \A k \in 1 .. Len(t) : (s \o t)[k + Len(s)] = t[k]
  BY ConcatProperties, LenProperties

LEMMA OneOrTwo ==
  /\ \A S : \A x \in S : <<x>> \in Seq(S) /\ Len(<<x>>) = 1 /\ <<x>>[1] = x
  /\ \A S : \A x, y \in S :
       <<x, y>> \in Seq(S) /\ Len(<<x, y>>) = 2 /\ <<x, y>>[1] = x /\ <<x, y>>[2] = y
  OBVIOUS

\* Which parts the Others are.
LEMMA OtherParts ==
  /\ \A s \in {"200", "302"} : [status |-> s] \in Others
  /\ \A k \in {"headers", "chunk", "open", "close", "list", "text"} : Part(k) \in Others
  /\ \A e \in Entries : EntryPart(e) \in Others
  BY DEF Others

\* The body of a reply, and which of its parts is where.
LEMMA BodyShape ==
  ASSUME NEW r \in AllReplies
  PROVE  /\ Body(r) \in Seq(Others) /\ Len(Body(r)) >= 1
         /\ Body(r)[1] # Part("chunk")
         /\ Body(r)[1] = Part("open") => r.body = "dict"
         /\ r.body = "dict" =>
              /\ Len(Body(r)) = Len(r.entries) + 2 /\ Len(r.entries) \in Nat
              /\ Body(r)[1] = Part("open") /\ Body(r)[Len(Body(r))] = Part("close")
              /\ \A k \in 1 .. Len(r.entries) :
                   r.entries[k] \in Entries /\ Body(r)[k + 1] = EntryPart(r.entries[k])
  <1>1. /\ Part("open") # Part("chunk")
        /\ \A k \in {"list", "text"} : Part(k) # Part("chunk") /\ Part(k) # Part("open")
    BY DEF Part
  <1>2. CASE r.body = "dict"
    <2> DEFINE first == <<Part("open")>>
               last == <<Part("close")>>
               middle == [k \in DOMAIN r.entries |-> EntryPart(r.entries[k])]
               front == first \o middle
    <2>1. r.entries \in Seq(Entries)
      BY DEF AllReplies
    <2>2. /\ Len(r.entries) \in Nat /\ DOMAIN r.entries = 1 .. Len(r.entries)
          /\ \A k \in 1 .. Len(r.entries) : r.entries[k] \in Entries
      BY <2>1, LenProperties, ElementOfSeq
    <2>3. /\ first \in Seq(Others) /\ Len(first) = 1 /\ first[1] = Part("open")
          /\ last \in Seq(Others) /\ Len(last) = 1 /\ last[1] = Part("close")
      BY OtherParts, OneOrTwo
    <2>4. middle \in Seq(Others) /\ Len(middle) = Len(r.entries)
            /\ \A k \in 1 .. Len(r.entries) : middle[k] = EntryPart(r.entries[k])
      <3>1. middle \in [1 .. Len(r.entries) -> Others]
        BY <2>2, OtherParts
      <3>2. middle \in Seq(Others)
        BY <2>2, <3>1
      <3>3. DOMAIN middle = 1 .. Len(r.entries) /\ DOMAIN middle = 1 .. Len(middle) /\ Len(middle) \in Nat
        BY <2>2, <3>2, LenProperties
      <3>4. Len(middle) = Len(r.entries)
        BY <2>2, <3>3
      <3> QED
        BY <2>2, <3>2, <3>4
    <2>5. Body(r) = front \o last
      BY <1>2 DEF Body, EntryPart
    <2> HIDE DEF first, middle, last
    <2>6. /\ front \in Seq(Others) /\ Len(front) = Len(r.entries) + 1
          /\ front[1] = Part("open")
          /\ \A k \in 1 .. Len(r.entries) : front[k + 1] = EntryPart(r.entries[k])
      <3>1. /\ Len(first) \in Nat /\ Len(middle) \in Nat
            /\ first \o middle \in Seq(Others) /\ Len(first \o middle) = Len(first) + Len(middle)
            /\ \A k \in 1 .. Len(first) : (first \o middle)[k] = first[k]
            /\ \A k \in 1 .. Len(middle) : (first \o middle)[k + Len(first)] = middle[k]
        <4>1. first \in Seq(Others) /\ middle \in Seq(Others)
          BY <2>3, <2>4
        <4> QED
          BY <4>1, Concatenation
      <3> QED
        BY <2>2, <2>3, <2>4, <3>1
    <2> HIDE DEF front
    <2>7. /\ front \o last \in Seq(Others) /\ Len(front \o last) = Len(r.entries) + 2
          /\ \A k \in 1 .. Len(r.entries) + 1 : (front \o last)[k] = front[k]
          /\ (front \o last)[1 + (Len(r.entries) + 1)] = Part("close")
      <3>1. /\ Len(front) \in Nat /\ Len(last) \in Nat
            /\ front \o last \in Seq(Others) /\ Len(front \o last) = Len(front) + Len(last)
            /\ \A k \in 1 .. Len(front) : (front \o last)[k] = front[k]
            /\ \A k \in 1 .. Len(last) : (front \o last)[k + Len(front)] = last[k]
        <4>1. front \in Seq(Others) /\ last \in Seq(Others)
          BY <2>3, <2>6
        <4> QED
          BY <4>1, Concatenation
      <3> QED
        BY <2>2, <2>3, <2>6, <3>1
    <2>8. Body(r) \in Seq(Others) /\ Len(Body(r)) = Len(r.entries) + 2
      BY <2>5, <2>7
    <2>9. Body(r)[1] = Part("open") /\ Body(r)[Len(Body(r))] = Part("close")
      BY <2>2, <2>5, <2>6, <2>7, <2>8
    <2>10. \A k \in 1 .. Len(r.entries) : Body(r)[k + 1] = EntryPart(r.entries[k])
      BY <2>2, <2>5, <2>6, <2>7
    <2> QED
      BY <1>1, <1>2, <2>2, <2>8, <2>9, <2>10
  <1>3. CASE r.body # "dict"
    <2>1. r.body \in {"list", "text"} /\ Body(r) = <<Part(r.body)>>
      BY <1>3 DEF AllReplies, Body
    <2>2. Part(r.body) \in Others /\ Part(r.body) # Part("chunk") /\ Part(r.body) # Part("open")
      BY <1>1, <2>1, OtherParts
    <2>3. Body(r) \in Seq(Others) /\ Len(Body(r)) = 1 /\ Body(r)[1] = Part(r.body)
      BY <2>1, <2>2, OneOrTwo
    <2> QED
      BY <1>3, <2>2, <2>3
  <1> QED
    BY <1>2, <1>3

\* The text of a reply: the empty line, where there is one, is its third part,
\* and what follows is the body, in a chunk or not.
LEMMA TextShape ==
  ASSUME NEW r \in AllReplies
  PROVE  /\ Text(r) \in Seq(Others \cup {EmptyLine})
         /\ Len(Text(r)) \in Nat /\ Len(Text(r)) >= 3 /\ Text(r)[1] = [status |-> r.status]
         /\ \A k \in 1 .. Len(Text(r)) : Text(r)[k] = EmptyLine <=> (r.complete /\ k = 3)
         /\ r.complete =>
              /\ Len(Text(r)) >= 4
              /\ r.chunked => Text(r)[4] = Part("chunk")
              /\ ~r.chunked => /\ Len(Text(r)) = Len(Body(r)) + 3
                               /\ \A k \in 1 .. Len(Body(r)) : Text(r)[k + 3] = Body(r)[k]
  <1> DEFINE All == Others \cup {EmptyLine}
             H == <<[status |-> r.status], Part("headers")>>
             E == IF r.complete THEN <<Part("blank")>> ELSE << >>
             C == IF r.chunked THEN <<Part("chunk")>> ELSE << >>
             B == Body(r)
             HE == H \o E
             HEC == HE \o C
             HECB == HEC \o B
  <1>1. r.status \in {"200", "302"} /\ r.complete \in BOOLEAN /\ r.chunked \in BOOLEAN
    BY DEF AllReplies
  <1>2. /\ H \in Seq(All) /\ Len(H) = 2 /\ H[1] = [status |-> r.status]
        /\ \A k \in 1 .. 2 : H[k] \in Others
    <2>1. [status |-> r.status] \in Others /\ Part("headers") \in Others
      BY <1>1, OtherParts
    <2> QED
      BY <2>1, OneOrTwo
  <1>3. /\ E \in Seq(All)
        /\ r.complete => Len(E) \in 1 .. 1 /\ E[1] = EmptyLine
        /\ ~r.complete => Len(E) \in 0 .. 0
    <2>1. CASE r.complete
      BY <2>1, OneOrTwo DEF EmptyLine
    <2>2. CASE ~r.complete
      BY <2>2, EmptySeq
    <2> QED
      BY <1>1, <2>1, <2>2
  <1>4. /\ C \in Seq(All) /\ \A k \in 1 .. Len(C) : C[k] \in Others
        /\ r.chunked => Len(C) \in 1 .. 1 /\ C[1] = Part("chunk")
        /\ ~r.chunked => Len(C) \in 0 .. 0
    <2>1. CASE r.chunked
      <3>1. Part("chunk") \in Others /\ Part("chunk") \in All
        BY OtherParts
      <3>2. C = <<Part("chunk")>>
        BY <2>1
      <3> HIDE DEF C
      <3> QED
        BY <2>1, <3>1, <3>2, OneOrTwo
    <2>2. CASE ~r.chunked
      BY <2>2, EmptySeq
    <2> QED
      BY <1>1, <2>1, <2>2
  <1>5. B \in Seq(All) /\ Len(B) \in Nat /\ Len(B) >= 1 /\ \A k \in 1 .. Len(B) : B[k] \in Others
    <2>1. B \in Seq(Others)
      BY BodyShape
    <2>2. B \in Seq(All)
      BY <2>1
    <2> QED
      BY <2>1, <2>2, BodyShape, LenProperties, ElementOfSeq
  <1>6. Text(r) = HECB \o C
    BY DEF Text
  <1> HIDE DEF H, E, C, B, All
  <1>7. /\ HE \in Seq(All) /\ Len(HE) = 2 + Len(E) /\ Len(E) \in Nat
        /\ \A k \in 1 .. 2 : HE[k] = H[k]
        /\ \A k \in 1 .. Len(E) : HE[k + 2] = E[k]
    <2>1. /\ Len(H) \in Nat /\ Len(E) \in Nat
          /\ H \o E \in Seq(All) /\ Len(H \o E) = Len(H) + Len(E)
          /\ \A k \in 1 .. Len(H) : (H \o E)[k] = H[k]
          /\ \A k \in 1 .. Len(E) : (H \o E)[k + Len(H)] = E[k]
      <3>1. H \in Seq(All) /\ E \in Seq(All)
        BY <1>2, <1>3
      <3> QED
        BY <3>1, Concatenation
    <2> QED
      BY <1>2, <2>1
  <1> HIDE DEF HE
  <1>7a. ASSUME r.complete PROVE Len(HE) \in 3 .. 3
    <2> DEFINE e == Len(E)
               he == Len(HE)
    <2>1. e \in 1 .. 1
      BY <1>3, <1>7a
    <2>2. he = 2 + e
      BY <1>7
    <2>3. e = 1
      BY <2>1
    <2> HIDE DEF e, he
    <2>4. he \in 3 .. 3
      BY <2>2, <2>3
    <2> QED
      BY <2>4 DEF he
  <1>8. /\ HEC \in Seq(All) /\ Len(HEC) = Len(HE) + Len(C) /\ Len(C) \in Nat
        /\ \A k \in 1 .. Len(HE) : HEC[k] = HE[k]
        /\ \A k \in 1 .. Len(C) : HEC[k + Len(HE)] = C[k]
    <2>1. /\ Len(HE) \in Nat /\ Len(C) \in Nat
          /\ HE \o C \in Seq(All) /\ Len(HE \o C) = Len(HE) + Len(C)
          /\ \A k \in 1 .. Len(HE) : (HE \o C)[k] = HE[k]
          /\ \A k \in 1 .. Len(C) : (HE \o C)[k + Len(HE)] = C[k]
      <3>1. HE \in Seq(All) /\ C \in Seq(All)
        BY <1>4, <1>7
      <3> QED
        BY <3>1, Concatenation
    <2> QED
      BY <2>1
  <1> HIDE DEF HEC
  <1>9. /\ HECB \in Seq(All) /\ Len(HECB) = Len(HEC) + Len(B)
        /\ \A k \in 1 .. Len(HEC) : HECB[k] = HEC[k]
        /\ \A k \in 1 .. Len(B) : HECB[k + Len(HEC)] = B[k]
    <2>1. /\ Len(HEC) \in Nat /\ Len(B) \in Nat
          /\ HEC \o B \in Seq(All) /\ Len(HEC \o B) = Len(HEC) + Len(B)
          /\ \A k \in 1 .. Len(HEC) : (HEC \o B)[k] = HEC[k]
          /\ \A k \in 1 .. Len(B) : (HEC \o B)[k + Len(HEC)] = B[k]
      <3>1. HEC \in Seq(All) /\ B \in Seq(All)
        BY <1>5, <1>8
      <3> QED
        BY <3>1, Concatenation
    <2> QED
      BY <2>1
  <1> HIDE DEF HECB
  <1>10. /\ HECB \o C \in Seq(All) /\ Len(HECB \o C) = Len(HECB) + Len(C)
         /\ \A k \in 1 .. Len(HECB) : (HECB \o C)[k] = HECB[k]
         /\ \A k \in 1 .. Len(C) : (HECB \o C)[k + Len(HECB)] = C[k]
    <2>1. /\ Len(HECB) \in Nat /\ Len(C) \in Nat
          /\ HECB \o C \in Seq(All) /\ Len(HECB \o C) = Len(HECB) + Len(C)
          /\ \A k \in 1 .. Len(HECB) : (HECB \o C)[k] = HECB[k]
          /\ \A k \in 1 .. Len(C) : (HECB \o C)[k + Len(HECB)] = C[k]
      <3>1. HECB \in Seq(All) /\ C \in Seq(All)
        BY <1>4, <1>9
      <3> QED
        BY <3>1, Concatenation
    <2> QED
      BY <2>1
  <1>11. /\ Len(Text(r)) = Len(HE) + Len(C) + Len(B) + Len(C) /\ Len(HE) \in Nat
         /\ \A k \in 1 .. Len(HE) : Text(r)[k] = HE[k]
         /\ \A k \in 1 .. Len(C) : Text(r)[k + Len(HE)] = C[k]
         /\ \A k \in 1 .. Len(B) : Text(r)[k + (Len(HE) + Len(C))] = B[k]
         /\ \A k \in 1 .. Len(C) : Text(r)[k + (Len(HE) + Len(C) + Len(B))] = C[k]
    <2>1. \A k \in 1 .. Len(HE) : k \in 1 .. Len(HEC) /\ k \in 1 .. Len(HECB)
      BY <1>5, <1>7, <1>8, <1>9
    <2>2. \A k \in 1 .. Len(C) : k + Len(HE) \in 1 .. Len(HEC) /\ k + Len(HE) \in 1 .. Len(HECB)
      BY <1>5, <1>7, <1>8, <1>9
    <2>3. \A k \in 1 .. Len(B) : k + Len(HEC) \in 1 .. Len(HECB)
      BY <1>5, <1>7, <1>8, <1>9
    <2>4. Len(HEC) = Len(HE) + Len(C) /\ Len(HECB) = Len(HE) + Len(C) + Len(B) /\ Len(HE) \in Nat
      BY <1>5, <1>7, <1>8, <1>9
    <2>5. \A k \in 1 .. Len(HE) : Text(r)[k] = HE[k]
      BY <1>6, <1>8, <1>9, <1>10, <2>1
    <2>6. \A k \in 1 .. Len(C) : Text(r)[k + Len(HE)] = C[k]
      BY <1>6, <1>8, <1>9, <1>10, <2>2
    <2>7. \A k \in 1 .. Len(B) : Text(r)[k + (Len(HE) + Len(C))] = B[k]
      BY <1>6, <1>9, <1>10, <2>3, <2>4
    <2>8. \A k \in 1 .. Len(C) : Text(r)[k + (Len(HE) + Len(C) + Len(B))] = C[k]
      BY <1>6, <1>10, <2>4
    <2>9. Len(Text(r)) = Len(HE) + Len(C) + Len(B) + Len(C)
      BY <1>6, <1>10, <2>4
    <2> QED
      BY <2>4, <2>5, <2>6, <2>7, <2>8, <2>9
  <1>12. EmptyLine \notin Others
    BY PartsDiffer
  <1>13. ASSUME NEW k \in 1 .. Len(HE)
         PROVE  Text(r)[k] = EmptyLine <=> (r.complete /\ k = 3)
    <2>1. CASE k \in 1 .. 2
      BY <1>2, <1>7, <1>11, <1>12, <2>1
    <2>2. CASE k = 3 /\ r.complete
      <3>1. HE[1 + 2] = EmptyLine
        BY <1>3, <1>7, <2>2
      <3> QED
        BY <1>11, <2>2, <3>1
    <2> QED
      BY <1>1, <1>3, <1>7, <2>1, <2>2
  <1>14. ASSUME NEW k \in 1 .. Len(Text(r)), k \notin 1 .. Len(HE)
         PROVE  Text(r)[k] # EmptyLine /\ k > Len(HE)
    <2>1. CASE k - Len(HE) \in 1 .. Len(C)
      <3>1. Text(r)[(k - Len(HE)) + Len(HE)] = C[k - Len(HE)]
        BY <1>11, <2>1
      <3> QED
        BY <1>1, <1>4, <1>11, <1>12, <2>1, <3>1
    <2>2. CASE k - (Len(HE) + Len(C)) \in 1 .. Len(B)
      <3>1. Text(r)[(k - (Len(HE) + Len(C))) + (Len(HE) + Len(C))] = B[k - (Len(HE) + Len(C))]
        BY <1>11, <2>2
      <3>2. (k - (Len(HE) + Len(C))) + (Len(HE) + Len(C)) = k
        BY <1>8, <1>11
      <3> QED
        BY <1>5, <1>8, <1>11, <1>12, <2>2, <3>1, <3>2
    <2>3. CASE k - (Len(HE) + Len(C) + Len(B)) \in 1 .. Len(C)
      <3> DEFINE n == Len(HE) + Len(C) + Len(B)
      <3>1. n \in Nat /\ (k - n) + n = k /\ k > Len(HE)
        BY <1>5, <1>8, <1>11, <2>3
      <3>2. Text(r)[(k - n) + n] = C[k - n]
        BY <1>11, <2>3
      <3> QED
        BY <1>4, <1>12, <2>3, <3>1, <3>2
    <2> QED
      BY <1>5, <1>8, <1>11, <1>14, <2>1, <2>2, <2>3
  <1>15. \A k \in 1 .. Len(Text(r)) : Text(r)[k] = EmptyLine <=> (r.complete /\ k = 3)
    <2> SUFFICES ASSUME NEW k \in 1 .. Len(Text(r))
                 PROVE  Text(r)[k] = EmptyLine <=> (r.complete /\ k = 3)
      OBVIOUS
    <2>1. CASE k \in 1 .. Len(HE)
      BY <1>13, <2>1
    <2>2. CASE k \notin 1 .. Len(HE)
      <3>1. Text(r)[k] # EmptyLine /\ k > Len(HE)
        BY <1>14, <2>2
      <3>2. ASSUME r.complete, k = 3 PROVE FALSE
        <4>1. Len(HE) \in 3 .. 3
          BY <1>7a, <3>2
        <4> QED
          BY <3>1, <3>2, <4>1, SMTT(30)
      <3> QED
        BY <1>1, <3>1, <3>2
    <2> QED
      BY <2>1, <2>2
  <1>16. ASSUME r.complete
         PROVE  /\ Len(HE) = 3
                /\ r.chunked => Text(r)[4] = Part("chunk")
                /\ ~r.chunked => /\ Len(Text(r)) = Len(B) + 3
                                 /\ \A k \in 1 .. Len(B) : Text(r)[k + 3] = B[k]
    <2>1. Len(HE) = 3
      BY <1>7a, <1>16
    <2>2. ASSUME r.chunked PROVE Text(r)[4] = Part("chunk")
      <3>1. Text(r)[1 + Len(HE)] = C[1]
        <4>1. 1 \in 1 .. Len(C)
          BY <1>4, <2>2
        <4> QED
          BY <1>11, <4>1
      <3> QED
        BY <1>1, <1>4, <2>1, <2>2, <3>1
    <2>3. ASSUME ~r.chunked
          PROVE  Len(Text(r)) = Len(B) + 3 /\ \A k \in 1 .. Len(B) : Text(r)[k + 3] = B[k]
      <3>1. Len(C) = 0 /\ Len(HE) + Len(C) = 3
        BY <1>1, <1>4, <2>1, <2>3
      <3> QED
        BY <1>5, <1>11, <2>1, <3>1
    <2> QED
      BY <2>1, <2>2, <2>3
  <1>17. Text(r) \in Seq(All) /\ Len(Text(r)) \in Nat /\ Len(Text(r)) >= 3
    BY <1>5, <1>6, <1>7, <1>8, <1>10, <1>11
  <1>18. r.complete => Len(Text(r)) >= 4
    <2> DEFINE he == Len(HE)
               b == Len(B)
               c == Len(C)
    <2>1. ASSUME r.complete PROVE he \in 3 .. 3
      BY <1>7a, <2>1
    <2>2. b \in Nat /\ b >= 1 /\ c \in Nat
      BY <1>5, <1>8
    <2>3. Len(Text(r)) = he + c + b + c
      BY <1>11
    <2> HIDE DEF he, b, c
    <2> QED
      BY <2>1, <2>2, <2>3
  <1>19. Text(r)[1] = [status |-> r.status]
    BY <1>2, <1>7, <1>11
  <1> QED
    BY <1>15, <1>16, <1>17, <1>18, <1>19 DEF All, B

----------------------------------------------------------------------------
(* What the client finds in the parts it has received *)

Sound == reply \in AllReplies /\ received \in 0 .. Len(Text(reply))

LEMMA Responses ==
  ASSUME Sound
  PROVE  /\ received \in Nat /\ Len(Response) = received
         /\ \A k \in 1 .. received : Response[k] = Text(reply)[k]
  <1>1. Text(reply) \in Seq(Others \cup {EmptyLine}) /\ Len(Text(reply)) \in Nat
    BY TextShape DEF Sound
  <1>2. received \in Nat /\ received =< Len(Text(reply))
    BY <1>1 DEF Sound
  <1>3. \A k \in 1 .. received : Text(reply)[k] \in Others \cup {EmptyLine}
    BY <1>1, <1>2, ElementOfSeq
  <1>4. Len(Response) = (IF 1 =< received THEN received - 1 + 1 ELSE 0)
    BY <1>2, <1>3, SubSeqProperties DEF Response
  <1>5. \A k \in 1 .. received - 1 + 1 : Response[k] = Text(reply)[1 + k - 1]
    BY <1>2, <1>3, SubSeqProperties DEF Response
  <1>6. Len(Response) = received
    BY <1>2, <1>4
  <1>7. \A k \in 1 .. received : Response[k] = Text(reply)[k]
    <2> SUFFICES ASSUME NEW k \in 1 .. received PROVE Response[k] = Text(reply)[k]
      OBVIOUS
    <2>1. k \in 1 .. received - 1 + 1 /\ 1 + k - 1 = k
      BY <1>2
    <2> QED
      BY <1>5, <2>1
  <1> QED
    BY <1>2, <1>6, <1>7

\* The end of the headers is found exactly when the empty line has arrived.
LEMMA Headers ==
  ASSUME Sound
  PROVE  /\ HeaderEnd # 0 <=> reply.complete /\ received >= 3
         /\ HeaderEnd # 0 => HeaderEnd = 3
         /\ received >= 1 => Response[1].status = reply.status
  <1> DEFINE I == {i \in 1 .. Len(Response) : Response[i] = EmptyLine}
  <1>1. HeaderEnd = IF I # {} THEN Min(I) ELSE 0
    BY DEF HeaderEnd, SelectInSeq, EmptyLine
  <1>2. /\ received \in Nat /\ I = {i \in 1 .. received : Response[i] = EmptyLine}
        /\ received =< Len(Text(reply)) /\ Len(Text(reply)) \in Nat
        /\ \A k \in 1 .. received : Response[k] = Text(reply)[k]
    BY Responses, TextShape DEF Sound
  <1>3. \A k \in 1 .. received : Text(reply)[k] = EmptyLine <=> (reply.complete /\ k = 3)
    <2>1. \A k \in 1 .. Len(Text(reply)) : Text(reply)[k] = EmptyLine <=> (reply.complete /\ k = 3)
      BY TextShape DEF Sound
    <2> QED
      BY <1>2, <2>1
  <1>4. \A k : k \in I <=> k \in 1 .. received /\ reply.complete /\ k = 3
    BY <1>2, <1>3
  <1>5. I \subseteq 1 .. received
    BY <1>2
  <1>6. I # {} <=> reply.complete /\ received >= 3
    <2>1. ASSUME reply.complete, received >= 3 PROVE 3 \in I
      BY <1>2, <1>4, <2>1
    <2>2. ASSUME NEW k \in I PROVE reply.complete /\ received >= 3
      BY <1>2, <1>4
    <2>3. reply.complete \in BOOLEAN
      BY DEF Sound, AllReplies
    <2> QED
      BY <2>1, <2>2, <2>3
  <1>7. I # {} => Min(I) = 3
    <2>1. I # {} => Min(I) \in I
      BY <1>2, <1>5, Least
    <2> QED
      BY <1>4, <2>1
  <1>8. received >= 1 => Response[1].status = reply.status
    <2>1. Text(reply)[1] = [status |-> reply.status]
      BY TextShape DEF Sound
    <2> QED
      BY <1>2, <2>1
  <1> HIDE DEF I
  <1> QED
    BY <1>1, <1>6, <1>7, <1>8

LEMMA ReceivedBodies ==
  ASSUME Sound, HeaderEnd # 0
  PROVE  /\ received - 3 \in Nat /\ Len(ReceivedBody) = received - 3
         /\ \A k \in 1 .. received - 3 : ReceivedBody[k] = Text(reply)[k + 3]
  <1>1. HeaderEnd = 3 /\ received >= 3 /\ received \in Nat /\ Len(Response) = received
    BY Headers, Responses
  <1>2. \A k \in 1 .. received : Response[k] = Text(reply)[k]
    BY Responses
  <1>3. \A k \in 4 .. received : Response[k] \in {Response[j] : j \in 1 .. received}
    BY <1>1
  <1>4. /\ Len(ReceivedBody) = (IF 4 =< received THEN received - 4 + 1 ELSE 0)
        /\ \A k \in 1 .. received - 4 + 1 : ReceivedBody[k] = Response[4 + k - 1]
    <2>1. ReceivedBody = SubSeq(Response, 4, received)
      BY <1>1 DEF ReceivedBody
    <2> QED
      BY <1>1, <1>3, <2>1, SubSeqProperties
  <1>5. ASSUME NEW k \in 1 .. received - 3 PROVE ReceivedBody[k] = Text(reply)[k + 3]
    <2>1. k \in 1 .. received - 4 + 1 /\ 4 + k - 1 = k + 3 /\ k + 3 \in 1 .. received
      BY <1>1
    <2> QED
      BY <1>2, <1>4, <2>1
  <1>6. Len(ReceivedBody) = received - 3 /\ received - 3 \in Nat
    BY <1>1, <1>4
  <1> QED
    BY <1>5, <1>6

\* A dictionary is only decoded from the whole of a reply.
LEMMA DictionaryIsWhole ==
  ASSUME Sound, HeaderEnd # 0, DictIsThere
  PROVE  /\ reply.body = "dict" /\ received = Len(Text(reply))
         /\ Len(ReceivedBody) = Len(Body(reply))
         /\ \A k \in 1 .. Len(Body(reply)) : ReceivedBody[k] = Body(reply)[k]
  <1> DEFINE n == received - 3
             b == Len(Body(reply))
             l == Len(reply.entries)
  <1>1. /\ n \in Nat /\ Len(ReceivedBody) = n /\ received \in Nat /\ n >= 1
        /\ \A k \in 1 .. n : ReceivedBody[k] = Text(reply)[k + 3]
        /\ received =< Len(Text(reply)) /\ Len(Text(reply)) \in Nat
    <2>1. /\ received - 3 \in Nat /\ Len(ReceivedBody) = received - 3
          /\ \A k \in 1 .. received - 3 : ReceivedBody[k] = Text(reply)[k + 3]
      BY ReceivedBodies
    <2>2. received \in Nat /\ received =< Len(Text(reply)) /\ Len(Text(reply)) \in Nat
      BY TextShape DEF Sound
    <2>3. \E i \in 1 .. Len(ReceivedBody) : ReceivedBody[i] = Part("close")
      BY DEF DictIsThere, Contains
    <2> QED
      BY <2>1, <2>2, <2>3
  <1>2. reply.complete
    BY Headers
  <1>3. ~reply.chunked
    <2>1. ReceivedBody[1] = Text(reply)[4]
      BY <1>1
    <2>2. ReceivedBody[1] = Part("open") /\ Part("open") # Part("chunk")
      BY DEF DictIsThere, Part
    <2> QED
      BY <1>2, <2>1, <2>2, TextShape DEF Sound
  <1>4. /\ Len(Text(reply)) = b + 3 /\ b \in Nat /\ b >= 1
        /\ \A k \in 1 .. b : Text(reply)[k + 3] = Body(reply)[k]
    <2>1. Len(Text(reply)) = b + 3 /\ \A k \in 1 .. b : Text(reply)[k + 3] = Body(reply)[k]
      BY <1>2, <1>3, TextShape DEF Sound
    <2>2. b \in Nat /\ b >= 1
      BY BodyShape, LenProperties DEF Sound
    <2> QED
      BY <2>1, <2>2
  <1> HIDE DEF n, b
  <1>5. n =< b /\ \A k \in 1 .. n : ReceivedBody[k] = Body(reply)[k]
    BY <1>1, <1>4 DEF n
  <1>6. Body(reply)[1] = Part("open") /\ reply.body = "dict"
    <2>1. ReceivedBody[1] = Part("open") /\ ReceivedBody[1] = Body(reply)[1]
      BY <1>1, <1>5 DEF DictIsThere
    <2> QED
      BY <2>1, BodyShape DEF Sound
  <1>7. /\ b = l + 2 /\ l \in Nat
        /\ \A k \in 1 .. l : Body(reply)[k + 1] = EntryPart(reply.entries[k])
    BY <1>6, BodyShape DEF Sound, b
  <1> HIDE DEF l
  <1>8. PICK i \in 1 .. n : ReceivedBody[i] = Part("close")
    BY <1>1 DEF DictIsThere, Contains
  <1>9. Body(reply)[i] = Part("close")
    BY <1>5, <1>8
  <1>10. i # 1
    <2>1. Part("close") # Part("open")
      BY DEF Part
    <2> QED
      BY <1>6, <1>9, <2>1
  <1>11. ~(i - 1 \in 1 .. l)
    <2>1. ASSUME i - 1 \in 1 .. l PROVE FALSE
      <3>1. Body(reply)[(i - 1) + 1] = EntryPart(reply.entries[i - 1])
        BY <1>7, <2>1
      <3>2. (i - 1) + 1 = i
        OBVIOUS
      <3> QED
        BY <1>9, <3>1, <3>2, PartsDiffer
    <2> QED
      BY <2>1
  <1>12. n = b
    BY <1>1, <1>5, <1>7, <1>10, <1>11
  <1>13. received = Len(Text(reply))
    BY <1>1, <1>4, <1>12 DEF n
  <1> QED
    BY <1>1, <1>5, <1>6, <1>12, <1>13 DEF b

\* What is taken for the peers is the value of the last entry with the key.
LEMMA PeersOfDictionary ==
  ASSUME Sound, HeaderEnd # 0, DictIsThere
  PROVE  \/ /\ PeersRaw = -1
            /\ \A k \in DOMAIN reply.entries : reply.entries[k].key # "peers"
         \/ \E k \in DOMAIN reply.entries :
              /\ reply.entries[k].key = "peers" /\ reply.entries[k].string \in BOOLEAN
              /\ reply.entries[k].size \in Nat
              /\ PeersRaw = IF reply.entries[k].string THEN reply.entries[k].size ELSE -1
  <1> DEFINE I == {i \in 1 .. Len(ReceivedBody) : IsPeers(ReceivedBody[i])}
             at == IF I # {} THEN Max(I) ELSE 0
             l == Len(reply.entries)
  <1>1. PeersRaw = IF at # 0 /\ ReceivedBody[at].entry.string
                   THEN ReceivedBody[at].entry.size ELSE -1
    BY DEF PeersRaw, SelectLastInSeq
  <1>2. /\ Len(ReceivedBody) = l + 2 /\ l \in Nat
        /\ \A k \in 1 .. l + 2 : ReceivedBody[k] = Body(reply)[k]
        /\ Body(reply)[1] = Part("open") /\ Body(reply)[l + 2] = Part("close")
        /\ \A k \in 1 .. l : /\ reply.entries[k] \in Entries
                             /\ Body(reply)[k + 1] = EntryPart(reply.entries[k])
    BY DictionaryIsWhole, BodyShape DEF Sound
  <1>3. DOMAIN reply.entries = 1 .. l
    <2>1. reply.entries \in Seq(Entries)
      BY DEF Sound, AllReplies
    <2> QED
      BY <2>1, LenProperties
  <1> HIDE DEF l
  <1>4. ASSUME NEW i \in I
        PROVE  i - 1 \in 1 .. l /\ ReceivedBody[i] = EntryPart(reply.entries[i - 1])
                 /\ reply.entries[i - 1].key = "peers"
    <2>1. i \in 1 .. l + 2 /\ IsPeers(Body(reply)[i]) /\ ReceivedBody[i] = Body(reply)[i]
      BY <1>2
    <2>2. i # 1 /\ i # l + 2
      BY <1>2, <2>1, PartsDiffer
    <2>3. i - 1 \in 1 .. l /\ (i - 1) + 1 = i
      BY <1>2, <2>1, <2>2
    <2>4. Body(reply)[(i - 1) + 1] = EntryPart(reply.entries[i - 1])
      BY <1>2, <2>3
    <2> QED
      BY <2>1, <2>3, <2>4, PartsDiffer
  <1>5. ASSUME NEW k \in 1 .. l, reply.entries[k].key = "peers" PROVE k + 1 \in I
    <2>1. k + 1 \in 1 .. l + 2
      BY <1>2
    <2>2. ReceivedBody[k + 1] = EntryPart(reply.entries[k])
      BY <1>2, <2>1
    <2> QED
      BY <1>2, <1>5, <2>1, <2>2, PartsDiffer
  <1>6. CASE I = {}
    <2>1. PeersRaw = -1
      BY <1>1, <1>6
    <2>2. \A k \in 1 .. l : reply.entries[k].key # "peers"
      BY <1>5, <1>6
    <2> QED
      BY <1>3, <2>1, <2>2
  <1>7. CASE I # {}
    <2>1. at \in I
      <3>1. I \in SUBSET (1 .. l + 2) /\ l + 2 \in Nat
        BY <1>2
      <3>2. Max(I) \in I
        BY <1>7, <3>1, Greatest
      <3> QED
        BY <1>7, <3>2
    <2> DEFINE k == at - 1
    <2>2. k \in 1 .. l /\ ReceivedBody[at] = EntryPart(reply.entries[k]) /\ reply.entries[k].key = "peers"
      BY <1>4, <2>1
    <2>3. at # 0
      BY <1>2, <2>1
    <2>4. ReceivedBody[at].entry = reply.entries[k]
      BY <2>2, PartsDiffer
    <2> HIDE DEF at, I
    <2>5. PeersRaw = IF reply.entries[k].string THEN reply.entries[k].size ELSE -1
      BY <1>1, <2>3, <2>4
    <2>6. reply.entries[k].string \in BOOLEAN /\ reply.entries[k].size \in Nat
      BY <1>2, <2>2 DEF Entries
    <2> QED
      BY <1>3, <2>2, <2>5, <2>6
  <1> QED
    BY <1>6, <1>7

----------------------------------------------------------------------------
(* The invariant *)

\* Nothing is received that was not sent; once the client has stopped to
\* receive, it has all that will ever come, and the connection is over.
Received ==
  /\ reply \in AllReplies
  /\ onWire \in 0 .. Len(Text(reply)) /\ received \in 0 .. onWire
  /\ pc \in {"link", "url", "connect"} => conn = "none"
  /\ pc \in {"parse", "decode", "done"} =>
       conn \in {"finished", "reset"} /\ received = onWire
  /\ pc \in {"link", "url", "connect", "send"} => onWire = 0
  /\ pc = "decode" => reply.complete /\ received >= 3

ReplyInv == Received /\ PeersAreComplete /\ ErrorsHaveACause

LEMMA ReceivedIsSound ==
  ASSUME Received
  PROVE  Sound /\ onWire \in Nat /\ received \in Nat /\ Len(Text(reply)) \in Nat
           /\ received =< onWire /\ onWire =< Len(Text(reply))
  BY TextShape DEF Received, Sound

LEMMA InitReplyInv == Init => ReplyInv
  <1> SUFFICES ASSUME Init PROVE ReplyInv
    OBVIOUS
  <1>1. reply \in AllReplies
    BY AnnounceAssumption DEF Init
  <1>2. Len(Text(reply)) \in Nat
    BY <1>1, TextShape
  <1>3. onWire = 0 /\ received = 0 /\ pc = "link" /\ conn = "none"
    BY DEF Init
  <1>4. onWire \in 0 .. Len(Text(reply)) /\ received \in 0 .. onWire
    BY <1>2, <1>3
  <1> QED
    BY <1>1, <1>3, <1>4 DEF ReplyInv, Received, PeersAreComplete, ErrorsHaveACause

\* Steps that leave the reply and what was received of it alone, and end
\* before the connection or with a reset one.
LEMMA RequestSteps ==
  ASSUME ReplyInv, ReadLink \/ TakeTorrent \/ BuildRequest \/ Connect \/ ConnectFails \/ SendRequest
  PROVE  ReplyInv'
  <1>1. /\ UNCHANGED <<reply, onWire, received>> /\ pc' # "decode" /\ pc' # "done" /\ pc' # "parse"
        /\ pc' = "failed" => conn' # "finished"
    BY DEF ReadLink, TakeTorrent, BuildRequest, Connect, ConnectFails, SendRequest, Throw,
           ReplyInv, Received, asked, server
  <1>2. /\ pc' \in {"link", "url", "connect"} => conn' = "none"
        /\ pc' \in {"link", "url", "connect", "send"} => onWire' = 0
    BY DEF ReadLink, TakeTorrent, BuildRequest, Connect, ConnectFails, SendRequest, Throw,
           ReplyInv, Received, asked, server
  <1>3. Received'
    BY <1>1, <1>2 DEF ReplyInv, Received
  <1> QED
    BY <1>1, <1>3 DEF ReplyInv, PeersAreComplete, ErrorsHaveACause

LEMMA ReceiveSteps ==
  ASSUME ReplyInv, Receive \/ ReceiveEnd \/ ReceiveFails
  PROVE  ReplyInv'
  <1>1. Sound /\ onWire \in Nat /\ received \in Nat
    BY ReceivedIsSound DEF ReplyInv
  <1>2. CASE Receive
    <2>1. received' \in 0 .. onWire /\ UNCHANGED <<reply, onWire, conn, pc>> /\ pc = "recv"
      BY <1>1, <1>2 DEF Receive, asked, server
    <2>2. Received'
      BY <2>1 DEF ReplyInv, Received
    <2> QED
      BY <2>1, <2>2 DEF ReplyInv, PeersAreComplete, ErrorsHaveACause
  <1>3. CASE ReceiveEnd
    <2>1. UNCHANGED <<reply, onWire, conn, received>> /\ pc' = "parse"
            /\ conn = "finished" /\ received = onWire
      BY <1>3 DEF ReceiveEnd, asked, server
    <2>2. Received'
      BY <2>1 DEF ReplyInv, Received
    <2> QED
      BY <2>1, <2>2 DEF ReplyInv, PeersAreComplete, ErrorsHaveACause
  <1>4. CASE ReceiveFails
    <2>1. UNCHANGED <<reply, onWire, conn, received>> /\ pc' = "failed" /\ conn = "reset"
      BY <1>4 DEF ReceiveFails, Throw, asked, server
    <2>2. Received'
      BY <2>1 DEF ReplyInv, Received
    <2> QED
      BY <2>1, <2>2 DEF ReplyInv, PeersAreComplete, ErrorsHaveACause
  <1> QED
    BY <1>2, <1>3, <1>4

LEMMA ParseStep ==
  ASSUME ReplyInv, ParseResponse
  PROVE  ReplyInv'
  <1>1. Sound /\ onWire \in Nat /\ received \in Nat /\ received = onWire /\ conn \in {"finished", "reset"}
    BY ReceivedIsSound DEF ReplyInv, Received, ParseResponse
  <1>2. UNCHANGED <<reply, onWire, conn, received>> /\ pc' \in {"decode", "failed"}
    BY DEF ParseResponse, Throw, asked, server
  <1>3. pc' = "decode" => reply.complete /\ received >= 3
    <2>1. pc' = "decode" => HeaderEnd # 0
      BY DEF ParseResponse, Throw
    <2> QED
      BY <1>1, <2>1, Headers
  <1>4. Received'
    BY <1>1, <1>2, <1>3 DEF ReplyInv, Received
  <1>5. pc' = "failed" => ~Whole \/ ~Plain
    <2> SUFFICES ASSUME pc' = "failed", Whole, Plain PROVE FALSE
      OBVIOUS
    <2>1. reply.complete /\ reply.status = "200" /\ received = Len(Text(reply))
      BY <1>1 DEF Whole, Plain
    <2>2. received >= 3
      <3>1. Len(Text(reply)) >= 3
        BY <1>1, TextShape DEF Sound
      <3> QED BY <2>1, <3>1
    <2>3. HeaderEnd # 0 /\ Response[1].status = "200"
      BY <1>1, <2>1, <2>2, Headers
    <2> QED
      BY <2>3 DEF ParseResponse
  <1>6. (Whole' <=> Whole) /\ (Plain' <=> Plain)
    BY <1>2 DEF Whole, Plain
  <1>7. ErrorsHaveACause'
    BY <1>5, <1>6 DEF ErrorsHaveACause
  <1> QED
    BY <1>2, <1>4, <1>7 DEF ReplyInv, PeersAreComplete

LEMMA TakeStep ==
  ASSUME ReplyInv, TakePeers
  PROVE  ReplyInv'
  <1>1. Sound /\ received = onWire /\ conn \in {"finished", "reset"} /\ HeaderEnd # 0
    BY ReceivedIsSound, Headers DEF ReplyInv, Received, TakePeers
  <1>2. UNCHANGED <<reply, onWire, conn, received>> /\ pc' \in {"done", "failed"}
    BY DEF TakePeers, Throw, asked, server
  <1>3. Received'
    BY <1>1, <1>2 DEF ReplyInv, Received
  <1>4. PeersAreComplete'
    <2> SUFFICES ASSUME pc' = "done" PROVE PeersAreComplete'
      BY DEF PeersAreComplete
    <2>1. DictIsThere /\ PeersRaw # -1 /\ PeersRaw % 6 = 0 /\ peers' = PeersRaw \div 6
      BY DEF TakePeers, Throw
    <2>2. received = Len(Text(reply))
      BY <1>1, <2>1, DictionaryIsWhole
    <2>3. PICK k \in DOMAIN reply.entries :
            /\ reply.entries[k].key = "peers" /\ reply.entries[k].string \in BOOLEAN
            /\ reply.entries[k].size \in Nat
            /\ PeersRaw = IF reply.entries[k].string THEN reply.entries[k].size ELSE -1
      BY <1>1, <2>1, PeersOfDictionary
    <2>4. reply.entries[k].string /\ PeersRaw = reply.entries[k].size /\ PeersRaw \in Nat
      BY <2>1, <2>3
    <2>5. PeersRaw = 6 * (PeersRaw \div 6)
      BY <2>1, <2>4
    <2> QED
      BY <1>2, <2>1, <2>2, <2>3, <2>4, <2>5 DEF PeersAreComplete
  <1>5. ErrorsHaveACause'
    <2> SUFFICES ASSUME pc' = "failed", Whole, Plain,
                        \A k \in DOMAIN reply.entries : reply.entries[k].key = "peers" =>
                          reply.entries[k].string /\ ~(reply.entries[k].size % 6 # 0)
                 PROVE  \A k \in DOMAIN reply.entries : reply.entries[k].key # "peers"
      BY <1>2 DEF ErrorsHaveACause, Whole, Plain
    <2>1. DictIsThere
      <3>1. received = Len(Text(reply)) /\ reply.complete /\ ~reply.chunked /\ reply.body = "dict"
        BY <1>1 DEF Whole, Plain
      <3>2. /\ Len(ReceivedBody) = received - 3
            /\ \A k \in 1 .. received - 3 : ReceivedBody[k] = Text(reply)[k + 3]
        BY <1>1, ReceivedBodies
      <3> DEFINE b == Len(Body(reply))
      <3>3. Len(Text(reply)) = b + 3 /\ \A k \in 1 .. b : Text(reply)[k + 3] = Body(reply)[k]
        BY <1>1, <3>1, TextShape DEF Sound
      <3>4. b \in Nat /\ b >= 1
        BY BodyShape, LenProperties, <1>1 DEF Sound
      <3>5. Body(reply)[1] = Part("open") /\ Body(reply)[b] = Part("close")
        BY <3>1, BodyShape, <1>1 DEF Sound
      <3> HIDE DEF b
      <3>6. Len(ReceivedBody) = b /\ \A k \in 1 .. b : ReceivedBody[k] = Body(reply)[k]
        BY <3>1, <3>2, <3>3, <3>4
      <3>7. ReceivedBody # << >>
        BY <3>4, <3>6, EmptySeq
      <3> QED
        BY <3>4, <3>5, <3>6, <3>7 DEF DictIsThere, Contains
    <2>2. PeersRaw = -1 \/ PeersRaw % 6 # 0
      BY <2>1 DEF TakePeers
    <2> QED
      BY <1>1, <2>1, <2>2, PeersOfDictionary
  <1> QED
    BY <1>3, <1>4, <1>5 DEF ReplyInv

LEMMA ServerSteps ==
  ASSUME ReplyInv, pc \notin Terminal, ServerSends \/ ServerCloses \/ ServerResets
  PROVE  ReplyInv'
  <1>1. /\ Sound /\ onWire \in Nat /\ received \in Nat /\ Len(Text(reply)) \in Nat
        /\ received =< onWire /\ onWire =< Len(Text(reply))
    BY ReceivedIsSound DEF ReplyInv
  <1>2. UNCHANGED <<reply, pc, received>> /\ conn # "none" /\ conn' # "none"
    BY DEF ServerSends, ServerCloses, ServerResets, asked
  <1>3. pc # "done" /\ pc # "failed"
    BY DEF Terminal
  <1>4. onWire' \in 0 .. Len(Text(reply)) /\ received \in 0 .. onWire'
    BY <1>1 DEF ServerSends, ServerCloses, ServerResets, Whole
  <1>5. pc \in {"parse", "decode"} => conn' \in {"finished", "reset"} /\ received = onWire'
    BY DEF ReplyInv, Received, ServerSends, ServerCloses, ServerResets
  <1>6. pc = "send" => onWire' = 0
    BY <1>1 DEF ReplyInv, Received, ServerSends, ServerCloses, ServerResets
  <1>7. Received'
    BY <1>2, <1>3, <1>4, <1>5, <1>6 DEF ReplyInv, Received
  <1> QED
    BY <1>2, <1>3, <1>7 DEF ReplyInv, PeersAreComplete, ErrorsHaveACause

LEMMA StutterSteps == ASSUME ReplyInv, UNCHANGED vars PROVE ReplyInv'
  BY DEF ReplyInv, Received, PeersAreComplete, ErrorsHaveACause, vars, server, asked, Whole, Plain

\* For every tracker, reply and behaviour of the connection.
THEOREM Invariant == Spec => []ReplyInv
  <1>1. Init => ReplyInv
    BY InitReplyInv
  <1>2. ReplyInv /\ [Next]_vars => ReplyInv'
    <2> SUFFICES ASSUME ReplyInv, [Next]_vars PROVE ReplyInv'
      OBVIOUS
    <2>1. CASE Client
      BY <2>1, RequestSteps, ReceiveSteps, ParseStep, TakeStep DEF Client
    <2>2. CASE pc \notin Terminal /\ (ServerSends \/ ServerCloses \/ ServerResets)
      BY <2>2, ServerSteps
    <2>3. CASE Stopped
      BY <2>3, StutterSteps DEF Stopped
    <2>4. CASE UNCHANGED vars
      BY <2>4, StutterSteps
    <2> QED
      BY <2>1, <2>2, <2>3, <2>4 DEF Next
  <1> QED
    BY <1>1, <1>2, PTL DEF Spec

\* A list of peers that announce returns is the whole list of the tracker, at
\* whatever moment and in whatever way the tracker ends the connection.
THEOREM CompletePeers == Spec => []PeersAreComplete
  BY Invariant, PTL DEF ReplyInv

\* A sound reply over a sound connection is never refused.
THEOREM CausedErrors == Spec => []ErrorsHaveACause
  BY Invariant, PTL DEF ReplyInv

=============================================================================
