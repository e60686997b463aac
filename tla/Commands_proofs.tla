--------------------------- MODULE Commands_proofs ---------------------------
(***************************************************************************)
(* Theorems about Commands, for every set of command lines, torrents and   *)
(* swarms, every set of keys and every width of hashes, blocks and         *)
(* integers.                                                               *)
(***************************************************************************)
EXTENDS Commands, SequenceTheorems, FiniteSetTheorems, WellFoundedInduction, TLAPS

----------------------------------------------------------------------------
(* Least and greatest numbers *)

\* A set of numbers that is not empty has a least element.
LEMMA LeastOf ==
  ASSUME NEW I \in SUBSET Nat, I # {}
  PROVE  \E i \in I : \A j \in I : i <= j
  <1>1. PICK t \in I : \A s \in I : ~(<<s, t>> \in OpToRel(<, Nat))
    BY NatLessThanWellFounded, WFMin
  <1>2. ASSUME NEW s \in I, ~(t <= s) PROVE FALSE
    <2>1. <<s, t>> \in Nat \X Nat /\ <<s, t>>[1] = s /\ <<s, t>>[2] = t /\ s < t
      BY <1>2
    <2>2. <<s, t>> \in {ss \in Nat \X Nat : ss[1] < ss[2]}
      BY <2>1
    <2> QED
      BY <1>1, <2>2 DEF OpToRel
  <1> QED
    BY <1>2

\* So has one that is bounded a greatest, which Max chooses.
LEMMA GreatestOf ==
  ASSUME NEW n \in Nat, NEW I \in SUBSET (1 .. n), I # {}
  PROVE  Max(I) \in I
  <1> DEFINE T == {n - i : i \in I}
  <1>1. \A i \in I : i \in 1 .. n /\ n - i \in Nat
    OBVIOUS
  <1>2. T \in SUBSET Nat /\ T # {}
    BY <1>1
  <1>3. PICK t \in T : \A s \in T : t <= s
    BY <1>2, LeastOf
  <1>4. PICK i \in I : t = n - i
    BY <1>3
  <1>5. \A j \in I : i >= j
    <2> TAKE j \in I
    <2>1. n - j \in T
      OBVIOUS
    <2>2. n - i <= n - j
      BY <1>3, <1>4, <2>1
    <2> QED
      BY <1>1, <2>2
  <1> QED
    BY <1>5 DEF Max

----------------------------------------------------------------------------
(* Dictionaries *)

\* A key of the instance has a rank.
LEMMA RankOf ==
  ASSUME NEW key \in Keys
  PROVE  Rank(key) \in Nat /\ KeyOrder[Rank(key)] = key
  <1>1. \E k \in DOMAIN KeyOrder : KeyOrder[k] = key
    BY DEF Keys
  <1>2. Rank(key) \in DOMAIN KeyOrder /\ KeyOrder[Rank(key)] = key
    BY <1>1 DEF Rank
  <1>3. DOMAIN KeyOrder \subseteq Nat
    BY MetainfoAssumption
  <1> QED
    BY <1>2, <1>3

\* What an entry holds, by its type.
LEMMA EntryValue ==
  ASSUME NEW e \in Entries
  PROVE  /\ e.key \in Keys
         /\ e.type = "integer" => e.value \in Int
         /\ e.type = "string" => e.value \in Seq(Nat)
         /\ e.type = "dict" => e.value \in Seq(InfoEntries)
  <1>1. << >> \in Seq(InfoEntries)
    OBVIOUS
  <1> QED
    BY <1>1 DEF Entries, InfoEntries

\* LastOf finds an entry with the key.
LEMMA LastIsNamed ==
  ASSUME NEW dict \in Seq(Entries), NEW key, Named(dict, key) # {}
  PROVE  \E k \in Named(dict, key) : LastOf(dict, key) = dict[k].value
  <1> DEFINE I == {i \in 1 .. Len(dict) : dict[i].key = key}
  <1>1. I = Named(dict, key)
    BY DEF Named
  <1>2. Len(dict) \in Nat /\ I \in SUBSET (1 .. Len(dict)) /\ I # {}
    BY <1>1
  <1>3. Max(I) \in I
    BY <1>2, GreatestOf
  <1>4. SelectLastInSeq(dict, LAMBDA e : e.key = key) = Max(I)
    BY <1>2 DEF SelectLastInSeq
  <1>5. LastOf(dict, key) = dict[Max(I)].value
    BY <1>4 DEF LastOf
  <1> QED
    BY <1>1, <1>3, <1>5

\* Of a key that is given with a type, LastOf has a value of that type.
LEMMA LastGiven ==
  ASSUME NEW dict \in Seq(Entries), NEW key, NEW type, Given(dict, key, type)
  PROVE  /\ type = "integer" => LastOf(dict, key) \in Int
         /\ type = "dict" => LastOf(dict, key) \in Seq(InfoEntries)
  <1>1. Named(dict, key) # {} /\ \A k \in Named(dict, key) : dict[k].type = type
    BY DEF Given
  <1>2. PICK k \in Named(dict, key) : LastOf(dict, key) = dict[k].value
    BY <1>1, LastIsNamed
  <1>3. dict[k] \in Entries /\ dict[k].type = type
    BY <1>1 DEF Named
  <1> QED
    BY <1>2, <1>3, EntryValue

\* An info dictionary whose keys are in order is the one encode writes.
LEMMA SortedInOrder ==
  ASSUME NEW s \in Seq(InfoEntries),
         \A i, j \in DOMAIN s : i < j => Rank(s[i].key) < Rank(s[j].key)
  PROVE  Sorted(s) = s
  <1> DEFINE n == Len(s)
  <1>1. n \in Nat /\ DOMAIN s = 1 .. n
    OBVIOUS
  <1>2. \A i \in DOMAIN s : s[i].key \in Keys
    BY EntryValue DEF Entries
  <1>3. \A i \in DOMAIN s : Rank(s[i].key) \in Nat
    BY <1>2, RankOf
  <1>4. ASSUME NEW k \in DOMAIN s PROVE Place(s, k) = k
    <2> DEFINE J == {j \in DOMAIN s : \/ Rank(s[j].key) < Rank(s[k].key)
                                      \/ s[j].key = s[k].key /\ j <= k}
    <2>1. k \in 1 .. n /\ k \in Nat
      BY <1>1, <1>4
    <2>2. ASSUME NEW j \in DOMAIN s PROVE j \in J <=> j <= k
      <3>1. j \in Nat /\ Rank(s[j].key) \in Nat /\ Rank(s[k].key) \in Nat
        BY <1>1, <1>3, <1>4, <2>2
      <3>2. CASE j <= k
        <4>1. CASE j = k
          BY <4>1, <2>1, <2>2
        <4>2. CASE j < k
          BY <4>2, <2>2, <1>4
        <4> QED BY <3>1, <3>2, <4>1, <4>2, <2>1
      <3>3. CASE k < j
        <4>1. Rank(s[k].key) < Rank(s[j].key)
          BY <3>3, <2>2, <1>4
        <4>2. s[j].key # s[k].key
          BY <4>1, <3>1
        <4> QED BY <3>3, <3>1, <2>1, <4>1, <4>2
      <3> QED BY <3>1, <3>2, <3>3, <2>1
    <2>3. J = 1 .. k
      <3>1. \A j \in 1 .. k : j \in DOMAIN s /\ j <= k
        BY <1>1, <2>1
      <3>2. \A j \in J : j \in DOMAIN s /\ j <= k
        BY <2>2
      <3>3. \A j \in J : j \in 1 .. k
        BY <1>1, <2>1, <3>2
      <3> HIDE DEF J
      <3> QED BY <2>2, <3>1, <3>3
    <2>4. Cardinality(1 .. k) = k
      BY <2>1, FS_Interval
    <2> QED
      BY <2>3, <2>4 DEF Place
  <1> DEFINE At(i) == CHOOSE k \in DOMAIN s : Place(s, k) = i
  <1>5. \A i \in DOMAIN s : At(i) = i
    BY <1>4
  <1>6. Sorted(s) = [i \in DOMAIN s |-> s[At(i)]]
    BY DEF Sorted
  <1> HIDE DEF At
  <1> QED
    BY <1>1, <1>5, <1>6

\* Sequences one after the other are a sequence.  The lengths for which they
\* are not have no least.
LEMMA FlattenIsSeq ==
  ASSUME NEW S, NEW seqs \in Seq(Seq(S))
  PROVE  FlattenSeq(seqs) \in Seq(S)
  <1> DEFINE n == Len(seqs)
             Step(f) == [i \in 1 .. n |-> IF i = 1 THEN seqs[i] ELSE f[i - 1] \o seqs[i]]
             Upto(m, f) == \A i \in 1 .. m :
                             f[i] = IF i = 1 THEN seqs[i] ELSE f[i - 1] \o seqs[i]
             F == CHOOSE f : f = Step(f)
  <1>1. n \in Nat
    OBVIOUS
  <1>2. CASE n = 0
    <2>1. seqs = << >>
      BY <1>2, EmptySeq
    <2> QED
      BY <1>2, <2>1 DEF FlattenSeq
  <1>3. CASE n # 0
    <2>1. FlattenSeq(seqs) = F[n]
      BY <1>3 DEF FlattenSeq
    <2>2. \A m \in 0 .. n : \E f \in [1 .. n -> Seq(S)] : Upto(m, f)
      <3> DEFINE Bad == {m \in 0 .. n : ~ \E f \in [1 .. n -> Seq(S)] : Upto(m, f)}
      <3> SUFFICES ASSUME Bad # {} PROVE FALSE
        OBVIOUS
      <3>1. Bad \in SUBSET Nat
        BY <1>1
      <3>2. PICK m \in Bad : \A k \in Bad : m <= k
        BY <3>1, LeastOf
      <3>3. m # 0
        <4>1. [i \in 1 .. n |-> << >>] \in [1 .. n -> Seq(S)]
          OBVIOUS
        <4>2. ASSUME m = 0 PROVE \A f : Upto(m, f)
          BY <4>2
        <4> QED BY <4>1, <4>2
      <3>4. m \in 1 .. n /\ m - 1 \in 0 .. n /\ m - 1 \notin Bad
        <4>1. m \in 0 .. n /\ n \in Nat
          BY <3>2, <1>1
        <4>2. m \in 1 .. n /\ m - 1 \in 0 .. n /\ ~(m <= m - 1)
          BY <3>3, <4>1
        <4> QED BY <3>2, <4>2
      <3>5. PICK f \in [1 .. n -> Seq(S)] : Upto(m - 1, f)
        BY <3>4
      <3> DEFINE g == [f EXCEPT ![m] = IF m = 1 THEN seqs[m] ELSE f[m - 1] \o seqs[m]]
      <3>6. seqs[m] \in Seq(S) /\ (m # 1 => f[m - 1] \in Seq(S))
        <4>1. m \in 1 .. n /\ (m # 1 => m - 1 \in 1 .. n)
          BY <3>4, <1>1
        <4>2. seqs[m] \in Seq(S)
          BY <4>1, ElementOfSeq
        <4>3. m # 1 => f[m - 1] \in Seq(S)
          BY <4>1, <3>5
        <4> QED BY <4>2, <4>3
      <3>7. g \in [1 .. n -> Seq(S)]
        BY <3>6
      <3>8. ASSUME NEW i \in 1 .. m
            PROVE  g[i] = IF i = 1 THEN seqs[i] ELSE g[i - 1] \o seqs[i]
        <4>1. CASE i = m
          <5>1. i # 1 => i - 1 \in 1 .. n /\ i - 1 # m
            BY <3>4, <4>1
          <5> QED BY <3>4, <4>1, <5>1
        <4>2. CASE i # m
          <5>1. i \in 1 .. m - 1 /\ i \in 1 .. n /\ (i # 1 => i - 1 \in 1 .. n /\ i - 1 # m)
            BY <3>4, <4>2
          <5> QED BY <3>5, <5>1, <4>2
        <4> QED BY <4>1, <4>2
      <3>9. Upto(m, g)
        BY <3>8
      <3> HIDE DEF g, Upto
      <3> QED BY <3>2, <3>7, <3>9
    <2>3. PICK f \in [1 .. n -> Seq(S)] : Upto(n, f)
      <3>1. n \in 0 .. n
        BY <1>1
      <3> HIDE DEF Upto
      <3> QED BY <2>2, <3>1
    <2>4. f = Step(f)
      BY <2>3
    <2>5. F = Step(F)
      <3> HIDE DEF Step
      <3> QED BY <2>4
    <2>6. \A i \in 1 .. n : F[i] = IF i = 1 THEN seqs[i] ELSE F[i - 1] \o seqs[i]
      BY <2>5
    <2> HIDE DEF F
    <2> DEFINE Bad == {m \in 1 .. n : F[m] \notin Seq(S)}
    <2>7. Bad = {}
      <3> SUFFICES ASSUME Bad # {} PROVE FALSE
        OBVIOUS
      <3>1. Bad \in SUBSET Nat
        OBVIOUS
      <3>2. PICK m \in Bad : \A k \in Bad : m <= k
        BY <3>1, LeastOf
      <3>3. m \in 1 .. n /\ F[m] = IF m = 1 THEN seqs[m] ELSE F[m - 1] \o seqs[m]
        BY <2>6
      <3>4. m # 1 => F[m - 1] \in Seq(S)
        <4>1. m # 1 => m - 1 \in 1 .. n /\ m - 1 \notin Bad
          BY <3>2, <3>3
        <4> QED BY <4>1
      <3>5. seqs[m] \in Seq(S)
        BY <3>3
      <3>6. F[m] \in Seq(S)
        BY <3>3, <3>4, <3>5
      <3> QED BY <3>6
    <2> QED
      BY <1>1, <1>3, <2>1, <2>7
  <1> QED BY <1>2, <1>3

\* Entries of the info dictionary are entries.
LEMMA InfoIsDict == Seq(InfoEntries) \subseteq Seq(Entries)
  <1> SUFFICES ASSUME NEW s \in Seq(InfoEntries) PROVE s \in Seq(Entries)
    OBVIOUS
  <1>1. \A i \in 1 .. Len(s) : s[i] \in Entries
    BY ElementOfSeq DEF Entries
  <1> QED
    BY <1>1

\* The hashes of an info dictionary that passes are counted.
LEMMA HashCount ==
  ASSUME NEW info \in Seq(InfoEntries), InfoIsRead(info)
  PROVE  Len(PieceHashes(info)) \in Nat
  <1> DEFINE seqs == [k \in DOMAIN info |->
                        IF info[k].key = "pieces" THEN info[k].value ELSE << >>]
             raw  == FlattenSeq(seqs)
  <1>1. ASSUME NEW k \in 1 .. Len(info) PROVE seqs[k] \in Seq(Nat)
    <2>1. info[k] \in Entries
      BY ElementOfSeq DEF Entries
    <2>2. CASE info[k].key = "pieces"
      <3>1. info[k].type = "string"
        <4>1. Given(info, "pieces", "string")
          BY DEF InfoIsRead
        <4> QED BY <2>2, <4>1 DEF Given, Named
      <3> QED BY <2>1, <2>2, <3>1, EntryValue
    <2>3. CASE info[k].key # "pieces"
      BY <2>3
    <2> QED BY <2>2, <2>3
  <1>2. seqs \in Seq(Seq(Nat))
    <2>1. DOMAIN seqs = 1 .. Len(info) /\ Len(info) \in Nat
      OBVIOUS
    <2> QED BY <1>1, <2>1
  <1> HIDE DEF seqs
  <1>3. Len(raw) \in Nat
    BY <1>2, FlattenIsSeq
  <1> DEFINE n == Len(raw) \div HashSize
  <1>4. n \in Nat
    <2> HIDE DEF raw
    <2> QED BY <1>3, MetainfoAssumption
  <1>5. PieceHashes(info) = [p \in 1 .. n |-> SubSeq(raw, (p - 1) * HashSize + 1, p * HashSize)]
    BY DEF PieceHashes, seqs
  <1> HIDE DEF n, raw
  <1>6. Len([p \in 1 .. n |-> SubSeq(raw, (p - 1) * HashSize + 1, p * HashSize)]) = n
    BY <1>4
  <1> QED
    BY <1>4, <1>5, <1>6

----------------------------------------------------------------------------
(* What the handlers know of the torrent *)

\* A torrent that was read: its sizes, and the hash of what it spells.
Known ==
  /\ metainfo.infoHash = InfoHash(Info)
  /\ metainfo.length \in Int /\ metainfo.pieceLength \in Int
  /\ PieceCount \in Nat /\ PieceCount <= Int32Max

\* What from_info_dict makes of an info dictionary that passes.
LEMMA FromInfo ==
  ASSUME NEW info \in Seq(InfoEntries), InfoIsRead(info)
  PROVE  /\ FromInfoDict(info) # Unknown
         /\ FromInfoDict(info).infoHash = InfoHash(info)
         /\ FromInfoDict(info).length \in Int
         /\ FromInfoDict(info).pieceLength \in Int
         /\ Len(FromInfoDict(info).hashes) \in Nat
         /\ FromInfoDict(info).hashes = PieceHashes(info)
         /\ DOMAIN FromInfoDict(info) = {"announce", "length", "infoHash", "pieceLength", "hashes"}
  <1>1. info \in Seq(Entries)
    BY InfoIsDict
  <1> DEFINE a == LastOf(info, "length")
             b == LastOf(info, "piece length")
  <1>2. a \in Int /\ b \in Int
    BY <1>1, LastGiven DEF InfoIsRead
  <1>3. Len(PieceHashes(info)) \in Nat
    BY HashCount
  <1>4. FromInfoDict(info) = [announce |-> << >>, length |-> a, infoHash |-> InfoHash(info),
                               pieceLength |-> b, hashes |-> PieceHashes(info)]
    BY DEF FromInfoDict
  <1> HIDE DEF a, b
  <1>5. DOMAIN FromInfoDict(info) = {"announce", "length", "infoHash", "pieceLength", "hashes"}
    BY <1>4
  <1>6. DOMAIN Unknown = {"infoHash"}
    BY DEF Unknown
  <1> QED
    BY <1>2, <1>3, <1>4, <1>5, <1>6

\* The dictionary of the torrent and its info dictionary are well typed.
LEMMA InfoTyped ==
  ASSUME torrent \in Torrents
  PROVE  /\ torrent.dict \in Seq(Entries) /\ Info \in Seq(InfoEntries)
         /\ InfoIsRead(Info) => Len(PieceHashes(Info)) <= Int32Max
  <1>1. torrent.dict \in Seq(Entries)
    BY CommandsAssumption DEF AllTorrents
  <1>2. << >> \in Seq(InfoEntries)
    OBVIOUS
  <1>3. Info \in Seq(InfoEntries)
    BY <1>1, <1>2, LastGiven DEF Info, InfoIn
  <1>4. InfoIsRead(Info) => Len(PieceHashes(Info)) <= Int32Max
    BY CommandsAssumption DEF Info
  <1> QED
    BY <1>1, <1>3, <1>4

\* A link's metadata, and a file that extract accepts, make the torrent known.
LEMMA MetadataKnown ==
  ASSUME torrent \in Torrents, InfoIsRead(Info), metainfo' = FromInfoDict(Info),
         torrent' = torrent
  PROVE  metainfo' # Unknown /\ Known'
  <1>1. Info \in Seq(InfoEntries) /\ Info' = Info
    BY InfoTyped DEF Info
  <1>2. InfoHash(Info)' = InfoHash(Info)
    BY <1>1
  <1>3. Len(PieceHashes(Info)) <= Int32Max
    BY InfoTyped
  <1> QED
    BY <1>1, <1>2, <1>3, FromInfo DEF Known, PieceCount

LEMMA TorrentKnown ==
  ASSUME torrent \in Torrents, Extractable(torrent.dict), metainfo' = Extract(torrent.dict),
         torrent' = torrent
  PROVE  metainfo' # Unknown /\ Known'
  <1>1. Info \in Seq(InfoEntries) /\ Info' = Info
    BY InfoTyped DEF Info
  <1>2. InfoHash(Info)' = InfoHash(Info)
    BY <1>1
  <1>3. LastOf(torrent.dict, "info") = Info /\ InfoIsRead(Info)
    BY DEF Extractable, Info, InfoIn
  <1> DEFINE r == FromInfoDict(Info)
             a == LastOf(torrent.dict, "announce")
  <1>4. metainfo' = [r EXCEPT !.announce = a]
    BY <1>3 DEF Extract
  <1>5. /\ r # Unknown /\ r.infoHash = InfoHash(Info)
        /\ r.length \in Int /\ r.pieceLength \in Int
        /\ Len(r.hashes) \in Nat /\ Len(r.hashes) <= Int32Max
        /\ DOMAIN r = {"announce", "length", "infoHash", "pieceLength", "hashes"}
    BY <1>1, <1>3, FromInfo, InfoTyped
  <1>10. DOMAIN r = {"announce", "length", "infoHash", "pieceLength", "hashes"}
    BY <1>5
  <1> HIDE DEF r, a
  <1>6. DOMAIN Unknown = {"infoHash"}
    BY DEF Unknown
  <1>7. DOMAIN metainfo' = DOMAIN r
    BY <1>4
  <1>8. metainfo' # Unknown
    BY ONLY <1>6, <1>7, <1>10
  <1>9. /\ metainfo'.infoHash = r.infoHash /\ metainfo'.length = r.length
        /\ metainfo'.pieceLength = r.pieceLength /\ metainfo'.hashes = r.hashes
    BY <1>4
  <1> QED
    BY <1>2, <1>5, <1>8, <1>9 DEF Known, PieceCount

----------------------------------------------------------------------------
(* The arithmetic of an index *)

\* Division with remainder, as C++ divides non-negative numbers.
LEMMA DivMod ==
  ASSUME NEW a \in Nat, NEW b \in Nat \ {0}
  PROVE  /\ a \div b \in Nat /\ a % b \in 0 .. b - 1
         /\ a = b * (a \div b) + (a % b)
  BY SMT

\* Multiplying, cancelling and expanding.
LEMMA Products ==
  ASSUME NEW a \in Int, NEW b \in Int, NEW c \in Nat
  PROVE  /\ a <= b => c * a <= c * b
         /\ c * a < c * b => a < b
         /\ c * (a + 1) = c * a + c /\ c * (a - 1) = c * a - c
         /\ c * a \in Int /\ c * a = a * c /\ c * (-a) = -(c * a) /\ (-c) * a = -(c * a)
  <1>1. a <= b => c * a <= c * b
    BY SMT
  <1>2. ASSUME c * a < c * b, b <= a PROVE FALSE
    <2>1. c * b <= c * a
      BY <1>2, SMT
    <2> QED BY <1>2, <2>1, SMT
  <1>3. c * a < c * b => a < b
    BY <1>2
  <1> QED
    BY <1>1, <1>3, SMT

\* The pieces of a worker have hashes: the range of the last ends with the last
\* piece, those of the others before it; and it has one, if there are enough.
LEMMA PiecesHaveHashes ==
  ASSUME NEW n \in Nat, NEW k \in Nat \ {0}, NEW w \in 0 .. k - 1
  PROVE  /\ Ranges!RangeStart(n, k, w) \in Nat /\ Ranges!RangeEnd(n, k, w) \in Nat
         /\ Ranges!RangeEnd(n, k, w) <= n
         /\ k <= n => Ranges!RangeStart(n, k, w) < Ranges!RangeEnd(n, k, w)
  <1> DEFINE q == n \div k
             r == n % k
             extra == IF w < r THEN w ELSE r
             one == IF w < r THEN 1 ELSE 0
  <1>1. q \in Nat /\ r \in 0 .. k - 1 /\ n = k * q + r
    BY DivMod
  <1>2. /\ Ranges!RangeStart(n, k, w) = w * q + extra
        /\ Ranges!RangeEnd(n, k, w) = w * q + extra + q + one
    BY DEF Ranges!RangeStart, Ranges!RangeEnd
  <1> HIDE DEF q, r
  <1>3. w \in Nat /\ w + 1 \in Nat /\ w + 1 <= k
    OBVIOUS
  <1>4. extra \in Nat /\ one \in Nat /\ extra + one <= r
    BY <1>1, <1>3
  <1>5. /\ w * q = q * w /\ q * w \in Nat /\ q * (w + 1) = q * w + q
        /\ q * (w + 1) <= q * k /\ q * k = k * q
    <2>1. 0 <= w => q * 0 <= q * w
      BY <1>1, <1>3, Products
    <2>2. q * w \in Int /\ q * w = w * q /\ q * (w + 1) = q * w + q
      BY <1>1, <1>3, Products
    <2>3. w + 1 <= k => q * (w + 1) <= q * k
      BY <1>1, <1>3, Products
    <2>4. q * k = k * q /\ q * 0 = 0
      BY <1>1, Products
    <2> QED BY <1>3, <2>1, <2>2, <2>3, <2>4
  <1> HIDE DEF extra, one
  <1>6. k * q \in Int /\ w * q \in Nat
    BY <1>1, <1>5
  <1>7. k <= n => q >= 1
    <2>1. q = 0 => k * q = 0
      BY <1>1
    <2>2. q = 0 => n = r
      BY <1>1, <2>1
    <2> QED BY <1>1, <2>2
  <1> QED BY <1>1, <1>2, <1>4, <1>5, <1>6, <1>7

\* C++ quotients are rounded to zero: a remainder is smaller than the divisor,
\* whatever the signs.
LEMMA Rounded ==
  ASSUME NEW a \in Int, NEW b \in Nat \ {0}
  PROVE  /\ Quotient(a, b) \in Int /\ Quotient(a, -b) \in Int
         /\ Remainder(a, b) \in 1 - b .. b - 1 /\ Remainder(a, -b) \in 1 - b .. b - 1
  <1>1. CASE a \in Nat
    <2> DEFINE q == a \div b
               r == a % b
    <2>1. q \in Nat /\ r \in 0 .. b - 1 /\ a = b * q + r
      BY <1>1, DivMod
    <2>2. Quotient(a, b) = q /\ Quotient(a, -b) = -q
      <3>1. ~(a < 0) /\ ~(b < 0) /\ -b < 0 /\ -(-b) = b
        BY <1>1
      <3> QED BY <3>1 DEF Quotient
    <2> HIDE DEF q, r
    <2>3. (-b) * (-q) = b * q /\ b * q \in Int
      BY <2>1
    <2>4. Remainder(a, b) = r /\ Remainder(a, -b) = r
      BY <2>1, <2>2, <2>3 DEF Remainder
    <2> QED
      BY <2>1, <2>2, <2>4 DEF q, r
  <1>2. CASE a \notin Nat
    <2> DEFINE c == -a
               q == c \div b
               r == c % b
    <2>0. c \in Nat /\ a < 0 /\ a = -c
      BY <1>2
    <2>1. q \in Nat /\ r \in 0 .. b - 1 /\ c = b * q + r
      BY <2>0, DivMod
    <2>2. Quotient(a, b) = -q /\ Quotient(a, -b) = q
      <3>1. a < 0 /\ ~(b < 0) /\ -b < 0 /\ -(-b) = b
        BY <2>0
      <3> QED BY <3>1 DEF Quotient
    <2> HIDE DEF q, r, c
    <2>3. (-b) * q = -(b * q) /\ b * (-q) = -(b * q) /\ b * q \in Int
      BY <2>1
    <2>4. Remainder(a, b) = -r /\ Remainder(a, -b) = -r
      BY <2>0, <2>1, <2>2, <2>3 DEF Remainder
    <2> QED
      BY <1>2, <2>1, <2>2, <2>4
  <1> QED BY <1>1, <1>2

LEMMA RemainderRange ==
  ASSUME NEW a \in Int, NEW b \in Nat \ {0}
  PROVE  Remainder(a, b) \in 1 - b .. b - 1
  BY Rounded

LEMMA RoundedNat ==
  ASSUME NEW a \in Nat, NEW b \in Nat \ {0}
  PROVE  Quotient(a, b) = a \div b /\ Remainder(a, b) = a % b
  <1> DEFINE q == a \div b
             r == a % b
  <1>1. q \in Nat /\ r \in 0 .. b - 1 /\ a = b * q + r
    BY DivMod
  <1>2. Quotient(a, b) = q
    BY DEF Quotient
  <1> HIDE DEF q, r
  <1>3. Remainder(a, b) = r
    BY <1>1, <1>2 DEF Remainder
  <1> QED BY <1>2, <1>3 DEF q, r

\* What an int32_t can hold is narrowed to itself.
LEMMA Narrowed ==
  ASSUME NEW n \in -Int32Max .. Int32Max
  PROVE  ToInt32(n) = n
  <1> DEFINE w == 2 * (Int32Max + 1)
             m == n + Int32Max + 1
  <1>1. w \in Nat \ {0} /\ m \in 0 .. w - 1 /\ Int32Max \in Nat /\ n \in Int
    BY IndexAssumption
  <1>2. m % w = m
    <2> HIDE DEF w, m
    <2>1. w \in Nat \ {0} /\ m \in Nat /\ m < w
      BY <1>1
    <2>2. m \div w \in Nat /\ m % w \in 0 .. w - 1 /\ m = w * (m \div w) + (m % w)
      BY <2>1, DivMod
    <2> DEFINE q == m \div w
    <2>3. q \in Nat /\ w * q \in Int /\ w * q <= m
      BY <2>1, <2>2
    <2> HIDE DEF q
    <2>4. w * q < w * 1
      BY <2>1, <2>3
    <2>5. q < 1
      BY <2>1, <2>3, <2>4, Products
    <2>6. q = 0
      BY <2>3, <2>5
    <2> QED BY <2>1, <2>2, <2>6 DEF q
  <1> QED
    BY <1>1, <1>2 DEF ToInt32

\* A length whose blocks end beyond the largest int32_t is within a block of it.
LEMMA OverflowIsNear ==
  ASSUME NEW len \in Int, OffsetOverflows(len)
  PROVE  len > Int32Max - BlockSize
  <1> DEFINE a == len + BlockSize - 1
             q == a \div BlockSize
  <1>1. len > 0 /\ BlockSize * q > Int32Max
    BY DEF OffsetOverflows
  <1>2. a \in Nat /\ BlockSize \in Nat \ {0} /\ Int32Max \in Nat
    BY <1>1, IndexAssumption
  <1>3. q \in Nat /\ a = BlockSize * q + (a % BlockSize) /\ a % BlockSize \in 0 .. BlockSize - 1
    BY <1>2, DivMod
  <1>4. BlockSize * q <= a /\ BlockSize * q \in Int
    <2> HIDE DEF q, a
    <2> QED BY <1>2, <1>3
  <1> HIDE DEF q
  <1> QED
    BY <1>1, <1>2, <1>4

\* Only a piece length of that size, of whatever sign, makes them overflow.
LEMMA OverflowHasACause ==
  ASSUME Known, metainfo.pieceLength # 0, NEW index \in Int,
         OffsetOverflows(RequestedLen(index))
  PROVE  metainfo.pieceLength \notin BlockSize - Int32Max .. Int32Max - BlockSize
  <1> DEFINE pl == metainfo.pieceLength
             l  == metainfo.length
             r  == Remainder(l, pl)
  <1>1. l \in Int /\ pl \in Int /\ pl # 0 /\ BlockSize \in Nat \ {0} /\ Int32Max \in Nat
    BY IndexAssumption DEF Known
  <1>2. RequestedLen(index) \in {ToInt32(pl), ToInt32(r)}
    BY DEF RequestedLen, ActualPieceLen
  <1> SUFFICES ASSUME pl \in BlockSize - Int32Max .. Int32Max - BlockSize PROVE FALSE
    OBVIOUS
  <1>3. r \in Int /\ r <= Int32Max - BlockSize /\ r >= BlockSize - Int32Max
    <2>1. CASE pl > 0
      <3>1. r \in 1 - pl .. pl - 1
        BY <2>1, <1>1, RemainderRange
      <3> QED BY <3>1, <2>1, <1>1
    <2>2. CASE pl < 0
      <3>1. -pl \in Nat \ {0} /\ -(-pl) = pl
        BY <2>2, <1>1
      <3>2. Remainder(l, -(-pl)) \in 1 - (-pl) .. (-pl) - 1
        BY <3>1, <1>1, Rounded
      <3>3. r \in 1 - (-pl) .. (-pl) - 1
        BY <3>1, <3>2
      <3> QED BY <3>3, <2>2, <1>1
    <2> QED BY <2>1, <2>2, <1>1
  <1> HIDE DEF pl, l, r
  <1>4. pl \in -Int32Max .. Int32Max /\ r \in -Int32Max .. Int32Max
    BY <1>1, <1>3
  <1>5. RequestedLen(index) \in {pl, r}
    BY <1>2, <1>4, Narrowed
  <1>6. RequestedLen(index) \in Int /\ RequestedLen(index) <= Int32Max - BlockSize
    BY <1>1, <1>3, <1>5
  <1> QED
    BY <1>1, <1>6, OverflowIsNear

\* The number of pieces overflows only for lengths near the ends of an int64_t.
LEMMA CountHasACause ==
  ASSUME Known, CountOverflows(metainfo.length, metainfo.pieceLength),
         metainfo.pieceLength \in BlockSize - Int32Max .. Int32Max - BlockSize
  PROVE  metainfo.length \notin Int32Max - Int64Max .. Int64Max - Int32Max
  <1> DEFINE pl == metainfo.pieceLength
             l  == metainfo.length
  <1>1. /\ l \in Int /\ pl \in Int /\ BlockSize \in Nat \ {0}
        /\ Int32Max \in Nat /\ Int64Max \in Nat
    BY IndexAssumption DEF Known
  <1>2. \/ l + pl \notin Int64
        \/ l + pl - 1 \notin Int64
        \/ pl = -1 /\ NumPieces(l, pl) \notin Int64
    BY DEF CountOverflows
  <1>3. pl = -1 => NumPieces(l, pl) = 2 - l
    <2> SUFFICES ASSUME pl = -1 PROVE NumPieces(l, pl) = 2 - l
      OBVIOUS
    <2> DEFINE a == l + pl - 1
    <2>1. a \in Int /\ a = l - 2
      BY <1>1
    <2> HIDE DEF a
    <2>2. Quotient(a, -1) = -a
      BY <2>1 DEF Quotient
    <2>3. NumPieces(l, pl) = Quotient(a, pl)
      BY DEF NumPieces, a
    <2>4. Quotient(a, pl) = Quotient(a, -1)
      OBVIOUS
    <2> QED BY ONLY <2>1, <2>2, <2>3, <2>4, <1>1
  <1> SUFFICES ASSUME l \in Int32Max - Int64Max .. Int64Max - Int32Max PROVE FALSE
    OBVIOUS
  <1> HIDE DEF pl, l
  <1>4. pl >= BlockSize - Int32Max /\ pl <= Int32Max - BlockSize
    BY <1>1 DEF pl
  <1>5. l + pl \in Int64 /\ l + pl - 1 \in Int64
    BY <1>1, <1>4 DEF Int64
  <1>6. pl = -1 => 2 - l \in Int64
    BY <1>1, <1>4 DEF Int64
  <1> QED BY <1>2, <1>3, <1>5, <1>6

\* The offset of a piece that has a hash does not overflow, unless a piece is
\* longer than an int32_t.
LEMMA OffsetFits ==
  ASSUME Known, NEW p \in 0 .. PieceCount - 1,
         metainfo.pieceLength \in BlockSize - Int32Max .. Int32Max - BlockSize
  PROVE  Offset(p) \in Int64
  <1> DEFINE pl == metainfo.pieceLength
             m  == Int32Max
  <1>1. /\ pl \in Int /\ m \in Nat /\ BlockSize \in Nat \ {0} /\ p \in Nat /\ p <= m
        /\ Int64Max \in Nat /\ m * m <= Int64Max
    BY IndexAssumption DEF Known
  <1>2. pl <= m /\ -m <= pl
    BY <1>1
  <1> HIDE DEF pl, m
  <1>3. p * pl <= p * m /\ p * (-m) <= p * pl /\ p * pl \in Int
    BY <1>1, <1>2, Products
  <1>4. p * m = m * p /\ p * (-m) = -(p * m) /\ m * p <= m * m /\ m * p \in Int
    BY <1>1, Products
  <1> QED
    BY <1>1, <1>3, <1>4 DEF Offset, Int64, pl

\* Of a well-formed torrent the client asks for the bytes each piece has.
LEMMA RequestedIsTrue ==
  ASSUME Known, WellFormed, NEW index \in 0 .. PieceCount - 1
  PROVE  RequestedLen(index) = TrueLen(index)
  <1> DEFINE pl == metainfo.pieceLength
             l  == metainfo.length
             n  == PieceCount
             i  == index
             k  == l \div pl
             r  == l % pl
             c  == (l + pl - 1) \div pl
  <1>1. /\ l \in Nat \ {0} /\ pl \in Nat \ {0} /\ n \in Nat /\ i \in Nat /\ i <= n - 1
        /\ pl <= Int32Max /\ Int32Max \in Nat
    BY IndexAssumption DEF Known, WellFormed
  <1>2. n = c
    <2>1. l + pl - 1 \in Nat
      BY <1>1
    <2>2. Quotient(l + pl - 1, pl) = c
      BY <1>1, <2>1, RoundedNat
    <2> QED BY <2>2 DEF WellFormed, NumPieces
  <1>3. k \in Nat /\ r \in 0 .. pl - 1 /\ l = pl * k + r
    BY <1>1, DivMod
  <1>4. pl * c <= l + pl - 1 /\ l <= pl * c /\ c \in Nat
    <2> DEFINE a == l + pl - 1
    <2>1. a \in Nat
      BY <1>1
    <2>2. c \in Nat /\ a % pl \in 0 .. pl - 1 /\ a = pl * c + (a % pl)
      BY <1>1, <2>1, DivMod
    <2> HIDE DEF c
    <2> QED BY <1>1, <2>2
  <1>5. Remainder(l, pl) = r
    BY <1>1, RoundedNat
  <1>6. RequestedLen(i) = IF i = n - 1 /\ r # 0 THEN r ELSE pl
    <2>1. NumPieces(l, pl) = n
      BY DEF WellFormed
    <2>2. r \in -Int32Max .. Int32Max /\ pl \in -Int32Max .. Int32Max
      BY <1>1, <1>3
    <2>3. ToInt32(r) = r /\ ToInt32(pl) = pl
      BY <2>2, Narrowed
    <2> HIDE DEF n, r, l, pl
    <2> QED BY <1>5, <2>1, <2>3 DEF RequestedLen, ActualPieceLen, l, pl
  <1>7. TrueLen(i) = IF pl < l - pl * i THEN pl ELSE l - pl * i
    <2>1. i * pl = pl * i
      BY <1>1, Products
    <2> QED BY <2>1 DEF TrueLen
  <1> HIDE DEF pl, l, n, i, k, r, c
  <1>8. pl * i \in Int /\ pl * n \in Int /\ pl * k \in Int
        /\ pl * (i + 1) = pl * i + pl /\ pl * (n - 1) = pl * n - pl
        /\ pl * (k + 1) = pl * k + pl
    BY <1>1, <1>3, Products
  <1>9. CASE i # n - 1
    <2>1. i + 1 <= n - 1
      BY <1>1, <1>9
    <2>2. pl * (i + 1) <= pl * (n - 1)
      BY <1>1, <2>1, Products
    <2>3. pl * i + pl < l
      BY <1>1, <1>2, <1>4, <1>8, <2>2
    <2> QED
      BY <1>1, <1>6, <1>7, <1>8, <1>9, <2>3 DEF i
  <1>10. CASE i = n - 1
    <2>1. pl * i < l /\ l <= pl * i + pl
      BY <1>1, <1>2, <1>4, <1>8, <1>10
    <2>2. CASE r = 0
      <3>1. pl * i < pl * k
        BY <1>1, <1>3, <1>8, <2>1, <2>2
      <3>2. i + 1 <= k
        BY <1>1, <1>3, <3>1, Products
      <3>3. pl * (i + 1) <= pl * k
        BY <1>1, <1>3, <3>2, Products
      <3>4. l - pl * i = pl
        BY <1>1, <1>3, <1>8, <2>1, <2>2, <3>3
      <3> QED
        BY <1>1, <1>6, <1>7, <2>2, <3>4 DEF i
    <2>3. CASE r # 0
      <3>1. pl * i < pl * (k + 1)
        BY <1>1, <1>3, <1>8, <2>1
      <3>2. pl * k < pl * (i + 1)
        BY <1>1, <1>3, <1>8, <2>1, <2>3
      <3>3. i < k + 1 /\ k < i + 1
        BY <1>1, <1>3, <3>1, <3>2, Products
      <3>4. l - pl * i = r /\ r < pl
        BY <1>1, <1>3, <1>8, <3>3
      <3> QED
        BY <1>1, <1>3, <1>6, <1>7, <1>10, <2>3, <3>4 DEF i
    <2> QED BY <2>2, <2>3
  <1> QED BY <1>9, <1>10 DEF i

\* has_piece returns true only of a bit that is set, or far below the bitfield.
LEMMA PieceIsAnnounced ==
  ASSUME swarm \in Swarms, NEW index \in Int, TRUE \in HasPiece(swarm.bits, index), index > -8
  PROVE  HasBit(index)
  <1> DEFINE l == Len(swarm.bits)
  <1>1. l \in Nat /\ swarm.bits \in Seq(SUBSET (0 .. 7))
    BY CommandsAssumption DEF AllSwarms
  <1>2. ~BeyondBitfield(swarm.bits, index) /\ ~(BitIdx(index) > 7)
    BY DEF HasPiece
  <1>3. index >= 0
    <2> SUFFICES ASSUME index < 0 PROVE FALSE
      OBVIOUS
    <2>1. Quotient(index, 8) = 0
      <3>1. -index \in 1 .. 7
        OBVIOUS
      <3>2. (-index) \div 8 = 0
        BY <3>1
      <3> QED BY <3>2 DEF Quotient
    <2>2. Remainder(index, 8) = index
      BY <2>1 DEF Remainder
    <2> QED BY <1>2, <2>2 DEF BitIdx
  <1>4. Quotient(index, 8) = index \div 8 /\ Remainder(index, 8) = index % 8
    BY <1>3, RoundedNat
  <1>5. ByteIdx(index) = index \div 8 /\ BitIdx(index) = 7 - (index % 8)
    BY <1>4 DEF ByteIdx, BitIdx
  <1>6. index \div 8 \in 0 .. l - 1
    BY <1>1, <1>2, <1>3, <1>5 DEF BeyondBitfield
  <1>7. 7 - (index % 8) \in swarm.bits[index \div 8 + 1]
    BY <1>2, <1>5, <1>6 DEF HasPiece
  <1>8. index < 8 * l
    BY <1>1, <1>3, <1>6
  <1> QED
    BY <1>1, <1>3, <1>7, <1>8 DEF HasBit

----------------------------------------------------------------------------
(* The inductive invariant *)

Steps == {"value", "argument", "torrent", "link", "announce", "peer", "connect", "metadata",
          "piece", "write", "prepare", "workers"}

States == {"connect", "get", "done", "failed"}

\* A step that is left, and two of which the second never follows the first.
Left(step)  == \E i \in DOMAIN todo : todo[i] = step
Never(a, b) == \A i, j \in DOMAIN todo : i < j /\ todo[i] = a => todo[j] # b

Typed ==
  /\ call \in Calls /\ torrent \in Torrents /\ swarm \in Swarms
  /\ todo \in Seq(Steps)
  /\ status \in {"start", "running"} \cup Ended
  /\ piece \in BOOLEAN
  /\ DOMAIN workers \subseteq Nat /\ workers \in [DOMAIN workers -> States]
  /\ status = "start" => todo = << >> /\ conns = {} /\ workers = << >> /\ output = "before"
  /\ status = "ok" => todo = << >>

\* The steps of a command are in order ...
InOrder ==
  /\ Never("announce", "torrent") /\ Never("connect", "torrent") /\ Never("connect", "connect")
  /\ Never("piece", "torrent") /\ Never("piece", "metadata") /\ Never("write", "piece")
  /\ Never("prepare", "torrent") /\ Never("prepare", "metadata") /\ Never("prepare", "prepare")
  /\ Never("workers", "torrent") /\ Never("workers", "metadata") /\ Never("workers", "prepare")
  /\ Never("workers", "connect")

\* ... and those that it has.
NeedsTorrent == OnePiece \/ WholeFile \/ call.command \in {"peers", "handshake"}

OfTheCommand ==
  /\ Left("piece") \/ Left("write") => OnePiece
  /\ Left("prepare") \/ Left("workers") => WholeFile
  /\ Left("connect") => call.command # "download"
  /\ Left("metadata") => OfMagnet
  /\ Left("announce") \/ Left("connect") => OfMagnet \/ NeedsTorrent
  /\ Left("prepare") => Left("workers")

MainConn == Opened(Contact, "first", Main)

\* What the steps that are done have brought about, and those that are left not.
Progress ==
  /\ status \in {"running", "ok"} =>
       /\ NeedsTorrent /\ ~Left("torrent") /\ ~Left("metadata") => metainfo # Unknown
       /\ OnePiece /\ ~Left("piece") => piece
       /\ OnePiece /\ ~Left("write") => output = "whole" \/ call.disk = "full"
       /\ WholeFile /\ ~Left("prepare") => output # "before" /\ 0 \in DOMAIN workers
       /\ WholeFile /\ ~Left("workers") /\ WellFormed => output = "whole" /\ call.disk = "free"
       /\ call.command = "magnet_download" /\ swarm.exclusive => Left("workers")
  /\ status = "running" /\ call.command = "magnet_download" /\ ~Left("connect") =>
       MainConn \in conns
  /\ Left("piece") => output = "before"
  /\ Left("torrent") \/ Left("metadata") \/ Left("prepare") => workers = << >>
  /\ Left("connect") => MainConn \notin conns

\* The torrent is known once it was read, and what was made of it.
TorrentInv ==
  /\ metainfo # Unknown => Known
  /\ output # "before" => IF WholeFile THEN swarm.peers # << >> /\ metainfo # Unknown ELSE piece

\* A connection is main's, or that of a worker that is getting its pieces; a
\* worker that has failed has said so, and the first of magnet_download fails
\* when the peer takes only one connection; a worker that is done has written,
\* which a full disk does not allow.
ConnsInv ==
  /\ \A c \in conns :
       \/ c = MainConn /\ call.command # "download"
       \/ \E w \in DOMAIN workers : c = Opened(PeerOf(w), WorkersId, w) /\ workers[w] = "get"
  /\ workers # << >> => WholeFile
  /\ \A w \in DOMAIN workers : w \in 0 .. NumWorkers - 1
  /\ \A w \in DOMAIN workers : workers[w] = "failed" => error # "none"
  /\ \A w \in DOMAIN workers : workers[w] = "done" => call.disk = "free"
  /\ call.command = "magnet_download" /\ swarm.exclusive /\ 0 \in DOMAIN workers =>
       workers[0] \in {"connect", "failed"}
  /\ error = "refused" => MeetsItself

\* Whom the command told what: a worker names the hash of what was decoded.
NamedInv ==
  /\ \A a \in announced : a.id = "first"
  /\ \A h \in named : h.id = "first" \/ call.command = "download"
  /\ \A h \in announced \cup named :
       h.hash = TorrentHash \/ (h.hash = InfoHash(Info) /\ (OfMagnet => workers # << >>))

\* What became of the piece.
PieceInv ==
  /\ error = "mismatch" => status = "error"
  /\ AskedPiecesAreAnnounced /\ UndefinedHasACause /\ HonestPiecesVerify

CommandsInv ==
  /\ Typed /\ InOrder /\ OfTheCommand /\ Progress /\ TorrentInv /\ ConnsInv /\ NamedInv /\ PieceInv

----------------------------------------------------------------------------
(* The steps that are left *)

\* Taking the first step leaves the others, in their order.
LEMMA StepTaken ==
  ASSUME todo \in Seq(Steps), NEW s, Doing(s), todo' = Tail(todo)
  PROVE  /\ todo' \in Seq(Steps) /\ Left(s)
         /\ \A a : Left(a)' => Left(a)
         /\ \A a : a # s /\ Left(a) => Left(a)'
         /\ \A a, b : Never(a, b) => Never(a, b)'
         /\ \A b : Never(s, b) => ~Left(b)'
  <1> DEFINE n == Len(todo)
  <1>1. /\ n \in Nat /\ n >= 1 /\ DOMAIN todo = 1 .. n /\ todo[1] = s
        /\ todo' \in Seq(Steps) /\ DOMAIN todo' = 1 .. n - 1
        /\ \A i \in 1 .. n - 1 : todo'[i] = todo[i + 1]
    <2>1. todo # << >> /\ Head(todo) = s
      BY DEF Doing
    <2>2. n \in Nat /\ n >= 1 /\ DOMAIN todo = 1 .. n /\ Head(todo) = todo[1]
      BY <2>1, EmptySeq
    <2>3. /\ Tail(todo) \in Seq(Steps) /\ Len(Tail(todo)) = n - 1
          /\ \A i \in 1 .. n - 1 : Tail(todo)[i] = todo[i + 1]
      BY <2>1, HeadTailProperties
    <2> HIDE DEF n
    <2>4. DOMAIN Tail(todo) = 1 .. n - 1
      BY <2>3
    <2> QED BY <2>1, <2>2, <2>3, <2>4
  <1> HIDE DEF n
  <1>2. Left(s)
    BY <1>1 DEF Left
  <1>3. \A i \in DOMAIN todo' : i + 1 \in DOMAIN todo /\ todo'[i] = todo[i + 1] /\ i \in Int
    BY <1>1
  <1>4. \A i \in DOMAIN todo : i # 1 => i - 1 \in DOMAIN todo' /\ todo[i] = todo'[i - 1]
    <2> TAKE i \in DOMAIN todo
    <2>1. i # 1 => i - 1 \in 1 .. n - 1 /\ i = (i - 1) + 1
      BY <1>1
    <2> QED BY <1>1, <2>1
  <1>5. \A a : Left(a)' => Left(a)
    BY <1>3 DEF Left
  <1>6. \A a : a # s /\ Left(a) => Left(a)'
    BY <1>1, <1>4 DEF Left
  <1>7. ASSUME NEW a, NEW b, Never(a, b) PROVE Never(a, b)'
    <2> SUFFICES ASSUME NEW i \in DOMAIN todo', NEW j \in DOMAIN todo', i < j, todo'[i] = a
                 PROVE  todo'[j] # b
      BY DEF Never
    <2>1. i + 1 \in DOMAIN todo /\ j + 1 \in DOMAIN todo /\ i + 1 < j + 1
      BY <1>3
    <2>2. todo[i + 1] = a => todo[j + 1] # b
      BY <2>1, <1>7 DEF Never
    <2> QED BY <1>3, <2>2
  <1>8. ASSUME NEW b, Never(s, b), Left(b)' PROVE FALSE
    <2>1. PICK i \in DOMAIN todo' : todo'[i] = b
      BY <1>8 DEF Left
    <2>2. 1 \in DOMAIN todo /\ i + 1 \in DOMAIN todo /\ 1 < i + 1 /\ todo[i + 1] = b
      BY <1>1, <1>3, <2>1
    <2> QED BY <1>1, <1>8, <2>2 DEF Never
  <1> QED BY <1>1, <1>2, <1>5, <1>6, <1>7, <1>8

\* A step that is under way is left, and none that it never precedes is, but
\* for itself.
LEMMA StepUnderWay ==
  ASSUME todo \in Seq(Steps), NEW s, Doing(s)
  PROVE  Left(s) /\ \A b : b # s /\ Never(s, b) => ~Left(b)
  <1> DEFINE n == Len(todo)
  <1>1. /\ n \in Nat /\ n >= 1 /\ DOMAIN todo = 1 .. n /\ todo[1] = s
    <2>1. todo # << >> /\ Head(todo) = s
      BY DEF Doing
    <2> QED
      BY <2>1, EmptySeq
  <1> HIDE DEF n
  <1>2. Left(s)
    BY <1>1 DEF Left
  <1>3. ASSUME NEW b, b # s, Never(s, b), Left(b) PROVE FALSE
    <2>1. PICK i \in DOMAIN todo : todo[i] = b
      BY <1>3 DEF Left
    <2>2. 1 \in DOMAIN todo /\ 1 < i
      BY <1>1, <1>3, <2>1
    <2> QED BY <1>1, <1>3, <2>1, <2>2 DEF Never
  <1> QED BY <1>2, <1>3

\* The steps of a command are what they are.
LEMMA Programs ==
  /\ Program("decode") = <<"value">>
  /\ Program("info") = <<"torrent">>
  /\ Program("peers") = <<"torrent", "announce">>
  /\ Program("download_piece") = DownloadPiece
  /\ Program("download") = Download
  /\ Program("handshake") = Handshake
  /\ Program("magnet_parse") = <<"link">>
  /\ Program("magnet_handshake") = MagnetHandshake
  /\ Program("magnet_info") = MagnetInfo
  /\ Program("magnet_download_piece") = MagnetDownloadPiece
  /\ Program("magnet_download") = MagnetDownload
  /\ MagnetCommands = {"magnet_parse", "magnet_handshake", "magnet_info",
                       "magnet_download_piece", "magnet_download"}
  /\ Commands = {"decode", "info", "peers", "download_piece", "download", "handshake"}
                  \cup MagnetCommands
  <1>1. DOMAIN MagnetPrograms = {"magnet_parse", "magnet_handshake", "magnet_info",
                       "magnet_download_piece", "magnet_download"}
    BY DEF MagnetPrograms
  <1>2. DOMAIN TorrentPrograms = {"decode", "info", "peers", "download_piece", "download", "handshake"}
    BY DEF TorrentPrograms
  <1> QED
    BY <1>1, <1>2 DEF Program, MagnetCommands, Commands, MagnetPrograms, TorrentPrograms

\* What dispatch leaves to do, for each command.
Begun ==
  /\ InOrder /\ OfTheCommand /\ todo \in Seq(Steps)
  /\ OnePiece => Left("piece") /\ Left("write")
  /\ WholeFile => Left("prepare") /\ Left("workers")
  /\ NeedsTorrent => Left("torrent") \/ Left("metadata")
  /\ call.command = "magnet_download" => Left("connect")

\* The places of the steps of a program, to which the rest is reduced.
LEMMA DispatchBegins ==
  ASSUME Typed, Dispatch, status' = "running"
  PROVE  Begun'
  <1>1. /\ call.command \in Commands /\ todo' = Program(call.command) /\ call' = call
    BY DEF Dispatch, inputs
  <1> USE DEF Begun, InOrder, OfTheCommand, OnePiece, WholeFile, NeedsTorrent, OfMagnet, Never, Left
  <1>2. CASE call.command = "decode"
    <2>1. todo' = <<"value">>
      BY <1>1, <1>2, Programs
    <2>2. call'.command = "decode"
      BY <1>1, <1>2
    <2>3. todo' \in Seq(Steps)
      BY <2>1 DEF Steps
    <2> QED BY <2>1, <2>2, <2>3, Programs
  <1>3. CASE call.command = "info"
    <2>1. todo' = <<"torrent">>
      BY <1>1, <1>3, Programs
    <2>2. call'.command = "info"
      BY <1>1, <1>3
    <2>3. todo' \in Seq(Steps)
      BY <2>1 DEF Steps
    <2> QED BY <2>1, <2>2, <2>3, Programs
  <1>4. CASE call.command = "peers"
    <2>1. todo' = <<"torrent", "announce">>
      BY <1>1, <1>4, Programs
    <2>2. call'.command = "peers"
      BY <1>1, <1>4
    <2>3. todo' \in Seq(Steps)
      BY <2>1 DEF Steps
    <2> QED BY <2>1, <2>2, <2>3, Programs
  <1>5. CASE call.command = "download_piece"
    <2>1. todo' = <<"torrent", "argument", "announce", "peer", "connect", "piece", "write">>
      BY <1>1, <1>5, Programs DEF DownloadPiece
    <2>2. call'.command = "download_piece"
      BY <1>1, <1>5
    <2>3. todo' \in Seq(Steps)
      BY <2>1 DEF Steps
    <2> QED BY <2>1, <2>2, <2>3, Programs
  <1>6. CASE call.command = "download"
    <2>1. todo' = <<"torrent", "announce", "prepare", "workers">>
      BY <1>1, <1>6, Programs DEF Download
    <2>2. call'.command = "download"
      BY <1>1, <1>6
    <2>3. todo' \in Seq(Steps)
      BY <2>1 DEF Steps
    <2> QED BY <2>1, <2>2, <2>3, Programs
  <1>7. CASE call.command = "handshake"
    <2>1. todo' = <<"torrent", "argument", "connect">>
      BY <1>1, <1>7, Programs DEF Handshake
    <2>2. call'.command = "handshake"
      BY <1>1, <1>7
    <2>3. todo' \in Seq(Steps)
      BY <2>1 DEF Steps
    <2> QED BY <2>1, <2>2, <2>3, Programs
  <1>8. CASE call.command = "magnet_parse"
    <2>1. todo' = <<"link">>
      BY <1>1, <1>8, Programs
    <2>2. call'.command = "magnet_parse"
      BY <1>1, <1>8
    <2>3. todo' \in Seq(Steps)
      BY <2>1 DEF Steps
    <2> QED BY <2>1, <2>2, <2>3, Programs
  <1>9. CASE call.command = "magnet_handshake"
    <2>1. todo' = <<"link", "announce", "peer", "connect">>
      BY <1>1, <1>9, Programs DEF MagnetHandshake
    <2>2. call'.command = "magnet_handshake"
      BY <1>1, <1>9
    <2>3. todo' \in Seq(Steps)
      BY <2>1 DEF Steps
    <2> QED BY <2>1, <2>2, <2>3, Programs
  <1>10. CASE call.command = "magnet_info"
    <2>1. todo' = <<"link", "announce", "peer", "connect", "metadata">>
      BY <1>1, <1>10, Programs DEF MagnetInfo
    <2>2. call'.command = "magnet_info"
      BY <1>1, <1>10
    <2>3. todo' \in Seq(Steps)
      BY <2>1 DEF Steps
    <2> QED BY <2>1, <2>2, <2>3, Programs
  <1>11. CASE call.command = "magnet_download_piece"
    <2>1. todo' = <<"link", "argument", "announce", "peer", "connect", "metadata", "piece", "write">>
      BY <1>1, <1>11, Programs DEF MagnetDownloadPiece
    <2>2. call'.command = "magnet_download_piece"
      BY <1>1, <1>11
    <2>3. todo' \in Seq(Steps)
      BY <2>1 DEF Steps
    <2> QED BY <2>1, <2>2, <2>3, Programs
  <1>12. CASE call.command = "magnet_download"
    <2>1. todo' = <<"link", "announce", "peer", "connect", "metadata", "prepare", "workers">>
      BY <1>1, <1>12, Programs DEF MagnetDownload
    <2>2. call'.command = "magnet_download"
      BY <1>1, <1>12
    <2>3. todo' \in Seq(Steps)
      BY <2>1 DEF Steps
    <2> QED BY <2>1, <2>2, <2>3, Programs
  <1> QED BY <1>1, <1>2, <1>3, <1>4, <1>5, <1>6, <1>7, <1>8, <1>9, <1>10, <1>11, <1>12, Programs

\* No step changes what the run of the program meets.
LEMMA InputsKept == [Next]_vars => call' = call /\ torrent' = torrent /\ swarm' = swarm
  <1> SUFFICES ASSUME Next PROVE UNCHANGED inputs
    BY DEF vars, inputs
  <1>1. CASE \E w \in DOMAIN workers : WorkerConnects(w) \/ WorkerEnds(w)
    BY <1>1 DEF WorkerConnects, WorkerEnds
  <1>2. CASE Dispatch \/ Return \/ PrintValue \/ ParseArgument \/ ReadTorrent \/ ReadLink
    BY <1>2 DEF Dispatch, Return, PrintValue, ParseArgument, ReadTorrent, ReadLink
  <1>3. CASE Announce \/ TakePeer \/ Connect \/ TakeMetadata
    BY <1>3 DEF Announce, TakePeer, Connect, TakeMetadata
  <1>4. CASE GetPiece \/ WritePiece \/ PrepareFile \/ Joined \/ Stopped
    BY <1>4 DEF GetPiece, WritePiece, PrepareFile, Joined, Stopped, vars
  <1> QED BY <1>1, <1>2, <1>3, <1>4 DEF Next

\* A step of a handler is done, or fails and leaves what is to do.
LEMMA TodoMoves ==
  ASSUME [Next]_vars
  PROVE  \/ Dispatch
         \/ UNCHANGED todo
         \/ \E s \in Steps : Doing(s) /\ Done
  <1>1. CASE \E w \in DOMAIN workers : WorkerConnects(w) \/ WorkerEnds(w)
    BY <1>1 DEF WorkerConnects, WorkerEnds, WorkerFails, WorkerGoesOn, Kill, Undefined
  <1>2. CASE PrintValue \/ ParseArgument \/ ReadTorrent \/ ReadLink
    BY <1>2 DEF PrintValue, ParseArgument, ReadTorrent, ReadLink, Fail, Steps
  <1>3. CASE Announce \/ TakePeer
    BY <1>3 DEF Announce, TakePeer, Fail, Steps
  <1>4. CASE Connect
    BY <1>4 DEF Connect, Fail, Kill, Steps
  <1>5. CASE TakeMetadata
    BY <1>5 DEF TakeMetadata, Fail, Kill, Steps
  <1>6. CASE GetPiece
    BY <1>6 DEF GetPiece, Fail, Kill, Undefined, Steps
  <1>7. CASE WritePiece \/ Joined
    BY <1>7 DEF WritePiece, Joined, Fail, Steps
  <1>8. CASE PrepareFile
    BY <1>8 DEF PrepareFile, Fail, Kill, Steps
  <1>9. CASE Return \/ Stopped \/ UNCHANGED vars
    BY <1>9 DEF Return, Stopped, vars
  <1> QED BY <1>1, <1>2, <1>3, <1>4, <1>5, <1>6, <1>7, <1>8, <1>9 DEF Next

\* The order of the steps that are left, and which they are.
LEMMA OrderStep ==
  ASSUME Typed, InOrder, OfTheCommand, [Next]_vars
  PROVE  todo' \in Seq(Steps) /\ InOrder' /\ OfTheCommand'
  <1>1. call' = call
    BY InputsKept
  <1>2. /\ OnePiece' = OnePiece /\ WholeFile' = WholeFile /\ OfMagnet' = OfMagnet
        /\ NeedsTorrent' = NeedsTorrent
    BY <1>1 DEF OnePiece, WholeFile, OfMagnet, NeedsTorrent
  <1>3. CASE Dispatch
    <2>1. CASE status' = "running"
      BY <1>3, <2>1, DispatchBegins DEF Begun
    <2>2. CASE status' # "running"
      <3>1. todo' = << >>
        BY <1>3, <2>2 DEF Dispatch, Typed
      <3> QED BY <3>1 DEF InOrder, OfTheCommand, Never, Left
    <2> QED BY <2>1, <2>2
  <1>4. CASE UNCHANGED todo
    <2>1. \A a : Left(a)' = Left(a)
      BY <1>4 DEF Left
    <2>2. \A a, b : Never(a, b)' = Never(a, b)
      BY <1>4 DEF Never
    <2>3. InOrder'
      BY <2>2 DEF InOrder
    <2>4. OfTheCommand'
      BY <1>1, <1>2, <2>1 DEF OfTheCommand
    <2> QED BY <1>4, <2>3, <2>4 DEF Typed
  <1>5. ASSUME NEW s \in Steps, Doing(s), Done PROVE todo' \in Seq(Steps) /\ InOrder' /\ OfTheCommand'
    <2>1. /\ todo' \in Seq(Steps) /\ Left(s)
          /\ \A a : Left(a)' => Left(a)
          /\ \A a : a # s /\ Left(a) => Left(a)'
          /\ \A a, b : Never(a, b) => Never(a, b)'
          /\ \A b : Never(s, b) => ~Left(b)'
      BY <1>5, StepTaken DEF Done, Typed
    <2>2. InOrder'
      BY <2>1 DEF InOrder
    <2>3. Left("prepare")' => Left("workers")'
      <3>1. CASE s = "workers"
        BY <2>1, <3>1 DEF InOrder
      <3>2. CASE s # "workers"
        BY <2>1, <3>2 DEF OfTheCommand
      <3> QED BY <3>1, <3>2
    <2>4. OfTheCommand'
      BY <1>1, <1>2, <2>1, <2>3 DEF OfTheCommand
    <2> QED BY <2>1, <2>2, <2>4
  <1> QED BY <1>3, <1>4, <1>5, TodoMoves

----------------------------------------------------------------------------
(* What a step can rely on *)

\* The torrent is known by the time its pieces matter ...
LEMMA TorrentInHand ==
  ASSUME CommandsInv, NEW s \in {"piece", "prepare", "workers"}, Doing(s)
  PROVE  metainfo # Unknown /\ Known
  <1>1. /\ Left(s) /\ ~Left("torrent") /\ ~Left("metadata") /\ status = "running"
    BY StepUnderWay DEF CommandsInv, Typed, InOrder, Doing
  <1>2. NeedsTorrent
    BY <1>1 DEF CommandsInv, OfTheCommand, NeedsTorrent
  <1> QED
    BY <1>1, <1>2 DEF CommandsInv, Progress, TorrentInv

\* ... and by the time a command on a file names it.
LEMMA HashIsKnown ==
  ASSUME CommandsInv, NEW s \in {"announce", "connect"}, Doing(s)
  PROVE  HashInHand \in {TorrentHash, InfoHash(Info)} /\ (OfMagnet => HashInHand = TorrentHash)
  <1>1. CASE OfMagnet
    BY <1>1 DEF HashInHand
  <1>2. CASE ~OfMagnet
    <2>1. Left(s) /\ ~Left("torrent") /\ status = "running"
      BY StepUnderWay DEF CommandsInv, Typed, InOrder, Doing
    <2>2. NeedsTorrent /\ ~Left("metadata")
      BY <1>2, <2>1 DEF CommandsInv, OfTheCommand
    <2>3. Known
      BY <2>1, <2>2 DEF CommandsInv, Progress, TorrentInv
    <2> QED
      BY <1>2, <2>3 DEF HashInHand, Known
  <1> QED BY <1>1, <1>2

\* There are as many workers as there are peers, or pieces.
LEMMA WorkersCounted ==
  ASSUME CommandsInv, Known
  PROVE  /\ NumWorkers \in Nat /\ Len(swarm.peers) \in Nat /\ PieceCount \in Nat
         /\ swarm.peers # << >> /\ PieceCount # 0 => NumWorkers > 0
  <1>1. swarm.peers \in Seq(Nat)
    BY CommandsAssumption DEF CommandsInv, Typed, AllSwarms
  <1>2. PieceCount \in Nat
    BY DEF Known
  <1> QED
    BY <1>1, <1>2 DEF NumWorkers

\* A worker works only in a download of a whole file.
LEMMA WorkerAtWork ==
  ASSUME CommandsInv, Doing("workers")
  PROVE  WholeFile /\ ~OnePiece /\ status = "running" /\ todo # << >> /\ Known /\ metainfo # Unknown
  <1>1. Left("workers")
    BY StepUnderWay DEF CommandsInv, Typed
  <1>2. WholeFile
    BY <1>1 DEF CommandsInv, OfTheCommand
  <1>3. ~OnePiece
    BY <1>2 DEF WholeFile, OnePiece
  <1> QED
    BY <1>2, <1>3, TorrentInHand DEF Doing

----------------------------------------------------------------------------
(* Each conjunct is preserved *)

\* What the worker steps do to the workers.
LEMMA WorkerMoves ==
  ASSUME CommandsInv, NEW w \in DOMAIN workers, WorkerConnects(w) \/ WorkerEnds(w)
  PROVE  /\ DOMAIN workers' = DOMAIN workers /\ workers' \in [DOMAIN workers' -> States]
         /\ \A v \in DOMAIN workers : v # w => workers'[v] = workers[v]
         /\ workers # << >> /\ workers' # << >>
         /\ todo' = todo /\ status = "running" /\ status' \in {"running", "killed", "undefined"}
         /\ UNCHANGED <<metainfo, announced, piece, output>>
         /\ Doing("workers")
  <1>1. workers \in [DOMAIN workers -> States] /\ DOMAIN workers \subseteq Nat
    BY DEF CommandsInv, Typed
  <1>2. /\ Doing("workers") /\ status = "running" /\ todo' = todo
        /\ status' \in {"running", "killed", "undefined"}
        /\ UNCHANGED <<metainfo, announced, piece, output>>
    BY DEF WorkerConnects, WorkerEnds, WorkerFails, WorkerGoesOn, Kill, Undefined, Doing
  <1>3. \/ workers' = [workers EXCEPT ![w] = "failed"]
        \/ workers' = [workers EXCEPT ![w] = "get"]
        \/ workers' = [workers EXCEPT ![w] = "done"]
        \/ workers' = workers
    BY DEF WorkerConnects, WorkerEnds, WorkerFails, WorkerGoesOn
  <1>4. {"failed", "get", "done"} \subseteq States
    BY DEF States
  <1>5. /\ DOMAIN workers' = DOMAIN workers /\ workers' \in [DOMAIN workers' -> States]
        /\ \A v \in DOMAIN workers : v # w => workers'[v] = workers[v]
    BY <1>1, <1>3, <1>4
  <1>6. DOMAIN << >> = {}
    OBVIOUS
  <1> QED
    BY <1>2, <1>5, <1>6

\* Types.
LEMMA TypedStep ==
  ASSUME CommandsInv, [Next]_vars
  PROVE  Typed'
  <1>1. call' \in Calls /\ torrent' \in Torrents /\ swarm' \in Swarms
    BY InputsKept DEF CommandsInv, Typed
  <1>2. todo' \in Seq(Steps)
    BY OrderStep DEF CommandsInv
  <1> DEFINE Rest ==
        /\ status' \in {"start", "running"} \cup Ended
        /\ piece' \in BOOLEAN
        /\ DOMAIN workers' \subseteq Nat /\ workers' \in [DOMAIN workers' -> States]
        /\ status' = "start" =>
             todo' = << >> /\ conns' = {} /\ workers' = << >> /\ output' = "before"
        /\ status' = "ok" => todo' = << >>
  <1> SUFFICES Rest
    BY <1>1, <1>2 DEF Typed
  <1>3. /\ status \in {"start", "running"} \cup Ended
        /\ piece \in BOOLEAN
        /\ DOMAIN workers \subseteq Nat /\ workers \in [DOMAIN workers -> States]
        /\ status = "start" =>
             todo = << >> /\ conns = {} /\ workers = << >> /\ output = "before"
        /\ status = "ok" => todo = << >>
    BY DEF CommandsInv, Typed
  <1>4. ASSUME NEW w \in DOMAIN workers, WorkerConnects(w) \/ WorkerEnds(w) PROVE Rest
    <2>1. /\ DOMAIN workers' = DOMAIN workers /\ workers' \in [DOMAIN workers' -> States]
          /\ status' \in {"running", "killed", "undefined"} /\ piece' = piece
      BY <1>4, WorkerMoves
    <2> QED BY <1>3, <2>1 DEF Ended
  <1>5. CASE Dispatch
    BY <1>3, <1>5 DEF Dispatch, result, Ended
  <1>6. CASE PrintValue \/ ParseArgument \/ ReadTorrent \/ ReadLink
    BY <1>3, <1>6 DEF PrintValue, ParseArgument, ReadTorrent, ReadLink, Done, Fail, result, Ended,
                      Doing
  <1>7. CASE Announce \/ TakePeer
    BY <1>3, <1>7 DEF Announce, TakePeer, Done, Fail, result, Ended, Doing
  <1>8. CASE Connect
    BY <1>3, <1>8 DEF Connect, Done, Fail, Kill, result, Ended, Doing
  <1>9. CASE TakeMetadata
    BY <1>3, <1>9 DEF TakeMetadata, Done, Fail, Kill, result, Ended, Doing
  <1>10. CASE GetPiece
    <2>1. /\ status' \in {"running", "error", "killed", "undefined"} /\ workers' = workers
      BY <1>10 DEF GetPiece, Done, Fail, Kill, Undefined, Doing
    <2>2. piece' \in BOOLEAN
      BY <1>10 DEF GetPiece
    <2> QED BY <1>3, <2>1, <2>2 DEF Ended
  <1>11. CASE WritePiece \/ Joined
    BY <1>3, <1>11 DEF WritePiece, Joined, Done, Fail, Ended, Doing
  <1>12. CASE PrepareFile
    <2>1. status' \in {"running", "error", "killed"} /\ piece' = piece
      BY <1>12 DEF PrepareFile, Done, Fail, Kill, Doing
    <2>2. Known
      BY <1>12, TorrentInHand DEF PrepareFile
    <2>3. NumWorkers \in Nat
      BY <2>2, WorkersCounted
    <2>4. workers' = workers \/ workers' = [w \in 0 .. NumWorkers - 1 |-> "connect"]
      BY <1>12 DEF PrepareFile
    <2>5. 0 .. NumWorkers - 1 \subseteq Nat /\ "connect" \in States
      BY <2>3 DEF States
    <2>6. DOMAIN workers' \subseteq Nat /\ workers' \in [DOMAIN workers' -> States]
      BY <1>3, <2>4, <2>5
    <2> QED BY <2>1, <2>6, <1>3 DEF Ended
  <1>13. CASE Return
    BY <1>3, <1>13 DEF Return, result, Ended
  <1>14. CASE Stopped \/ UNCHANGED vars
    BY <1>3, <1>14 DEF Stopped, vars, network, result
  <1> QED
    BY <1>4, <1>5, <1>6, <1>7, <1>8, <1>9, <1>10, <1>11, <1>12, <1>13, <1>14 DEF Next

\* What depends only on what the run meets.
LEMMA SameTorrent ==
  ASSUME [Next]_vars
  PROVE  /\ InfoHash(Info)' = InfoHash(Info) /\ TorrentHash' = TorrentHash
         /\ metainfo' = metainfo => Known' = Known
         /\ OnePiece' = OnePiece /\ WholeFile' = WholeFile /\ OfMagnet' = OfMagnet
         /\ NeedsTorrent' = NeedsTorrent /\ WorkersId' = WorkersId
  <1>1. call' = call /\ torrent' = torrent
    BY InputsKept
  <1>2. Info' = Info
    BY <1>1 DEF Info
  <1>3. InfoHash(Info)' = InfoHash(Info)
    BY <1>2
  <1>4. TorrentHash' = TorrentHash
    BY <1>1, <1>2 DEF TorrentHash
  <1>5. metainfo' = metainfo => Known' = Known
    BY <1>3 DEF Known, PieceCount
  <1> QED
    BY <1>1, <1>3, <1>4, <1>5 DEF OnePiece, WholeFile, OfMagnet, NeedsTorrent, WorkersId

\* What is known of the torrent, and when the output is touched.
LEMMA TorrentStep ==
  ASSUME CommandsInv, [Next]_vars
  PROVE  TorrentInv'
  <1>1. /\ metainfo' = metainfo => Known' = Known
        /\ WholeFile' = WholeFile /\ swarm' = swarm /\ torrent' = torrent
    BY SameTorrent, InputsKept
  <1>2. TorrentInv
    BY DEF CommandsInv
  <1>3. ASSUME UNCHANGED <<metainfo, output, piece>> PROVE TorrentInv'
    BY <1>1, <1>2, <1>3 DEF TorrentInv
  <1>4. CASE \E w \in DOMAIN workers : WorkerConnects(w) \/ WorkerEnds(w)
    BY <1>3, <1>4, WorkerMoves
  <1>5. CASE Dispatch \/ Return \/ PrintValue \/ ParseArgument \/ ReadLink
    BY <1>3, <1>5 DEF Dispatch, Return, PrintValue, ParseArgument, ReadLink, result
  <1>6. CASE Announce \/ TakePeer \/ Connect
    BY <1>3, <1>6 DEF Announce, TakePeer, Connect, result
  <1>7. CASE ReadTorrent
    <2>1. UNCHANGED <<output, piece>>
      BY <1>7 DEF ReadTorrent, result
    <2>2. CASE torrent.readable /\ Extractable(torrent.dict)
      <3>1. metainfo' # Unknown /\ Known'
        BY <1>1, <1>7, <2>2, TorrentKnown DEF ReadTorrent, CommandsInv, Typed
      <3> QED BY <1>1, <1>2, <2>1, <3>1 DEF TorrentInv
    <2>3. CASE ~(torrent.readable /\ Extractable(torrent.dict))
      BY <1>3, <1>7, <2>1, <2>3 DEF ReadTorrent
    <2> QED BY <2>2, <2>3
  <1>8. CASE TakeMetadata
    <2>1. UNCHANGED <<output, piece>>
      BY <1>8 DEF TakeMetadata, result
    <2>2. CASE InfoIsRead(Info) /\ metainfo' = FromInfoDict(Info)
      <3>1. metainfo' # Unknown /\ Known'
        BY <1>1, <2>2, MetadataKnown DEF CommandsInv, Typed
      <3> QED BY <1>1, <1>2, <2>1, <3>1 DEF TorrentInv
    <2>3. CASE UNCHANGED metainfo
      BY <1>3, <2>1, <2>3
    <2> QED BY <1>8, <2>2, <2>3 DEF TakeMetadata
  <1>9. CASE GetPiece
    <2>1. Left("piece")
      BY <1>9, StepUnderWay DEF GetPiece, CommandsInv, Typed
    <2>2. output' = "before" /\ metainfo' = metainfo
      BY <1>9, <2>1 DEF GetPiece, CommandsInv, Progress
    <2> QED BY <1>1, <1>2, <2>2 DEF TorrentInv
  <1>10. CASE WritePiece
    <2>1. Left("write") /\ ~Left("piece") /\ status = "running"
      BY <1>10, StepUnderWay DEF WritePiece, CommandsInv, Typed, InOrder, Doing
    <2>2. OnePiece /\ piece
      BY <2>1 DEF CommandsInv, OfTheCommand, Progress
    <2>3. ~WholeFile
      BY <2>2 DEF OnePiece, WholeFile
    <2>4. UNCHANGED <<metainfo, piece>>
      BY <1>10 DEF WritePiece
    <2> QED BY <1>1, <1>2, <2>2, <2>3, <2>4 DEF TorrentInv
  <1>11. CASE PrepareFile
    <2>1. Left("prepare") /\ metainfo # Unknown
      BY <1>11, StepUnderWay, TorrentInHand DEF PrepareFile, CommandsInv, Typed
    <2>2. WholeFile
      BY <2>1 DEF CommandsInv, OfTheCommand
    <2>3. UNCHANGED <<metainfo, piece>> /\ (output' = output \/ swarm.peers # << >>)
      BY <1>11 DEF PrepareFile
    <2> QED BY <1>1, <1>2, <2>1, <2>2, <2>3 DEF TorrentInv
  <1>12. CASE Joined
    <2>1. WholeFile /\ status = "running" /\ metainfo # Unknown
      BY <1>12, WorkerAtWork DEF Joined
    <2>2. Left("workers") /\ ~Left("prepare")
      BY <1>12, StepUnderWay DEF Joined, CommandsInv, Typed, InOrder
    <2>3. output # "before"
      BY <2>1, <2>2 DEF CommandsInv, Progress
    <2>4. UNCHANGED <<metainfo, piece>>
      BY <1>12 DEF Joined
    <2> QED BY <1>1, <1>2, <2>1, <2>3, <2>4 DEF TorrentInv
  <1>13. CASE Stopped \/ UNCHANGED vars
    BY <1>3, <1>13 DEF Stopped, vars, result
  <1> QED
    BY <1>4, <1>5, <1>6, <1>7, <1>8, <1>9, <1>10, <1>11, <1>12, <1>13 DEF Next

\* Whom the command told what.
LEMMA NamedStep ==
  ASSUME CommandsInv, [Next]_vars
  PROVE  NamedInv'
  <1>1. /\ InfoHash(Info)' = InfoHash(Info) /\ TorrentHash' = TorrentHash
        /\ OfMagnet' = OfMagnet /\ call' = call
    BY SameTorrent, InputsKept
  <1>2. NamedInv
    BY DEF CommandsInv
  <1>3. ASSUME UNCHANGED <<announced, named>>, workers # << >> => workers' # << >>
        PROVE  NamedInv'
    BY <1>1, <1>2, <1>3 DEF NamedInv
  <1>4. ASSUME NEW w \in DOMAIN workers, WorkerConnects(w) \/ WorkerEnds(w) PROVE NamedInv'
    <2>1. UNCHANGED announced /\ workers # << >> /\ workers' # << >>
      BY <1>4, WorkerMoves
    <2>2. WholeFile /\ Known
      BY <1>4, WorkerMoves, WorkerAtWork
    <2>3. CASE WorkerConnects(w)
      <3> DEFINE h == [hash |-> metainfo.infoHash, id |-> WorkersId]
      <3>1. named' = named \cup {h}
        BY <2>3 DEF WorkerConnects
      <3>2. h.hash = InfoHash(Info) /\ h.id = WorkersId
        BY <2>2 DEF Known
      <3>3. WorkersId = "first" \/ call.command = "download"
        BY <2>2, Programs DEF WorkersId, WholeFile, OfMagnet
      <3> HIDE DEF h
      <3> QED BY <1>1, <1>2, <2>1, <3>1, <3>2, <3>3 DEF NamedInv
    <2>4. CASE WorkerEnds(w)
      BY <1>3, <2>1, <2>4 DEF WorkerEnds
    <2> QED BY <1>4, <2>3, <2>4
  <1>5. CASE Dispatch \/ Return \/ PrintValue \/ ParseArgument \/ ReadTorrent \/ ReadLink
    BY <1>3, <1>5 DEF Dispatch, Return, PrintValue, ParseArgument, ReadTorrent, ReadLink,
                      network, result
  <1>6. CASE TakePeer \/ TakeMetadata
    BY <1>3, <1>6 DEF TakePeer, TakeMetadata, network, result
  <1>7. CASE Announce
    <2> DEFINE h == [hash |-> HashInHand, id |-> "first"]
    <2>1. announced' = announced \cup {h} /\ UNCHANGED <<named, workers>>
      BY <1>7 DEF Announce, result
    <2>2. /\ h.hash \in {TorrentHash, InfoHash(Info)} /\ (OfMagnet => h.hash = TorrentHash)
          /\ h.id = "first"
      BY <1>7, HashIsKnown DEF Announce
    <2> HIDE DEF h
    <2> QED BY <1>1, <1>2, <2>1, <2>2 DEF NamedInv
  <1>8. CASE Connect
    <2> DEFINE h == [hash |-> HashInHand, id |-> "first"]
    <2>1. named' = named \cup {h} /\ UNCHANGED <<announced, workers>>
      BY <1>8 DEF Connect, result
    <2>2. /\ h.hash \in {TorrentHash, InfoHash(Info)} /\ (OfMagnet => h.hash = TorrentHash)
          /\ h.id = "first"
      BY <1>8, HashIsKnown DEF Connect
    <2> HIDE DEF h
    <2> QED BY <1>1, <1>2, <2>1, <2>2 DEF NamedInv
  <1>9. CASE GetPiece \/ WritePiece \/ Joined
    BY <1>3, <1>9 DEF GetPiece, WritePiece, Joined, network
  <1>10. CASE PrepareFile
    <2>1. Left("prepare")
      BY <1>10, StepUnderWay DEF PrepareFile, CommandsInv, Typed
    <2>2. workers = << >>
      BY <2>1 DEF CommandsInv, Progress
    <2> QED BY <1>3, <1>10, <2>2 DEF PrepareFile, network
  <1>11. CASE Stopped \/ UNCHANGED vars
    BY <1>3, <1>11 DEF Stopped, vars, network, result
  <1> QED
    BY <1>4, <1>5, <1>6, <1>7, <1>8, <1>9, <1>10, <1>11 DEF Next

\* What the piece step may come to, by what it may be.
LEMMA PieceOutcome ==
  ASSUME CommandsInv, GetPiece
  PROVE  /\ OnePiece /\ Known /\ call.argument.index \in Int
         /\ \E outcome \in PieceOutcomes(call.argument.index) :
              /\ piece' = (outcome = "piece")
              /\ status' = "undefined" => outcome = "undefined"
              /\ status' = "error" => error' = outcome
              /\ status' \in {"running", "killed", "undefined"} => error' = error
              /\ status' \in {"running", "error", "killed", "undefined"}
              /\ status' = "running" => outcome = "piece"
  <1>1. Left("piece")
    BY StepUnderWay DEF GetPiece, CommandsInv, Typed
  <1>2. OnePiece /\ Known
    BY <1>1, TorrentInHand DEF GetPiece, CommandsInv, OfTheCommand
  <1>3. call.argument.index \in Int
    BY CommandsAssumption DEF CommandsInv, Typed, AllCalls, AllArguments
  <1>4. PICK outcome \in PieceOutcomes(call.argument.index) :
          /\ CASE outcome = "piece"     -> Done
               [] outcome = "killed"    -> Kill
               [] outcome = "undefined" -> Undefined
               [] OTHER                 -> Fail(outcome)
          /\ piece' = (outcome = "piece")
    BY DEF GetPiece
  <1>5. status = "running"
    BY DEF GetPiece, Doing
  <1>6. \/ outcome = "piece" /\ Done
        \/ outcome = "killed" /\ Kill
        \/ outcome = "undefined" /\ Undefined
        \/ outcome \notin {"piece", "killed", "undefined"} /\ Fail(outcome)
    BY <1>4
  <1>7. /\ status' = "undefined" => outcome = "undefined"
        /\ status' = "error" => error' = outcome
        /\ status' \in {"running", "killed", "undefined"} => error' = error
        /\ status' \in {"running", "error", "killed", "undefined"}
        /\ status' = "running" => outcome = "piece"
    BY <1>5, <1>6 DEF Done, Kill, Undefined, Fail
  <1> QED
    BY <1>2, <1>3, <1>4, <1>7

\* Where each outcome comes from.
LEMMA OutcomeCause ==
  ASSUME CommandsInv, Known, NEW index \in Int, NEW outcome \in PieceOutcomes(index)
  PROVE  /\ outcome \in {"lacks", "killed", "undefined", "length", "transfer", "piece", "mismatch"}
         /\ outcome \in {"piece", "undefined", "mismatch", "length", "transfer"} =>
              HasBit(index) \/ index <= -8
         /\ outcome = "undefined" =>
              \/ metainfo.pieceLength \notin BlockSize - Int32Max .. Int32Max - BlockSize
              \/ metainfo.length \notin Int32Max - Int64Max .. Int64Max - Int32Max
              \/ index \notin 0 .. PieceCount - 1
              \/ ~swarm.honest
         /\ outcome = "mismatch" /\ WellFormed => ~swarm.honest
  <1>1. outcome = "lacks" \/ (TRUE \in HasPiece(swarm.bits, index) /\ outcome \in Transfer(index))
    BY DEF PieceOutcomes
  <1>2. outcome \in Transfer(index) =>
          /\ outcome \in {"killed", "undefined", "length", "transfer", "piece", "mismatch"}
          /\ outcome = "undefined" =>
               \/ metainfo.pieceLength # 0 /\ OffsetOverflows(RequestedLen(index))
               \/ CountOverflows(metainfo.length, metainfo.pieceLength)
               \/ index \notin 0 .. PieceCount - 1
               \/ ~swarm.honest
          /\ outcome = "mismatch" =>
               index \in 0 .. PieceCount - 1 /\ (swarm.honest => RequestedLen(index) # TrueLen(index))
    BY DEF Transfer, Verdicts, Overrun
  <1>3. outcome \in {"piece", "undefined", "mismatch", "length", "transfer"} =>
              HasBit(index) \/ index <= -8
    <2>1. swarm \in Swarms
      BY DEF CommandsInv, Typed
    <2>2. TRUE \in HasPiece(swarm.bits, index) => HasBit(index) \/ index <= -8
      <3> SUFFICES ASSUME TRUE \in HasPiece(swarm.bits, index), ~(index <= -8)
                   PROVE  HasBit(index)
        OBVIOUS
      <3>1. index > -8
        OBVIOUS
      <3> QED BY <2>1, <3>1, PieceIsAnnounced
    <2> QED BY <1>1, <2>2
  <1>4. outcome = "undefined" =>
              \/ metainfo.pieceLength \notin BlockSize - Int32Max .. Int32Max - BlockSize
              \/ metainfo.length \notin Int32Max - Int64Max .. Int64Max - Int32Max
              \/ index \notin 0 .. PieceCount - 1
              \/ ~swarm.honest
    BY <1>1, <1>2, OverflowHasACause, CountHasACause
  <1>5. outcome = "mismatch" /\ WellFormed => ~swarm.honest
    BY <1>1, <1>2, RequestedIsTrue
  <1> QED
    BY <1>1, <1>2, <1>3, <1>4, <1>5

\* What became of the piece.
LEMMA PieceStep ==
  ASSUME CommandsInv, [Next]_vars
  PROVE  PieceInv'
  <1>1. /\ call' = call /\ swarm' = swarm /\ OnePiece' = OnePiece
        /\ \A index : HasBit(index)' = HasBit(index)
    BY InputsKept, SameTorrent DEF HasBit
  <1> DEFINE Asked == OnePiece /\ (piece \/ status = "undefined"
                                     \/ error \in {"mismatch", "length", "transfer"})
             Announced == HasBit(call.argument.index) \/ call.argument.index <= -8
             Near == \/ metainfo.pieceLength \notin BlockSize - Int32Max .. Int32Max - BlockSize
                     \/ metainfo.length \notin Int32Max - Int64Max .. Int64Max - Int32Max
                     \/ OnePiece /\ call.argument.index \notin 0 .. PieceCount - 1
                     \/ ~swarm.honest
  <1>2. /\ error = "mismatch" => status = "error"
        /\ Asked => Announced
        /\ status = "undefined" => Near
        /\ error = "mismatch" /\ WellFormed => ~swarm.honest
    BY DEF CommandsInv, PieceInv, AskedPiecesAreAnnounced, UndefinedHasACause, HonestPiecesVerify
  <1>3. Announced' = Announced /\ (metainfo' = metainfo => Near' = Near /\ WellFormed' = WellFormed)
    BY <1>1 DEF WellFormed, PieceCount
  <1> SUFFICES /\ error' = "mismatch" => status' = "error"
               /\ Asked' => Announced
               /\ status' = "undefined" => Near'
               /\ error' = "mismatch" /\ WellFormed' => ~swarm.honest
    BY <1>1, <1>3
    DEF PieceInv, AskedPiecesAreAnnounced, UndefinedHasACause, HonestPiecesVerify
  <1>4. ASSUME status = "running", status' # "undefined", piece' = piece,
               error' = error \/ error' \notin {"mismatch", "length", "transfer"}
        PROVE  /\ error' = "mismatch" => status' = "error"
               /\ Asked' => Announced
               /\ status' = "undefined" => Near'
               /\ error' = "mismatch" /\ WellFormed' => ~swarm.honest
    BY <1>1, <1>2, <1>4
  <1>5. ASSUME NEW w \in DOMAIN workers, WorkerConnects(w)
        PROVE  status = "running" /\ status' # "undefined" /\ piece' = piece
                 /\ error' \in {error, "refused", "connection"}
    BY <1>5 DEF WorkerConnects, WorkerFails, WorkerGoesOn, Kill, Doing
  <1>6. ASSUME NEW w \in DOMAIN workers, WorkerEnds(w)
        PROVE  /\ error' = "mismatch" => status' = "error"
               /\ Asked' => Announced
               /\ status' = "undefined" => Near'
               /\ error' = "mismatch" /\ WellFormed' => ~swarm.honest
    <2>1. /\ Doing("workers") /\ status = "running" /\ piece' = piece /\ metainfo' = metainfo
          /\ status' \in {"running", "killed", "undefined"}
      BY <1>6, WorkerMoves DEF WorkerEnds
    <2>2. error' \in {error, "piece"}
      BY <1>6 DEF WorkerEnds, WorkerFails, WorkerGoesOn, Kill, Undefined
    <2>3. WholeFile /\ ~OnePiece /\ Known
      BY <2>1, WorkerAtWork
    <2>4. error' # "mismatch"
      BY <1>2, <2>1, <2>2
    <2>5. ASSUME status' = "undefined" PROVE Near
      <3>2. PICK p \in Piece(w) : Breaks(p)
        BY <1>6, <2>1, <2>5 DEF WorkerEnds, WorkerFails, WorkerGoesOn, Kill
      <3>3. PieceCount \in Nat /\ NumWorkers \in Nat
        BY <2>3, WorkersCounted
      <3>4. w \in 0 .. NumWorkers - 1
        BY <1>6 DEF CommandsInv, ConnsInv
      <3>5. NumWorkers \in Nat \ {0}
        BY <3>3, <3>4
      <3>6. p \in 0 .. PieceCount - 1
        <4>1. /\ Ranges!RangeStart(PieceCount, NumWorkers, w) \in Nat
              /\ Ranges!RangeEnd(PieceCount, NumWorkers, w) \in Nat
              /\ Ranges!RangeEnd(PieceCount, NumWorkers, w) <= PieceCount
          BY <3>3, <3>4, <3>5, PiecesHaveHashes
        <4>2. p \in Ranges!RangeStart(PieceCount, NumWorkers, w)
                    .. Ranges!RangeEnd(PieceCount, NumWorkers, w) - 1
          BY <3>2 DEF Piece
        <4> QED BY <3>3, <4>1, <4>2
      <3>7. CASE "undefined" \in PieceOutcomes(p)
        BY <2>3, <3>3, <3>6, <3>7, OutcomeCause
      <3>8. CASE Offset(p) \notin Int64
        BY <2>3, <3>6, <3>8, OffsetFits
      <3> QED BY <3>2, <3>7, <3>8 DEF Breaks
    <2> QED BY <1>1, <1>3, <2>1, <2>3, <2>4, <2>5
  <1>7. CASE PrintValue \/ ParseArgument \/ ReadTorrent \/ ReadLink
    <2>1. status = "running" /\ status' # "undefined" /\ piece' = piece
            /\ error' \in {error, "value", "argument", "torrent", "link"}
      BY <1>7 DEF PrintValue, ParseArgument, ReadTorrent, ReadLink, Done, Fail, result, Doing
    <2> QED BY <1>4, <2>1
  <1>8. CASE Announce \/ TakePeer
    <2>1. status = "running" /\ status' # "undefined" /\ piece' = piece
            /\ error' \in {error, "announce", "nobody"}
      BY <1>8 DEF Announce, TakePeer, Done, Fail, result, Doing
    <2> QED BY <1>4, <2>1
  <1>9. CASE Connect \/ TakeMetadata
    <2>1. status = "running" /\ status' # "undefined" /\ piece' = piece
            /\ error' \in {error, "refused", "connection", "metadata"}
      BY <1>9 DEF Connect, TakeMetadata, Done, Fail, Kill, result, Doing
    <2> QED BY <1>4, <2>1
  <1>10. CASE WritePiece \/ PrepareFile
    <2>1. status = "running" /\ status' # "undefined" /\ piece' = piece
            /\ error' \in {error, "open", "nobody", "ftruncate"}
      BY <1>10 DEF WritePiece, PrepareFile, Done, Fail, Kill, Doing
    <2> QED BY <1>4, <2>1
  <1>11. CASE Joined
    <2>1. status = "running" /\ status' # "undefined" /\ piece' = piece /\ error' = error
      BY <1>11 DEF Joined, Done, Fail, Doing
    <2> QED BY <1>4, <2>1
  <1>12. CASE GetPiece
    <2> DEFINE index == call.argument.index
    <2>1. /\ OnePiece /\ Known /\ index \in Int /\ metainfo' = metainfo /\ status = "running"
      BY <1>12, PieceOutcome DEF GetPiece, Doing
    <2>2. PICK outcome \in PieceOutcomes(index) :
              /\ piece' = (outcome = "piece")
              /\ status' = "undefined" => outcome = "undefined"
              /\ status' = "error" => error' = outcome
              /\ status' \in {"running", "killed", "undefined"} => error' = error
              /\ status' \in {"running", "error", "killed", "undefined"}
      BY <1>12, PieceOutcome
    <2>3. /\ outcome \in {"piece", "undefined", "mismatch", "length", "transfer"} => Announced
          /\ outcome = "undefined" => Near
          /\ outcome = "mismatch" /\ WellFormed => ~swarm.honest
      BY <2>1, <2>2, OutcomeCause
    <2>4. error' = "mismatch" => status' = "error" /\ outcome = "mismatch"
      BY <1>2, <2>1, <2>2
    <2>5. Asked' => Announced
      BY <1>2, <2>1, <2>2, <2>3
    <2> QED BY <1>3, <2>1, <2>2, <2>3, <2>4, <2>5
  <1>13. CASE Dispatch \/ Return
    <2>1. status' # "undefined" /\ status \in {"start", "running"} /\ UNCHANGED <<piece, error, metainfo>>
      BY <1>13 DEF Dispatch, Return, result
    <2> QED BY <1>1, <1>2, <2>1
  <1>14. CASE Stopped \/ UNCHANGED vars
    <2>1. UNCHANGED <<status, error, piece, metainfo>>
      BY <1>14 DEF Stopped, vars, result
    <2> QED BY <1>1, <1>2, <1>3, <2>1
  <1> QED
    BY <1>4, <1>5, <1>6, <1>7, <1>8, <1>9, <1>10, <1>11, <1>12, <1>13, <1>14 DEF Next

\* Whose the connections are, and which workers have failed.
LEMMA ConnsStep ==
  ASSUME CommandsInv, [Next]_vars
  PROVE  ConnsInv'
  <1>1. /\ call' = call /\ swarm' = swarm /\ WholeFile' = WholeFile /\ WorkersId' = WorkersId
    BY InputsKept, SameTorrent
  <1>2. ConnsInv
    BY DEF CommandsInv
  <1>3. metainfo' = metainfo => NumWorkers' = NumWorkers
    BY <1>1 DEF NumWorkers, PieceCount
  <1>16. workers' = workers => MeetsItself' = MeetsItself
    BY <1>1 DEF MeetsItself, ListedTwice, PeerOf
  <1>17. MainConn' = MainConn /\ \A v : PeerOf(v)' = PeerOf(v)
    BY <1>1 DEF MainConn, Contact, PeerOf
  <1>4. ASSUME UNCHANGED <<metainfo, workers>> \/ (workers = << >> /\ workers' = << >>),
               conns' \in {conns, {}, conns \cup {MainConn}},
               MainConn \notin conns' \/ MainConn \in conns \/ call.command # "download",
               error' = error \/ error' \notin {"none", "refused"}
        PROVE  ConnsInv'
    <2>1. workers' = workers
      BY <1>4
    <2>2. \A c \in conns' : c \in conns \/ (c = MainConn /\ MainConn \in conns')
      BY <1>4
    <2>3. \A c \in conns' :
             \/ c = MainConn /\ call.command # "download"
             \/ \E w \in DOMAIN workers : c = Opened(PeerOf(w), WorkersId, w) /\ workers[w] = "get"
      BY <1>2, <1>4, <2>2 DEF ConnsInv
    <2>4. \A w \in DOMAIN workers : w \in 0 .. NumWorkers' - 1
      <3>1. CASE UNCHANGED metainfo
        BY <1>2, <1>3, <3>1 DEF ConnsInv
      <3>2. CASE workers = << >>
        BY <3>2
      <3> QED BY <1>4, <3>1, <3>2
    <2>5. \A w \in DOMAIN workers : workers[w] = "failed" => error' # "none"
      BY <1>2, <1>4 DEF ConnsInv
    <2>6. error' = "refused" => MeetsItself'
      BY <1>2, <1>4, <1>16, <2>1 DEF ConnsInv
    <2> QED BY <1>1, <1>2, <1>17, <2>1, <2>3, <2>4, <2>5, <2>6 DEF ConnsInv, Opened
  <1>5. CASE Dispatch \/ PrintValue \/ ParseArgument \/ ReadLink
    BY <1>4, <1>5 DEF Dispatch, PrintValue, ParseArgument, ReadLink, network, result, Done, Fail
  <1>6. CASE Announce \/ TakePeer
    BY <1>4, <1>6 DEF Announce, TakePeer, network, result, Done, Fail
  <1>7. CASE Return
    BY <1>4, <1>7 DEF Return, result
  <1>8. CASE ReadTorrent
    <2>1. Left("torrent")
      BY <1>8, StepUnderWay DEF ReadTorrent, CommandsInv, Typed
    <2>2. workers = << >>
      BY <2>1 DEF CommandsInv, Progress
    <2> QED BY <1>4, <1>8, <2>2 DEF ReadTorrent, network, result, Done, Fail
  <1>9. CASE TakeMetadata
    <2>1. Left("metadata")
      BY <1>9, StepUnderWay DEF TakeMetadata, CommandsInv, Typed
    <2>2. workers = << >>
      BY <2>1 DEF CommandsInv, Progress
    <2> QED BY <1>4, <1>9, <2>2 DEF TakeMetadata, network, result, Done, Fail, Kill
  <1>10. CASE Connect
    <2>1. Left("connect") /\ UNCHANGED <<metainfo, workers>>
      BY <1>10, StepUnderWay DEF Connect, CommandsInv, Typed, result
    <2>2. call.command # "download" /\ MainConn \notin conns
      BY <2>1 DEF CommandsInv, OfTheCommand, Progress
    <2>3. CASE Refuses(Contact, "first")
      <3>1. PICK c \in conns : c.peer = Contact /\ c.id = "first"
        BY <2>3 DEF Refuses
      <3>2. workers # << >>
        BY <1>2, <2>2, <3>1 DEF ConnsInv
      <3>3. call.command = "magnet_download"
        BY <1>2, <2>2, <3>2 DEF ConnsInv, WholeFile
      <3>4. error' = "refused" /\ conns' = conns
        BY <1>10, <2>3 DEF Connect, Fail
      <3>5. MeetsItself'
        BY <1>1, <3>3 DEF MeetsItself
      <3>6. \A w \in DOMAIN workers' : workers'[w] = "failed" => error' # "none"
        BY <3>4
      <3> QED BY <1>1, <1>2, <1>3, <1>17, <2>1, <3>3, <3>4, <3>5, <3>6 DEF ConnsInv, Opened
    <2>4. CASE ~Refuses(Contact, "first")
      <3>1. conns' \in {conns, conns \cup {MainConn}} /\ error' \in {error, "connection"}
        BY <1>10, <2>4 DEF Connect, Done, Fail, Kill, MainConn
      <3> QED BY <1>4, <2>1, <2>2, <3>1
    <2> QED BY <2>3, <2>4
  <1>11. CASE GetPiece
    <2>1. UNCHANGED <<metainfo, workers, conns>>
      BY <1>11 DEF GetPiece, network
    <2>2. error' = error \/ error' \notin {"none", "refused"}
      <3>1. \E outcome \in PieceOutcomes(call.argument.index) :
              /\ status' = "error" => error' = outcome
              /\ status' \in {"running", "killed", "undefined"} => error' = error
              /\ status' \in {"running", "error", "killed", "undefined"}
        BY <1>11, PieceOutcome
      <3>2. Known /\ call.argument.index \in Int
        BY <1>11, PieceOutcome
      <3>3. \A outcome \in PieceOutcomes(call.argument.index) : outcome \notin {"none", "refused"}
        BY <3>2, OutcomeCause
      <3> QED BY <3>1, <3>3
    <2> QED BY <1>4, <2>1, <2>2
  <1>12. CASE WritePiece \/ Joined
    BY <1>4, <1>12 DEF WritePiece, Joined, network, Done, Fail
  <1>13. CASE PrepareFile
    <2>1. Left("prepare") /\ UNCHANGED <<metainfo, conns>>
      BY <1>13, StepUnderWay DEF PrepareFile, CommandsInv, Typed, network
    <2>2. workers = << >> /\ WholeFile
      BY <2>1 DEF CommandsInv, Progress, OfTheCommand
    <2>3. error' = error \/ error' \notin {"none", "refused"}
      BY <1>13 DEF PrepareFile, Done, Fail, Kill
    <2>4. CASE workers' = workers
      BY <1>4, <2>1, <2>3, <2>4
    <2>5. CASE workers' = [w \in 0 .. NumWorkers - 1 |-> "connect"]
      <3>1. \A c \in conns : c = MainConn /\ call.command # "download"
        BY <1>2, <2>2 DEF ConnsInv
      <3>2. /\ DOMAIN workers' = 0 .. NumWorkers - 1
            /\ \A w \in DOMAIN workers' : workers'[w] = "connect"
        BY <2>5
      <3>3. NumWorkers' = NumWorkers
        BY <1>3, <2>1
      <3>4. error' = "refused" => MeetsItself'
        <4>1. error = "refused" => call.command = "magnet_download"
          BY <1>2, <2>2 DEF ConnsInv, MeetsItself, ListedTwice
        <4> QED BY <1>1, <2>3, <4>1 DEF MeetsItself
      <3> QED BY <1>1, <1>17, <2>1, <2>2, <3>1, <3>2, <3>3, <3>4 DEF ConnsInv, Opened
    <2> QED BY <1>13, <2>4, <2>5 DEF PrepareFile
  <1>14. ASSUME NEW w \in DOMAIN workers, WorkerConnects(w) \/ WorkerEnds(w) PROVE ConnsInv'
    <2>1. /\ DOMAIN workers' = DOMAIN workers /\ workers # << >> /\ workers' # << >>
          /\ \A v \in DOMAIN workers : v # w => workers'[v] = workers[v]
          /\ status = "running" /\ UNCHANGED metainfo /\ Doing("workers") /\ WholeFile
      BY <1>14, WorkerMoves, WorkerAtWork
    <2>2. ~Left("connect")
      BY <2>1, StepUnderWay DEF CommandsInv, Typed, InOrder
    <2>3. \A v \in DOMAIN workers :
             Opened(PeerOf(v), WorkersId, v) = Opened(PeerOf(w), WorkersId, w) => v = w
      BY DEF Opened
    <2>4. call.command = "magnet_download" => MainConn \in conns
      BY <2>1, <2>2 DEF CommandsInv, Progress
    <2>5. workers \in [DOMAIN workers -> States]
      BY DEF CommandsInv, Typed
    <2>11. Known
      BY <2>1, WorkerAtWork
    <2> DEFINE Mains(c)  == c = MainConn /\ call.command # "download"
               Work(c)   == \E v \in DOMAIN workers :
                              c = Opened(PeerOf(v), WorkersId, v) /\ workers[v] = "get"
               Worked(c) == \E v \in DOMAIN workers :
                              c = Opened(PeerOf(v), WorkersId, v) /\ workers'[v] = "get"
    <2>6. \A c \in conns : Mains(c) \/ Work(c)
      BY <1>2 DEF ConnsInv
    <2>7. /\ \A c \in conns' : Mains(c) \/ Worked(c)
          /\ \A v \in DOMAIN workers : workers'[v] = "failed" => error' # "none"
          /\ \A v \in DOMAIN workers : workers'[v] = "done" => call.disk = "free"
          /\ call.command = "magnet_download" /\ swarm.exclusive /\ 0 \in DOMAIN workers =>
               workers'[0] \in {"connect", "failed"}
          /\ error' = "refused" => MeetsItself
      <3>1. /\ \A v \in DOMAIN workers : workers[v] = "failed" => error # "none"
            /\ \A v \in DOMAIN workers : workers[v] = "done" => call.disk = "free"
            /\ call.command = "magnet_download" /\ swarm.exclusive /\ 0 \in DOMAIN workers =>
                 workers[0] \in {"connect", "failed"}
            /\ error = "refused" => MeetsItself
        BY <1>2 DEF ConnsInv
      <3>2. CASE WorkerConnects(w)
        <4>1. workers[w] = "connect"
          BY <3>2 DEF WorkerConnects
        <4>2. \A c \in conns : Mains(c) \/ Worked(c)
          BY <2>1, <2>6, <4>1
        <4>3. CASE Refuses(PeerOf(w), WorkersId)
          <5>1. /\ workers' = [workers EXCEPT ![w] = "failed"] /\ conns' = conns
                /\ error' = IF error = "none" THEN "refused" ELSE error
            BY <3>2, <4>3 DEF WorkerConnects, WorkerFails
          <5>2. PICK c \in conns : c.peer = PeerOf(w) /\ c.id = WorkersId
            BY <4>3 DEF Refuses
          <5>3. Work(c) => ListedTwice
            BY <4>1, <5>2 DEF Opened, ListedTwice
          <5>4. MeetsItself
            BY <2>1, <2>6, <5>3 DEF WholeFile, MeetsItself
          <5>5. workers'[w] = "failed" /\ error' # "none"
            BY <2>5, <5>1
          <5> QED BY <2>1, <3>1, <4>2, <5>1, <5>4, <5>5
        <4>4. CASE ~Refuses(PeerOf(w), WorkersId)
          <5>1. w = 0 => ~(call.command = "magnet_download" /\ swarm.exclusive)
            <6> SUFFICES ASSUME w = 0, call.command = "magnet_download", swarm.exclusive PROVE FALSE
              OBVIOUS
            <6>1. WorkersId = "first" /\ MainConn \in conns
              BY <2>4, Programs DEF WorkersId, OfMagnet
            <6>2. MainConn.peer = Contact /\ MainConn.id = "first"
              BY DEF MainConn, Opened
            <6>3. Contact = PeerOf(w)
              BY <5>1 DEF Contact, PeerOf
            <6> QED BY <4>4, <6>1, <6>2, <6>3 DEF Refuses
          <5>2. CASE WorkerGoesOn(w, "get") /\ conns' = conns \cup {Opened(PeerOf(w), WorkersId, w)}
            <6>1. workers'[w] = "get" /\ error' = error
              BY <2>5, <5>2 DEF WorkerGoesOn
            <6>2. \A c \in conns' : Mains(c) \/ Worked(c)
              BY <4>2, <5>2, <6>1
            <6>3. \A v \in DOMAIN workers : workers'[v] = "failed" => error' # "none"
              BY <2>1, <3>1, <6>1
            <6> QED BY <2>1, <3>1, <5>1, <6>1, <6>2, <6>3
          <5>3. CASE WorkerFails(w, "connection") /\ conns' = conns
            <6>1. /\ workers'[w] = "failed" /\ error' # "none" /\ error' \in {error, "connection"}
              BY <2>5, <5>3 DEF WorkerFails
            <6> QED BY <2>1, <3>1, <4>2, <5>3, <6>1
          <5>4. CASE Kill /\ UNCHANGED <<conns, workers>>
            BY <2>6, <3>1, <5>4 DEF Kill
          <5> QED BY <3>2, <4>4, <5>2, <5>3, <5>4 DEF WorkerConnects
        <4> QED BY <4>3, <4>4
      <3>3. CASE WorkerEnds(w)
        <4>1. workers[w] = "get" /\ conns' = conns \ {Opened(PeerOf(w), WorkersId, w)}
          BY <3>3 DEF WorkerEnds
        <4>2. \A c \in conns' : Mains(c) \/ Worked(c)
          BY <2>1, <2>6, <4>1
        <4>3. w = 0 => ~(call.command = "magnet_download" /\ swarm.exclusive)
          BY <3>1, <4>1
        <4>4. CASE WorkerGoesOn(w, "done")
          <5>1. workers'[w] = "done" /\ error' = error
            BY <2>5, <4>4 DEF WorkerGoesOn
          <5>2. \A v \in DOMAIN workers : workers'[v] = "failed" => error' # "none"
            BY <2>1, <3>1, <5>1
          <5>3. call.disk = "free"
            <6>1. PieceCount \in Nat /\ NumWorkers \in Nat /\ Len(swarm.peers) \in Nat
              BY <2>11, WorkersCounted
            <6>2. w \in 0 .. NumWorkers - 1 /\ NumWorkers <= PieceCount
              BY <1>2, <6>1 DEF ConnsInv, NumWorkers
            <6>3. /\ Ranges!RangeStart(PieceCount, NumWorkers, w) \in Nat
                  /\ Ranges!RangeEnd(PieceCount, NumWorkers, w) \in Nat
                  /\ Ranges!RangeStart(PieceCount, NumWorkers, w)
                       < Ranges!RangeEnd(PieceCount, NumWorkers, w)
              <7>1. NumWorkers \in Nat \ {0}
                BY <6>1, <6>2
              <7> QED BY <6>1, <6>2, <7>1, PiecesHaveHashes
            <6>4. Ranges!RangeStart(PieceCount, NumWorkers, w) \in Piece(w)
              BY <6>3 DEF Piece
            <6>5. \A p \in Piece(w) : Taken(p)
              <7>1. workers' # workers
                BY <4>1, <5>1
              <7>2. ~WorkerFails(w, "piece")
                BY <2>5, <5>1 DEF WorkerFails
              <7> QED BY <3>3, <7>1, <7>2 DEF WorkerEnds
            <6> QED BY <6>4, <6>5 DEF Taken
          <5> QED BY <2>1, <3>1, <4>2, <4>3, <5>1, <5>2, <5>3
        <4>5. CASE WorkerFails(w, "piece")
          <5>1. /\ workers'[w] = "failed" /\ error' # "none" /\ error' \in {error, "piece"}
            BY <2>5, <4>5 DEF WorkerFails
          <5> QED BY <2>1, <3>1, <4>2, <5>1
        <4>6. CASE (Kill \/ Undefined) /\ UNCHANGED workers
          BY <3>1, <4>2, <4>6 DEF Kill, Undefined
        <4> QED BY <3>3, <4>4, <4>5, <4>6 DEF WorkerEnds
      <3> QED BY <1>14, <3>2, <3>3
    <2>8. \A v \in DOMAIN workers : v \in 0 .. NumWorkers - 1
      BY <1>2 DEF ConnsInv
    <2>9. NumWorkers' = NumWorkers
      BY <1>3, <2>1
    <2> HIDE DEF Mains, Work
    <2>10. \A c \in conns' :
              Mains(c) \/ \E v \in DOMAIN workers' :
                           c = Opened(PeerOf(v)', WorkersId', v) /\ workers'[v] = "get"
      BY <1>1, <1>17, <2>1, <2>7
    <2>12. MeetsItself' = MeetsItself
      BY <1>1, <2>1 DEF MeetsItself, ListedTwice, PeerOf
    <2> QED BY <1>1, <1>17, <2>1, <2>7, <2>8, <2>9, <2>10, <2>12 DEF ConnsInv, Mains, Opened
  <1>15. CASE Stopped \/ UNCHANGED vars
    BY <1>4, <1>15 DEF Stopped, vars, network, result
  <1> QED
    BY <1>5, <1>6, <1>7, <1>8, <1>9, <1>10, <1>11, <1>12, <1>13, <1>14, <1>15 DEF Next

\* What a handler's step leaves of those to do: fewer, and only itself less.
LEMMA LeftMoves ==
  ASSUME CommandsInv, NEW s, Doing(s),
         Done \/ (UNCHANGED todo /\ status' \notin {"running", "ok"})
  PROVE  /\ Left(s) /\ status = "running" /\ \A b : b # s /\ Never(s, b) => ~Left(b)
         /\ \A a : Left(a)' => Left(a)
         /\ status' \in {"running", "ok"} => \A a : a # s /\ Left(a) => Left(a)'
         /\ status' \in {"running", "ok"} /\ Never(s, s) => ~Left(s)'
  <1>1. todo \in Seq(Steps) /\ status = "running"
    BY DEF CommandsInv, Typed, Doing
  <1>2. Left(s) /\ \A b : b # s /\ Never(s, b) => ~Left(b)
    BY <1>1, StepUnderWay
  <1>3. CASE Done
    BY <1>1, <1>2, <1>3, StepTaken DEF Done
  <1>4. CASE UNCHANGED todo /\ status' \notin {"running", "ok"}
    BY <1>1, <1>2, <1>4 DEF Left
  <1> QED BY <1>3, <1>4

\* What was brought about stays, and each step brings about its own.
LEMMA ProgressStep ==
  ASSUME CommandsInv, [Next]_vars
  PROVE  Progress'
  <1>1. /\ call' = call /\ swarm' = swarm /\ OnePiece' = OnePiece /\ WholeFile' = WholeFile
        /\ OfMagnet' = OfMagnet /\ NeedsTorrent' = NeedsTorrent
    BY InputsKept, SameTorrent
  <1>2. /\ Progress /\ InOrder /\ OfTheCommand
    BY DEF CommandsInv
  <1>3. ~(OnePiece /\ WholeFile)
    BY DEF OnePiece, WholeFile
  <1>4. MainConn' = MainConn /\ (metainfo' = metainfo => WellFormed' = WellFormed)
    BY <1>1 DEF MainConn, Contact, WellFormed, PieceCount
  <1> DEFINE Moved(s) == /\ Doing(s)
                         /\ Done \/ (UNCHANGED todo /\ status' \notin {"running", "ok"})
  <1>5. ASSUME NEW s \in {"value", "argument", "link", "announce", "peer"}, Moved(s),
               UNCHANGED <<metainfo, conns, result>>
        PROVE  Progress'
    <2>1. /\ status = "running" /\ \A a : Left(a)' => Left(a)
          /\ status' \in {"running", "ok"} => \A a : a # s /\ Left(a) => Left(a)'
      BY <1>5, LeftMoves
    <2> QED BY <1>1, <1>2, <1>4, <1>5, <2>1 DEF Progress, result
  <1>6. CASE PrintValue \/ ParseArgument \/ ReadLink
    BY <1>5, <1>6 DEF PrintValue, ParseArgument, ReadLink, network, Fail
  <1>7. CASE Announce \/ TakePeer
    BY <1>5, <1>7 DEF Announce, TakePeer, network, Fail
  <1>8. CASE Dispatch
    <2>1. /\ conns = {} /\ workers = << >> /\ output = "before"
          /\ UNCHANGED <<metainfo, conns, result>> /\ status' \in {"running", "usage"}
      BY <1>8 DEF Dispatch, CommandsInv, Typed, network
    <2>2. CASE status' = "running"
      <3>1. Begun'
        BY <1>8, <2>2, DispatchBegins DEF CommandsInv
      <3>2. WholeFile' /\ call'.command = "magnet_download" => Left("workers")'
        BY <3>1 DEF Begun
      <3>3. call.command = "magnet_download" => WholeFile
        BY DEF WholeFile
      <3> QED BY <1>1, <1>4, <2>1, <2>2, <3>1, <3>2, <3>3 DEF Progress, Begun, result
    <2>3. CASE status' = "usage"
      <3>1. todo' = << >>
        BY <1>8, <2>3 DEF Dispatch, CommandsInv, Typed
      <3>2. \A a : ~Left(a)'
        BY <3>1 DEF Left
      <3> QED BY <2>3, <3>2 DEF Progress
    <2> QED BY <2>1, <2>2, <2>3
  <1>9. CASE Return
    <2>1. /\ \A a : Left(a)' = Left(a) /\ status = "running" /\ status' = "ok" /\ conns' = {}
          /\ UNCHANGED <<metainfo, result>>
      BY <1>9 DEF Return, Left
    <2> QED BY <1>1, <1>2, <1>4, <2>1 DEF Progress, result
  <1>10. CASE ReadTorrent
    <2>1. Moved("torrent") /\ UNCHANGED <<conns, result>>
      BY <1>10 DEF ReadTorrent, network, Fail
    <2>2. /\ status = "running" /\ \A a : Left(a)' => Left(a)
          /\ status' \in {"running", "ok"} => \A a : a # "torrent" /\ Left(a) => Left(a)'
      BY <2>1, LeftMoves
    <2>3. status' \in {"running", "ok"} => metainfo' # Unknown
      <3>1. status' \in {"running", "ok"} => /\ torrent.readable /\ Extractable(torrent.dict)
                                             /\ metainfo' = Extract(torrent.dict)
        BY <1>10 DEF ReadTorrent, Fail
      <3>2. torrent \in Torrents /\ torrent' = torrent
        BY InputsKept DEF CommandsInv, Typed
      <3> QED BY <3>1, <3>2, TorrentKnown
    <2>4. WholeFile => Left("workers")
      <3>1. Left("torrent")
        BY <2>1, LeftMoves
      <3> QED BY <1>2, <2>2, <3>1 DEF Progress, OfTheCommand
    <2> QED BY <1>1, <1>2, <1>4, <2>1, <2>2, <2>3, <2>4 DEF Progress, result
  <1>11. CASE TakeMetadata
    <2>1. Moved("metadata") /\ UNCHANGED <<conns, result>>
      BY <1>11 DEF TakeMetadata, network, Fail, Kill
    <2>2. /\ status = "running" /\ \A a : Left(a)' => Left(a)
          /\ status' \in {"running", "ok"} => \A a : a # "metadata" /\ Left(a) => Left(a)'
      BY <2>1, LeftMoves
    <2>3. status' \in {"running", "ok"} => metainfo' # Unknown
      <3>1. status' \in {"running", "ok"} => InfoIsRead(Info) /\ metainfo' = FromInfoDict(Info)
        BY <1>11 DEF TakeMetadata, Fail, Kill
      <3>2. torrent \in Torrents /\ torrent' = torrent
        BY InputsKept DEF CommandsInv, Typed
      <3> QED BY <3>1, <3>2, MetadataKnown
    <2>4. WholeFile => Left("workers")
      <3>1. Left("metadata")
        BY <2>1, LeftMoves
      <3> QED BY <1>2, <2>2, <3>1 DEF Progress, OfTheCommand
    <2> QED BY <1>1, <1>2, <1>4, <2>1, <2>2, <2>3, <2>4 DEF Progress, result
  <1>12. CASE Connect
    <2>1. Moved("connect") /\ UNCHANGED <<metainfo, result>>
      BY <1>12 DEF Connect, Done, Fail, Kill
    <2>2. /\ status = "running" /\ \A a : Left(a)' => Left(a)
          /\ status' \in {"running", "ok"} => \A a : a # "connect" /\ Left(a) => Left(a)'
          /\ status' \in {"running", "ok"} => ~Left("connect")'
          /\ Left("connect")
      BY <1>2, <2>1, LeftMoves DEF InOrder
    <2>3. \/ status' \in {"running", "ok"} /\ MainConn \in conns'
          \/ status' \notin {"running", "ok"} /\ conns' = conns
      BY <1>12, <2>2 DEF Connect, Done, Fail, Kill, MainConn
    <2> QED BY <1>1, <1>2, <1>4, <2>1, <2>2, <2>3 DEF Progress, result
  <1>13. CASE GetPiece
    <2>1. /\ status' = "running" => piece' = TRUE
          /\ UNCHANGED <<metainfo, conns, output, workers>>
      BY <1>13, PieceOutcome DEF GetPiece, network
    <2>2. Moved("piece")
      BY <1>13 DEF GetPiece, Fail, Kill, Undefined
    <2>3. /\ status = "running" /\ \A a : Left(a)' => Left(a)
          /\ status' \in {"running", "ok"} => \A a : a # "piece" /\ Left(a) => Left(a)'
          /\ status' # "ok"
      BY <1>13, <2>2, LeftMoves, PieceOutcome
    <2> QED BY <1>1, <1>2, <1>4, <2>1, <2>3 DEF Progress
  <1>14. CASE WritePiece
    <2>1. /\ Moved("write") /\ UNCHANGED <<metainfo, conns, piece, workers>>
          /\ \/ status' \notin {"running", "ok"} /\ output' = output
             \/ output' = IF call.disk = "full" THEN "short" ELSE "whole"
      BY <1>14 DEF WritePiece, network, Fail
    <2>2. /\ status = "running" /\ \A a : Left(a)' => Left(a)
          /\ status' \in {"running", "ok"} => \A a : a # "write" /\ Left(a) => Left(a)'
          /\ Left("write") /\ ~Left("piece")
      BY <1>2, <2>1, LeftMoves DEF InOrder
    <2>3. OnePiece /\ ~WholeFile
      BY <1>2, <1>3, <2>2 DEF OfTheCommand
    <2>4. call.command # "magnet_download"
      BY <2>3 DEF WholeFile
    <2> QED BY <1>1, <1>2, <1>4, <2>1, <2>2, <2>3, <2>4 DEF Progress
  <1>15. CASE PrepareFile
    <2>1. Moved("prepare") /\ UNCHANGED <<metainfo, conns, piece>>
      BY <1>15 DEF PrepareFile, network, Fail, Kill
    <2>2. /\ status = "running" /\ \A a : Left(a)' => Left(a)
          /\ status' \in {"running", "ok"} => \A a : a # "prepare" /\ Left(a) => Left(a)'
          /\ status' \in {"running", "ok"} => ~Left("prepare")'
          /\ Left("prepare") /\ ~Left("torrent") /\ ~Left("metadata")
      BY <1>2, <2>1, LeftMoves DEF InOrder
    <2>3. WholeFile /\ ~OnePiece /\ Left("workers") /\ ~Left("piece") /\ workers = << >>
      BY <1>2, <1>3, <2>2 DEF OfTheCommand, Progress
    <2>4. CASE workers' = workers
      <3>1. status' \notin {"running", "ok"}
        BY <1>15, <2>2, <2>3, <2>4, WorkersCounted, TorrentInHand DEF PrepareFile, Fail, Kill
      <3> QED BY <1>1, <1>2, <1>4, <2>1, <2>2, <2>3, <2>4, <3>1 DEF Progress
    <2>5. CASE /\ swarm.peers # << >> /\ output' = "sized"
               /\ IF PieceCount = 0 THEN Kill ELSE Done
               /\ workers' = [w \in 0 .. NumWorkers - 1 |-> "connect"]
      <3>1. Known
        BY <1>15, TorrentInHand DEF PrepareFile
      <3>2. /\ NumWorkers \in Nat /\ Len(swarm.peers) \in Nat
            /\ PieceCount # 0 => NumWorkers > 0
        BY <2>5, <3>1, WorkersCounted
      <3>3. CASE PieceCount = 0
        <4>1. NumWorkers = 0 /\ status' = "killed"
          BY <2>5, <3>2, <3>3 DEF NumWorkers, Kill
        <4>2. workers' = [w \in {} |-> "connect"]
          BY <2>5, <4>1
        <4>3. workers' = << >>
          BY <4>2
        <4> QED BY <1>1, <1>2, <1>4, <2>1, <2>2, <2>3, <4>1, <4>3 DEF Progress
      <3>4. CASE PieceCount # 0
        <4>1. 0 \in DOMAIN workers' /\ status' = "running"
          BY <2>2, <2>5, <3>2, <3>4 DEF Done
        <4> QED BY <1>1, <1>2, <1>4, <2>1, <2>2, <2>3, <2>5, <4>1 DEF Progress
      <3> QED BY <3>3, <3>4
    <2> QED BY <1>15, <2>4, <2>5 DEF PrepareFile
  <1>16. CASE Joined
    <2>1. Moved("workers") /\ UNCHANGED <<metainfo, conns, piece, workers>>
      BY <1>16 DEF Joined, network, Fail
    <2>2. /\ status = "running" /\ \A a : Left(a)' => Left(a)
          /\ status' \in {"running", "ok"} => \A a : a # "workers" /\ Left(a) => Left(a)'
          /\ Left("workers") /\ ~Left("prepare")
      BY <1>2, <2>1, LeftMoves DEF InOrder
    <2>3. WholeFile /\ ~OnePiece /\ ~Left("piece") /\ 0 \in DOMAIN workers
      BY <1>2, <1>3, <2>2 DEF OfTheCommand, Progress
    <2>4. \/ status' \notin {"running", "ok"} /\ output' = output
          \/ error = "none" /\ output' = Written
      BY <1>16 DEF Joined, Fail
    <2>5. error = "none" => ~(call.command = "magnet_download" /\ swarm.exclusive)
      <3>1. workers[0] \in {"done", "failed"}
        BY <1>16, <2>3 DEF Joined
      <3> QED BY <2>3, <3>1 DEF CommandsInv, ConnsInv
    <2>6. error = "none" => call.disk = "free"
      <3>1. workers[0] \in {"done", "failed"}
        BY <1>16, <2>3 DEF Joined
      <3> QED BY <2>3, <3>1 DEF CommandsInv, ConnsInv
    <2>7. WellFormed => Written = "whole"
      <3>1. Known
        BY <1>16, WorkerAtWork DEF Joined
      <3>2. WellFormed => \A p \in 0 .. PieceCount - 1 : RequestedLen(p) = TrueLen(p)
        BY <3>1, RequestedIsTrue
      <3>3. WellFormed => PieceCount = NumPieces(metainfo.length, metainfo.pieceLength)
        BY DEF WellFormed
      <3> QED BY <3>2, <3>3 DEF Written
    <2>8. call'.disk = call.disk /\ WellFormed' = WellFormed
      BY <1>1, <1>4, <2>1
    <2> QED BY <1>1, <1>2, <1>4, <2>1, <2>2, <2>3, <2>4, <2>5, <2>6, <2>7, <2>8 DEF Progress
  <1>17. ASSUME NEW w \in DOMAIN workers, WorkerConnects(w) \/ WorkerEnds(w) PROVE Progress'
    <2>1. /\ DOMAIN workers' = DOMAIN workers /\ todo' = todo /\ status = "running"
          /\ status' \in {"running", "killed", "undefined"}
          /\ UNCHANGED <<metainfo, piece, output>> /\ Doing("workers")
      BY <1>17, WorkerMoves
    <2>2. /\ ~Left("torrent") /\ ~Left("metadata") /\ ~Left("prepare") /\ ~Left("connect")
      BY <1>2, <2>1, StepUnderWay DEF InOrder, CommandsInv, Typed
    <2>3. \A a : Left(a)' = Left(a)
      BY <2>1 DEF Left
    <2>4. MainConn \in conns => MainConn \in conns'
      <3>1. MainConn # Opened(PeerOf(w), WorkersId, w)
        <4>1. w \in Nat
          BY <1>17 DEF CommandsInv, Typed
        <4>2. MainConn.owner = -1 /\ Opened(PeerOf(w), WorkersId, w).owner = w
          BY DEF MainConn, Opened, Main
        <4> QED BY <4>1, <4>2
      <3> QED BY <1>17, <3>1 DEF WorkerConnects, WorkerEnds
    <2> QED BY <1>1, <1>2, <1>4, <2>1, <2>2, <2>3, <2>4 DEF Progress
  <1>18. CASE Stopped \/ UNCHANGED vars
    <2>1. UNCHANGED <<status, metainfo, conns, piece, output, workers>> /\ \A a : Left(a)' = Left(a)
      BY <1>18 DEF Stopped, vars, network, result, Left
    <2> QED BY <1>1, <1>2, <1>4, <2>1 DEF Progress
  <1> QED
    BY <1>6, <1>7, <1>8, <1>9, <1>10, <1>11, <1>12, <1>13, <1>14, <1>15, <1>16, <1>17, <1>18 DEF Next

----------------------------------------------------------------------------
(* The invariant, and what it says *)

LEMMA InitInv == Init => CommandsInv
  <1> SUFFICES ASSUME Init PROVE CommandsInv
    OBVIOUS
  <1>1. /\ call \in Calls /\ torrent \in Torrents /\ swarm \in Swarms
        /\ todo = << >> /\ status = "start" /\ error = "none" /\ metainfo = Unknown
        /\ announced = {} /\ conns = {} /\ named = {}
        /\ piece = FALSE /\ output = "before" /\ workers = << >>
    BY DEF Init
  <1>2. Typed
    <2>1. DOMAIN workers = {} /\ workers \in [DOMAIN workers -> States]
      BY <1>1
    <2>2. todo \in Seq(Steps)
      BY <1>1
    <2>3. status \in {"start", "running"} \cup Ended /\ status # "ok"
      BY <1>1
    <2>4. piece \in BOOLEAN
      BY <1>1
    <2> QED BY <1>1, <2>1, <2>2, <2>3, <2>4 DEF Typed
  <1>3. InOrder /\ OfTheCommand /\ \A a : ~Left(a)
    BY <1>1 DEF InOrder, OfTheCommand, Never, Left
  <1>4. Progress
    BY <1>1, <1>3 DEF Progress
  <1>5. TorrentInv /\ ConnsInv /\ NamedInv
    BY <1>1 DEF TorrentInv, ConnsInv, NamedInv
  <1>6. PieceInv
    BY <1>1 DEF PieceInv, AskedPiecesAreAnnounced, UndefinedHasACause, HonestPiecesVerify
  <1> QED BY <1>2, <1>3, <1>4, <1>5, <1>6 DEF CommandsInv

\* Of every command line, torrent and swarm, at every step of the program.
THEOREM Invariant == Spec => []CommandsInv
  <1>1. Init => CommandsInv
    BY InitInv
  <1>2. CommandsInv /\ [Next]_vars => CommandsInv'
    BY TypedStep, OrderStep, ProgressStep, TorrentStep, ConnsStep, NamedStep, PieceStep
    DEF CommandsInv
  <1> QED BY <1>1, <1>2, PTL DEF Spec

\* The tracker and the peers are told the hash of the torrent as it is spelled:
\* the workers, and the commands on a file, whose hash is of the decoded
\* dictionary, name another only when that is not spelled in the one way it can
\* be encoded in.
THEOREM CommandsNameTheTorrent == Spec => []HandshakesNameTheTorrent
  <1>1. ASSUME CommandsInv PROVE HandshakesNameTheTorrent
    <2>1. Canonical => InfoHash(Info) = TorrentHash
      <3>1. Info \in Seq(InfoEntries)
        BY <1>1, InfoTyped DEF CommandsInv, Typed
      <3>2. Canonical => Sorted(Info) = Info
        BY <3>1, SortedInOrder DEF Canonical
      <3>3. Canonical => torrent.spelling = "canonical"
        BY DEF Canonical
      <3> QED
        BY <3>2, <3>3 DEF InfoHash, TorrentHash
    <2>2. \A h \in announced \cup named :
             h.hash # TorrentHash => ~Canonical /\ (OfMagnet => workers # << >>)
      BY <1>1, <2>1 DEF CommandsInv, NamedInv
    <2>3. \A a \in announced, h \in named : h.id # a.id => call.command = "download"
      BY <1>1 DEF CommandsInv, NamedInv
    <2> QED BY <2>2, <2>3 DEF HandshakesNameTheTorrent
  <1> QED BY <1>1, Invariant, PTL

\* Only magnet_download, whose workers connect while its first connection is
\* open, and a download whose workers have one peer twice, because it is listed
\* twice, have two connections to a peer under one id, whatever the list.
THEOREM OnlyMagnetDownloadIsRefused == Spec => []RivalsOnlyInMagnetDownload
  <1>1. ASSUME CommandsInv PROVE RivalsOnlyInMagnetDownload
    <2>1. ConnsInv /\ Progress
      BY <1>1 DEF CommandsInv
    <2>2. ASSUME NEW c \in conns, NEW d \in conns, c # d, c.peer = d.peer
          PROVE  MeetsItself
      <3>1. CASE c = MainConn \/ d = MainConn
        <4>1. call.command # "download"
          <5>1. MainConn \in conns /\ MainConn.owner = -1
            BY <3>1 DEF MainConn, Opened, Main
          <5>2. \A w \in DOMAIN workers : Opened(PeerOf(w), WorkersId, w).owner = w /\ w # -1
            BY <1>1 DEF Opened, CommandsInv, Typed
          <5> QED BY <2>1, <5>1, <5>2 DEF ConnsInv
        <4>2. workers # << >>
          BY <2>1, <2>2 DEF ConnsInv
        <4> QED BY <2>1, <4>1, <4>2 DEF ConnsInv, WholeFile, MeetsItself
      <3>2. CASE c # MainConn /\ d # MainConn
        <4>1. PICK v \in DOMAIN workers : c = Opened(PeerOf(v), WorkersId, v)
          BY <2>1, <3>2 DEF ConnsInv
        <4>2. PICK w \in DOMAIN workers : d = Opened(PeerOf(w), WorkersId, w)
          BY <2>1, <3>2 DEF ConnsInv
        <4>3. v # w /\ PeerOf(v) = PeerOf(w)
          BY <2>2, <4>1, <4>2 DEF Opened
        <4>4. ListedTwice /\ workers # << >>
          BY <4>3 DEF ListedTwice
        <4> QED BY <2>1, <4>4 DEF ConnsInv, WholeFile, MeetsItself
      <3> QED BY <3>1, <3>2
    <2>3. error = "refused" => MeetsItself
      BY <2>1 DEF ConnsInv
    <2>4. status = "ok" /\ swarm.exclusive => call.command # "magnet_download"
      <3>1. status = "ok" => ~Left("workers")
        BY <1>1 DEF CommandsInv, Typed, Left
      <3> QED BY <2>1, <3>1 DEF Progress
    <2> QED BY <2>2, <2>3, <2>4 DEF RivalsOnlyInMagnetDownload
  <1> QED BY <1>1, Invariant, PTL

\* A command that ends early leaves the output as it was: one for a piece until
\* the piece is verified, one for a file until it knows a peer and the metainfo.
THEOREM OutputIsKept == Spec => []EarlyFailureKeepsOutput
  <1>1. CommandsInv => EarlyFailureKeepsOutput
    BY DEF CommandsInv, TorrentInv, EarlyFailureKeepsOutput
  <1> QED BY <1>1, Invariant, PTL

\* When a download succeeds its piece is on the disk, but for one that a full
\* disk has cut, and its file is, whenever the sizes in the torrent fit.
THEOREM SuccessIsWritten == Spec => []ZeroMeansWritten
  <1>1. ASSUME CommandsInv PROVE ZeroMeansWritten
    <2>1. status = "ok" => ~Left("workers") /\ ~Left("write") /\ ~Left("piece")
      BY <1>1 DEF CommandsInv, Typed, Left
    <2> QED BY <1>1, <2>1 DEF CommandsInv, Progress, ZeroMeansWritten
  <1> QED BY <1>1, Invariant, PTL

\* A piece is asked only of a peer that has announced it, but for indices that
\* read beyond the bitfield.
THEOREM PiecesAreAnnounced == Spec => []AskedPiecesAreAnnounced
  <1>1. CommandsInv => AskedPiecesAreAnnounced
    BY DEF CommandsInv, PieceInv
  <1> QED BY <1>1, Invariant, PTL

\* The program touches memory that is not the piece's, and overflows, only for
\* an index that has no hash, a piece length or a length near the width of its
\* integer or beyond it, and a block longer than was asked for.
THEOREM UndefinedIsExplained == Spec => []UndefinedHasACause
  <1>1. CommandsInv => UndefinedHasACause
    BY DEF CommandsInv, PieceInv
  <1> QED BY <1>1, Invariant, PTL

\* No piece of a well-formed torrent is refused when an honest peer has sent it.
THEOREM HonestPiecesAreTaken == Spec => []HonestPiecesVerify
  <1>1. CommandsInv => HonestPiecesVerify
    BY DEF CommandsInv, PieceInv
  <1> QED BY <1>1, Invariant, PTL

=============================================================================
