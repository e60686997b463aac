------------------------ MODULE DownloadFile_proofs ------------------------
(***************************************************************************)
(* Theorems about DownloadFile, for every file, number of peers and of     *)
(* hashes, and every fault.  The layout comes first: the pieces tile the   *)
(* file, and the ranges of the workers tile the pieces.                    *)
(***************************************************************************)
EXTENDS DownloadFile, TLAPS

----------------------------------------------------------------------------
(* Arithmetic *)

\* Division with remainder, as C++ divides non-negative numbers.
LEMMA DivMod ==
  ASSUME NEW a \in Nat, NEW b \in Nat \ {0}
  PROVE  /\ a \div b \in Nat /\ a % b \in 0 .. b - 1
         /\ a = b * (a \div b) + (a % b)
  BY SMT

\* Multiplying by a non-negative factor preserves the order.
LEMMA MulMono ==
  ASSUME NEW a \in Int, NEW b \in Int, NEW c \in Nat, a <= b
  PROVE  c * a <= c * b
  BY SMT

\* Cancelling a factor.
LEMMA MulCancel ==
  ASSUME NEW a \in Int, NEW b \in Int, NEW c \in Nat \ {0}, c * a < c * b
  PROVE  a < b
  BY SMT

\* Expanding products.
LEMMA MulDist ==
  ASSUME NEW a \in Int, NEW b \in Int, NEW c \in Int
  PROVE /\ c * (a + b) = c * a + c * b
        /\ c * (a - b) = c * a - c * b
        /\ c * a \in Int
        /\ c * (a + 1) = c * a + c
        /\ c * (a - 1) = c * a - c
        /\ c * a = a * c
  BY SMT

----------------------------------------------------------------------------
(* Pieces *)

\* The number of pieces is the least that holds the whole file: the ceiling
\* download_piece_on_connection computes.
LEMMA NumPiecesBounds ==
  /\ NumPieces \in Nat \ {0}
  /\ PieceLength * (NumPieces - 1) < Length
  /\ Length <= PieceLength * NumPieces
  <1> DEFINE q == NumPieces
  <1>1. Length + PieceLength - 1 \in Nat
    BY LayoutAssumption
  <1>2. /\ NumPieces \in Nat
        /\ Length + PieceLength - 1 = PieceLength * NumPieces + ((Length + PieceLength - 1) % PieceLength)
        /\ (Length + PieceLength - 1) % PieceLength \in 0 .. PieceLength - 1
    BY <1>1, DivMod, LayoutAssumption DEF NumPieces
  <1>3. NumPieces # 0
    BY <1>2, LayoutAssumption
  <1>4. PieceLength * (NumPieces - 1) = PieceLength * NumPieces - PieceLength
    BY <1>2, LayoutAssumption
  <1> QED
    BY <1>2, <1>3, <1>4, LayoutAssumption

\* The last piece ends the file; the others are full.
LEMMA PieceLenBounds ==
  ASSUME NEW p \in Pieces
  PROVE  /\ ActualPieceLen(p) \in 1 .. PieceLength
         /\ PieceOffset(p) \in Nat
         /\ PieceOffset(p) + ActualPieceLen(p) <= Length
         /\ p = NumPieces - 1 => PieceOffset(p) + ActualPieceLen(p) = Length
         /\ p # NumPieces - 1 => PieceOffset(p) + ActualPieceLen(p) = PieceOffset(p + 1)
  <1>0. p \in Nat /\ p <= NumPieces - 1 /\ NumPieces \in Nat
    BY NumPiecesBounds DEF Pieces
  <1>a. /\ PieceOffset(p) = PieceLength * p /\ PieceOffset(p + 1) = PieceLength * p + PieceLength
        /\ PieceLength * p \in Nat
    BY <1>0, MulDist, MulMono, LayoutAssumption DEF PieceOffset
  <1>1. CASE p # NumPieces - 1
    <2>1. p + 1 <= NumPieces - 1
      BY <1>0, <1>1
    <2>2. PieceLength * (p + 1) <= PieceLength * (NumPieces - 1)
      BY <2>1, <1>0, MulMono, LayoutAssumption
    <2>3. PieceLength * (p + 1) = PieceLength * p + PieceLength
      BY <1>0, MulDist, LayoutAssumption
    <2>4. ActualPieceLen(p) = PieceLength
      BY <1>1 DEF ActualPieceLen
    <2>5. PieceLength * (NumPieces - 1) \in Int
      BY <1>0, LayoutAssumption, MulDist
    <2> QED
      BY <2>2, <2>3, <2>4, <2>5, <1>1, <1>a, NumPiecesBounds, LayoutAssumption
  <1>2. CASE p = NumPieces - 1
    <2> DEFINE k == Length \div PieceLength
               r == Length % PieceLength
    <2>1. /\ k \in Nat /\ r \in 0 .. PieceLength - 1
          /\ Length = PieceLength * k + r
      BY DivMod, LayoutAssumption
    <2>2. /\ PieceLength * k \in Int /\ PieceLength * p \in Int
          /\ PieceLength * p < Length /\ Length <= PieceLength * p + PieceLength
      BY <1>0, <1>2, <2>1, MulDist, NumPiecesBounds, LayoutAssumption
    <2>3. CASE r = 0
      <3>1. ActualPieceLen(p) = PieceLength
        BY <2>3 DEF ActualPieceLen
      <3>2. PieceLength * p < PieceLength * k
        BY <2>1, <2>2, <2>3
      <3>3. p + 1 <= k
        BY <3>2, <2>1, <1>0, MulCancel, LayoutAssumption
      <3>4. PieceLength * (p + 1) <= PieceLength * k
        BY <3>3, <2>1, <1>0, MulMono, LayoutAssumption
      <3>5. PieceLength * (p + 1) = PieceLength * p + PieceLength
        BY <1>0, MulDist, LayoutAssumption
      <3> HIDE DEF k, r
      <3> QED
        BY <3>1, <3>4, <3>5, <2>1, <2>2, <2>3, <1>2, <1>a, LayoutAssumption
    <2>4. CASE r # 0
      <3>1. ActualPieceLen(p) = r
        BY <2>4, <1>2 DEF ActualPieceLen
      <3>2. k = p
        <4> HIDE DEF k, r
        <4>1. PieceLength * p < PieceLength * (k + 1)
          BY <2>1, <2>2, MulDist, LayoutAssumption
        <4>2. p < k + 1
          BY <4>1, <2>1, <1>0, MulCancel, LayoutAssumption
        <4>3. PieceLength * k < PieceLength * (p + 1)
          BY <2>1, <2>2, <2>4, <1>0, MulDist, LayoutAssumption
        <4>4. k < p + 1
          BY <4>3, <2>1, <1>0, MulCancel, LayoutAssumption
        <4> QED BY <4>2, <4>4, <2>1, <1>0
      <3> HIDE DEF k, r
      <3> QED
        BY <3>1, <3>2, <2>1, <2>2, <2>4, <1>2, <1>a, LayoutAssumption
    <2> QED BY <2>3, <2>4
  <1> QED BY <1>1, <1>2

\* Every byte of the file lies in a piece, at an offset within that piece's
\* actual length.
LEMMA PiecesCover ==
  ASSUME NEW b \in 0 .. Length - 1
  PROVE  /\ b \div PieceLength \in Pieces
         /\ b - PieceOffset(b \div PieceLength) \in Offsets(b \div PieceLength)
  <1> DEFINE p == b \div PieceLength
             r == b % PieceLength
  <1>0. b \in Nat /\ b < Length
    BY LayoutAssumption
  <1>1. /\ p \in Nat /\ r \in 0 .. PieceLength - 1
        /\ b = PieceLength * p + r
        /\ b \in Nat /\ b < Length
    BY <1>0, DivMod, LayoutAssumption
  <1> HIDE DEF p, r
  <1>2. p <= NumPieces - 1
    <2>1. PieceLength * p \in Int /\ PieceLength * NumPieces \in Int
      BY <1>1, MulDist, NumPiecesBounds, LayoutAssumption
    <2>2. PieceLength * p < PieceLength * NumPieces
      BY <1>1, <2>1, NumPiecesBounds, LayoutAssumption
    <2> QED
      BY <2>2, <1>1, MulCancel, NumPiecesBounds, LayoutAssumption
  <1>3. p \in Pieces
    BY <1>1, <1>2, NumPiecesBounds DEF Pieces
  <1>4. PieceOffset(p) = PieceLength * p
    BY <1>1, MulDist, LayoutAssumption DEF PieceOffset
  <1>5. r < ActualPieceLen(p)
    <2>1. CASE p = NumPieces - 1
      BY <2>1, <1>1, <1>3, <1>4, PieceLenBounds
    <2>2. CASE p # NumPieces - 1
      BY <2>2, <1>1, LayoutAssumption DEF ActualPieceLen
    <2> QED BY <2>1, <2>2
  <1>6. b - PieceOffset(p) = r
    BY <1>1, <1>4, <1>3, PieceLenBounds
  <1> QED
    BY <1>1, <1>3, <1>5, <1>6, PieceLenBounds, LayoutAssumption DEF Offsets, p

----------------------------------------------------------------------------
(* Worker ranges *)

\* A range in terms of the quotient and the remainder.
LEMMA RangeForm ==
  ASSUME NEW n \in Nat, NEW k \in Nat \ {0}, NEW w \in Nat
  PROVE  /\ (n \div k) \in Nat /\ (n % k) \in 0 .. k - 1
         /\ n = k * (n \div k) + (n % k)
         /\ (n \div k) * w \in Nat
         /\ RangeStart(n, k, w) =
              (n \div k) * w + (IF w < n % k THEN w ELSE n % k)
         /\ RangeEnd(n, k, w) =
              RangeStart(n, k, w) + (n \div k) + (IF w < n % k THEN 1 ELSE 0)
         /\ RangeStart(n, k, w) \in Nat /\ RangeEnd(n, k, w) \in Nat
  <1> DEFINE q == n \div k
             r == n % k
  <1>1. q \in Nat /\ r \in 0 .. k - 1 /\ n = k * q + r
    BY DivMod
  <1>2. /\ RangeStart(n, k, w) = w * q + (IF w < r THEN w ELSE r)
        /\ RangeEnd(n, k, w) = RangeStart(n, k, w) + q + (IF w < r THEN 1 ELSE 0)
    BY DEF RangeStart, RangeEnd
  <1> HIDE DEF q, r
  <1>3. w * q = q * w /\ q * w \in Nat
    BY <1>1, MulDist, MulMono
  <1>4. RangeStart(n, k, w) \in Nat /\ RangeEnd(n, k, w) \in Nat
    BY <1>1, <1>2, <1>3
  <1> QED
    BY <1>1, <1>2, <1>3, <1>4 DEF q, r

\* The range of a worker ends where the next one's starts; the first starts
\* at the first piece and the last ends at the last.
LEMMA RangeChain ==
  ASSUME NEW n \in Nat, NEW k \in Nat \ {0}, NEW w \in Nat
  PROVE  /\ RangeStart(n, k, w) <= RangeEnd(n, k, w)
         /\ RangeStart(n, k, k) = n
         /\ RangeEnd(n, k, w) = RangeStart(n, k, w + 1)
  <1> DEFINE q == n \div k
             r == n % k
  <1>1. /\ q \in Nat /\ r \in 0 .. k - 1 /\ n = k * q + r
        /\ RangeStart(n, k, w) = q * w + (IF w < r THEN w ELSE r)
        /\ RangeEnd(n, k, w) = RangeStart(n, k, w) + q + (IF w < r THEN 1 ELSE 0)
        /\ q * w \in Nat
    BY RangeForm
  <1>2. /\ RangeStart(n, k, w + 1) = q * (w + 1) + (IF w + 1 < r THEN w + 1 ELSE r)
        /\ RangeStart(n, k, k) = q * k + (IF k < r THEN k ELSE r)
    <2>1. \A x \in Nat : RangeStart(n, k, x) = q * x + (IF x < r THEN x ELSE r)
      BY RangeForm
    <2>2. w + 1 \in Nat /\ k \in Nat
      OBVIOUS
    <2> HIDE DEF q, r
    <2> QED BY <2>1, <2>2
  <1> HIDE DEF q, r
  <1>3. q * (w + 1) = q * w + q /\ q * k = k * q /\ k * q \in Int
    BY <1>1, MulDist
  <1>4. RangeStart(n, k, k) = n
    BY <1>1, <1>2, <1>3
  <1>5. RangeStart(n, k, w) <= RangeEnd(n, k, w)
    BY <1>1
  <1>6. RangeEnd(n, k, w) = RangeStart(n, k, w + 1)
    <2>1. CASE w < r
      BY <2>1, <1>1, <1>2, <1>3
    <2>2. CASE ~(w < r)
      BY <2>2, <1>1, <1>2, <1>3
    <2> QED BY <2>1, <2>2
  <1> QED
    BY <1>4, <1>5, <1>6

\* A later worker's range starts no earlier than an earlier worker's ends:
\* two workers never own the same piece.
LEMMA RangesDisjoint ==
  ASSUME NEW n \in Nat, NEW k \in Nat \ {0}, NEW v \in Nat, NEW w \in Nat,
         v < w, w <= k
  PROVE  RangeEnd(n, k, v) <= RangeStart(n, k, w)
  <1> DEFINE q == n \div k
             r == n % k
  <1>1. q \in Nat /\ r \in 0 .. k - 1 /\ n = k * q + r
    BY DivMod
  <1> HIDE DEF q, r
  <1>2. q * (v + 1) <= q * w
    BY <1>1, MulMono
  <1>3. RangeEnd(n, k, v) = RangeStart(n, k, v + 1)
    BY RangeChain
  <1>4. /\ RangeStart(n, k, v + 1) = (v + 1) * q + (IF v + 1 < r THEN v + 1 ELSE r)
        /\ RangeStart(n, k, w) = w * q + (IF w < r THEN w ELSE r)
    BY DEF RangeStart, q, r
  <1>5. /\ (v + 1) * q = q * (v + 1) /\ w * q = q * w
        /\ q * (v + 1) \in Int /\ q * w \in Int
    BY <1>1, MulDist
  <1>6. (IF v + 1 < r THEN v + 1 ELSE r) <= (IF w < r THEN w ELSE r)
    BY <1>1
  <1> QED
    BY <1>1, <1>2, <1>3, <1>4, <1>5, <1>6

\* No range goes past the last piece.
LEMMA RangeWithin ==
  ASSUME NEW n \in Nat, NEW k \in Nat \ {0}, NEW w \in 0 .. k - 1
  PROVE  RangeEnd(n, k, w) <= n
  <1>1. w \in Nat /\ w < k /\ k \in Nat
    OBVIOUS
  <1>2. RangeEnd(n, k, w) <= RangeStart(n, k, k)
    BY <1>1, RangesDisjoint
  <1> QED BY <1>1, <1>2, RangeChain

\* Every piece is in the range of some worker.
LEMMA RangesCover ==
  ASSUME NEW n \in Nat, NEW k \in Nat \ {0}, NEW p \in 0 .. n - 1
  PROVE  \E w \in 0 .. k - 1 :
           p \in RangeStart(n, k, w) .. RangeEnd(n, k, w) - 1
  <1> DEFINE q == n \div k
             r == n % k
  <1>1. q \in Nat /\ r \in 0 .. k - 1 /\ n = k * q + r
    BY DivMod
  <1>2. p \in Nat /\ p < n
    OBVIOUS
  <1> HIDE DEF q, r
  <1>4. (q + 1) * r \in Nat /\ q * r \in Nat /\ (q + 1) * r = q * r + r
    BY <1>1, MulDist, MulMono
  <1>5. CASE p < (q + 1) * r
    <2> DEFINE d == q + 1
               w == p \div d
               s == p % d
    <2>0. d \in Nat \ {0}
      BY <1>1
    <2>1. w \in Nat /\ s \in 0 .. q /\ p = (q + 1) * w + s
      <3> HIDE DEF d
      <3>1. w \in Nat /\ s \in 0 .. d - 1 /\ p = d * w + s
        BY <2>0, <1>2, DivMod
      <3> HIDE DEF w, s
      <3> QED BY <3>1, <1>1 DEF d
    <2> HIDE DEF d
    <2> HIDE DEF w, s
    <2>2. (q + 1) * w = q * w + w /\ q * w \in Nat /\ (q + 1) * w \in Nat
      BY <1>1, <2>1, MulDist, MulMono
    <2>3. (q + 1) * w < (q + 1) * r
      BY <1>4, <1>5, <2>1, <2>2
    <2>4. w < r
      BY <1>1, <2>1, <2>3, MulCancel
    <2>5. RangeStart(n, k, w) = q * w + w /\ RangeEnd(n, k, w) = q * w + w + q + 1
      <3>1. /\ RangeStart(n, k, w) = q * w + (IF w < r THEN w ELSE r)
            /\ RangeEnd(n, k, w) = RangeStart(n, k, w) + q + (IF w < r THEN 1 ELSE 0)
        BY <2>1, RangeForm DEF q, r
      <3> QED BY <3>1, <1>1, <2>1, <2>2, <2>4
    <2>6. p \in RangeStart(n, k, w) .. RangeEnd(n, k, w) - 1
      BY <1>1, <1>2, <2>1, <2>2, <2>5
    <2>7. w \in 0 .. k - 1
      BY <1>1, <2>1, <2>4
    <2> QED BY <2>6, <2>7
  <1>6. CASE ~(p < (q + 1) * r)
    <2>1. q # 0
      <3>1. SUFFICES ASSUME q = 0 PROVE FALSE
        OBVIOUS
      <3>2. k * q = 0 /\ q * r = 0
        BY <3>1, <1>1
      <3> QED BY <3>2, <1>1, <1>2, <1>4, <1>6
    <2> DEFINE w == (p - r) \div q
               s == (p - r) % q
    <2>2. p - r \in Nat /\ p - r >= q * r
      BY <1>1, <1>2, <1>4, <1>6
    <2>3. w \in Nat /\ s \in 0 .. q - 1 /\ p - r = q * w + s
      BY <1>1, <2>1, <2>2, DivMod
    <2> HIDE DEF w, s
    <2>4. q * w \in Nat /\ q * (w + 1) = q * w + q /\ q * (w + 1) \in Nat
      BY <1>1, <2>3, MulDist, MulMono
    <2>5. q * r < q * (w + 1)
      BY <1>1, <1>4, <2>2, <2>3, <2>4
    <2>6. r < w + 1
      BY <1>1, <2>1, <2>3, <2>5, MulCancel
    <2>7. k * q = q * k /\ q * k \in Int
      BY <1>1, MulDist
    <2>8. q * w < q * k
      BY <1>1, <1>2, <2>3, <2>4, <2>7
    <2>9. w < k
      BY <1>1, <2>1, <2>3, <2>8, MulCancel
    <2>10. RangeStart(n, k, w) = q * w + r /\ RangeEnd(n, k, w) = q * w + r + q
      <3>1. /\ RangeStart(n, k, w) = q * w + (IF w < r THEN w ELSE r)
            /\ RangeEnd(n, k, w) = RangeStart(n, k, w) + q + (IF w < r THEN 1 ELSE 0)
        BY <2>3, RangeForm DEF q, r
      <3> QED BY <3>1, <1>1, <2>3, <2>4, <2>6
    <2>11. p \in RangeStart(n, k, w) .. RangeEnd(n, k, w) - 1
      BY <1>1, <1>2, <2>3, <2>4, <2>10
    <2>12. w \in 0 .. k - 1
      BY <2>3, <2>9
    <2> QED BY <2>11, <2>12
  <1> QED BY <1>5, <1>6

----------------------------------------------------------------------------
(* The arguments and the ranges *)

\* The arguments of the call stay what they are.
LEMMA ArgumentsStay ==
  ASSUME [Next]_vars
  PROVE  UNCHANGED arguments /\ Workers' = Workers /\ NumWorkers' = NumWorkers
         /\ \A w : Start(w)' = Start(w) /\ End(w)' = End(w)
  <1>1. UNCHANGED arguments
    BY DEF Next, Stopped, vars, arguments
  <1>2. numPeers' = numPeers /\ numHashes' = numHashes
    BY <1>1 DEF arguments
  <1> QED
    BY <1>1, <1>2 DEF Workers, NumWorkers, Start, End

\* There are at most as many workers as peers and as hashes.
LEMMA WorkerCount ==
  ASSUME numPeers \in Nat, numHashes \in Nat
  PROVE  /\ NumWorkers \in Nat /\ NumWorkers <= numPeers /\ NumWorkers <= numHashes
         /\ numPeers > 0 /\ numHashes > 0 => NumWorkers > 0
         /\ \A w \in Workers : w \in Nat /\ w < NumWorkers
  BY DEF NumWorkers, Workers

\* The range of a worker lies within the hashes.
LEMMA WorkerRange ==
  ASSUME numPeers \in Nat, numHashes \in Nat, NEW w \in Workers
  PROVE  /\ Start(w) \in Nat /\ End(w) \in Nat
         /\ Start(w) <= End(w) /\ End(w) <= numHashes
  <1>1. w \in Nat /\ w < NumWorkers /\ NumWorkers \in Nat \ {0}
    BY WorkerCount
  <1>2. /\ RangeStart(numHashes, NumWorkers, w) \in Nat
        /\ RangeEnd(numHashes, NumWorkers, w) \in Nat
    BY <1>1, RangeForm
  <1>3. w \in 0 .. NumWorkers - 1
    BY <1>1
  <1>4. RangeEnd(numHashes, NumWorkers, w) <= numHashes
    BY <1>1, <1>3, RangeWithin
  <1>5. RangeStart(numHashes, NumWorkers, w) <= RangeEnd(numHashes, NumWorkers, w)
    BY <1>1, RangeChain
  <1> QED
    BY <1>2, <1>4, <1>5 DEF Start, End

\* A written byte is a byte of the torrent at its place, and a whole piece
\* leaves no byte of it out.
LEMMA WriteAtRight ==
  ASSUME NEW f, NEW p \in Pieces, NEW n \in 0 .. ActualPieceLen(p),
         DOMAIN f = 0 .. Length - 1
  PROVE  /\ DOMAIN WriteAt(f, p, n) = 0 .. Length - 1
         /\ \A b \in 0 .. Length - 1 :
              WriteAt(f, p, n)[b] = IF b - PieceOffset(p) \in 0 .. n - 1 THEN b ELSE f[b]
  <1>1. PieceOffset(p) \in Nat /\ ActualPieceLen(p) \in Nat
    BY PieceLenBounds, LayoutAssumption
  <1>2. ASSUME NEW b \in 0 .. Length - 1, b - PieceOffset(p) \in 0 .. n - 1
        PROVE  Content(p)[b - PieceOffset(p)] = b
    <2>1. b - PieceOffset(p) \in Offsets(p)
      BY <1>1, <1>2 DEF Offsets
    <2>2. PieceOffset(p) + (b - PieceOffset(p)) = b
      BY <1>1, LayoutAssumption
    <2> QED BY <2>1, <2>2 DEF Content
  <1> QED
    BY <1>2 DEF WriteAt

\* Writing keeps the file's type.
LEMMA WriteAtType ==
  ASSUME NEW f \in [0 .. Length - 1 -> FileBytes], NEW p \in Pieces,
         NEW n \in 0 .. ActualPieceLen(p)
  PROVE  WriteAt(f, p, n) \in [0 .. Length - 1 -> FileBytes]
  <1>1. /\ DOMAIN WriteAt(f, p, n) = 0 .. Length - 1
        /\ \A b \in 0 .. Length - 1 :
             WriteAt(f, p, n)[b] = IF b - PieceOffset(p) \in 0 .. n - 1 THEN b ELSE f[b]
    <2>1. DOMAIN f = 0 .. Length - 1
      OBVIOUS
    <2> QED BY <2>1, WriteAtRight, ZenonT(40)
  <1>2. \A b \in 0 .. Length - 1 : WriteAt(f, p, n)[b] \in FileBytes
    BY <1>1 DEF FileBytes
  <1>3. WriteAt(f, p, n) = [b \in DOMAIN f |-> WriteAt(f, p, n)[b]]
    BY DEF WriteAt
  <1> QED
    BY <1>2, <1>3

\* A file of the torrent's length is not the empty tuple.
LEMMA FileNotEmpty ==
  ASSUME NEW f, DOMAIN f = 0 .. Length - 1
  PROVE  f # << >>
  <1>1. 0 \in DOMAIN f
    BY LayoutAssumption
  <1>2. DOMAIN << >> = {}
    OBVIOUS
  <1> QED BY <1>1, <1>2

----------------------------------------------------------------------------
(* Type correctness, and the phases of the call *)

\* What each phase of the main thread means for the file and the workers.
Phases ==
  /\ mainPc \in {"start", "opened"} => spawned = 0 /\ file = << >>
  /\ mainPc \in {"opened", "spawn", "join", "unwind", "close"} => fd = "open"
  /\ mainPc \in {"spawn", "join", "unwind", "close", "report"} => file # << >>
  /\ mainPc \notin {"start", "end"} => numPeers > 0
  /\ mainPc \in {"join", "close", "report"} => spawned = NumWorkers
  /\ mainPc \in {"close", "report", "end"} =>
       \A w \in Workers : wpc[w] \in {"idle", "ended"}
  /\ \A w \in Workers : wpc[w] = "idle" <=> w >= spawned

PhaseInv == TypeOK /\ Phases

\* The initial states satisfy the phase invariant.
LEMMA PhaseInit == Init => PhaseInv
  <1> SUFFICES ASSUME Init PROVE PhaseInv
    OBVIOUS
  <1>1. numPeers \in Nat /\ numHashes \in Nat
    BY DownloadAssumption DEF Init
  <1>2. NumWorkers \in Nat /\ \A w \in Workers : w \in Nat
    BY <1>1, WorkerCount
  <1> QED
    BY <1>1, <1>2 DEF Init, PhaseInv, TypeOK, Phases, MainLabels, WorkerLabels

\* The steps of main preserve it: nothing joins or closes before its turn.
LEMMA PhaseMain ==
  ASSUME PhaseInv, Main, UNCHANGED arguments
  PROVE  PhaseInv'
  <1>0. /\ numPeers' = numPeers /\ numHashes' = numHashes
        /\ Workers' = Workers /\ NumWorkers' = NumWorkers
        /\ NumWorkers \in Nat /\ \A w \in Workers : w \in Nat /\ w < NumWorkers
    BY WorkerCount DEF arguments, Workers, NumWorkers, PhaseInv, TypeOK
  <1>1. CASE RejectEmptyPeerList
    BY <1>0, <1>1
       DEF PhaseInv, Phases, RejectEmptyPeerList, Raise, TypeOK, workerVars, errorVars,
           fileVars, MainLabels, MainErrors
  <1>2. CASE OpenFile
    BY <1>0, <1>2
       DEF PhaseInv, Phases, OpenFile, Raise, TypeOK, workerVars, errorVars, MainLabels,
           MainErrors
  <1>3. CASE Preallocate
    <2>1. CASE UNCHANGED file /\ fd' = "closed" /\ Raise("ftruncate")
      BY <1>0, <1>3, <2>1
         DEF PhaseInv, Phases, Preallocate, Raise, TypeOK, workerVars, errorVars,
             MainLabels, MainErrors
    <2>2. CASE file' = [b \in 0 .. Length - 1 |-> Zero] /\ mainPc' = "spawn"
               /\ UNCHANGED <<fd, outcome, reported>>
      <3>1. file' \in [0 .. Length - 1 -> FileBytes] /\ file' # << >>
        BY <2>2, FileNotEmpty DEF FileBytes
      <3> QED
        BY <1>0, <1>3, <2>2, <3>1
           DEF PhaseInv, Phases, Preallocate, TypeOK, workerVars, errorVars, MainLabels
    <2> QED BY <1>3, <2>1, <2>2 DEF Preallocate
  <1>4. CASE DivideByZero
    BY <1>0, <1>4
       DEF PhaseInv, Phases, DivideByZero, Die, TypeOK, workerVars, errorVars, fileVars
  <1>5. CASE SpawnWorker
    <2>1. /\ spawned < NumWorkers /\ spawned \in Workers /\ spawned \in Nat
          /\ file # << >> /\ mainPc = "spawn"
      BY <1>0, <1>5 DEF SpawnWorker, PhaseInv, Phases, TypeOK, Workers
    <2>2. Start(spawned) \in Nat
      BY <2>1, WorkerRange DEF PhaseInv, TypeOK
    <2>3. TypeOK'
      BY <1>0, <1>5, <2>1, <2>2
         DEF SpawnWorker, PhaseInv, TypeOK, errorVars, fileVars, WorkerLabels
    <2>4. Phases'
      BY <1>0, <1>5, <2>1
         DEF SpawnWorker, PhaseInv, TypeOK, Phases, errorVars, fileVars
    <2> QED BY <2>3, <2>4 DEF PhaseInv
  <1>6. CASE SpawnFails
    BY <1>0, <1>6
       DEF PhaseInv, Phases, SpawnFails, TypeOK, workerVars, fileVars, MainLabels, MainErrors
  <1>7. CASE AllSpawned
    BY <1>0, <1>7
       DEF PhaseInv, Phases, AllSpawned, TypeOK, workerVars, errorVars, fileVars, MainLabels
  <1>8. CASE JoinAll \/ Unwind
    <2>1. \A w \in Workers : wpc[w] \in {"idle", "ended"}
      BY <1>0, <1>8 DEF JoinAll, Unwind, Joined, PhaseInv, Phases, TypeOK
    <2> QED
      BY <1>0, <1>8, <2>1
         DEF PhaseInv, Phases, JoinAll, Unwind, Raise, TypeOK, workerVars, errorVars,
             fileVars, MainLabels
  <1>9. CASE CloseFile
    BY <1>0, <1>9
       DEF PhaseInv, Phases, CloseFile, TypeOK, workerVars, errorVars, fileVars, MainLabels
  <1>10. CASE Report
    BY <1>0, <1>10
       DEF PhaseInv, Phases, Report, Raise, TypeOK, workerVars, errorVars, fileVars,
           MainLabels
  <1> QED
    BY <1>1, <1>2, <1>3, <1>4, <1>5, <1>6, <1>7, <1>8, <1>9, <1>10 DEF Main

\* The steps of a worker preserve it, and never touch what is main's.
LEMMA PhaseWorker ==
  ASSUME PhaseInv, NEW w \in Workers, Worker(w), UNCHANGED arguments
  PROVE  PhaseInv'
  <1>0. /\ numPeers' = numPeers /\ numHashes' = numHashes
        /\ Workers' = Workers /\ NumWorkers' = NumWorkers
        /\ NumWorkers \in Nat /\ \A v \in Workers : v \in Nat /\ v < NumWorkers
    BY WorkerCount DEF arguments, Workers, NumWorkers, PhaseInv, TypeOK
  \* A worker that takes a step has been started and has not ended.
  <1>a. /\ (wpc[w] \notin {"idle", "ended"} /\ wpc'[w] # "idle") \/ UNCHANGED wpc
        /\ \A v \in Workers : v # w => wpc'[v] = wpc[v]
        /\ DOMAIN wpc' = Workers
        /\ UNCHANGED <<mainPc, spawned, fd>>
    BY DEF PhaseInv, TypeOK, Worker, Connect, GetPiece, RangeDone, PieceFails, PieceKills,
           WritePiece, WriteBeyond, LockError, LockDestroyed, CheckError, StoreError, UnlockError,
           Catch, Goto, mainVars, workerVars, fileVars
  <1>b. file # << >> /\ wpc[w] \notin {"idle", "ended"}
    BY DEF PhaseInv, TypeOK, Worker, Connect, GetPiece, RangeDone, PieceFails, PieceKills,
           WritePiece, WriteBeyond, LockError, LockDestroyed, CheckError, StoreError, UnlockError
  <1>c. file' # << >> /\ (file' = << >> \/ file' \in [0 .. Length - 1 -> FileBytes])
    <2>1. CASE WritePiece(w)
      <3>1. PICK n \in 0 .. ActualPieceLen(next[w]) : file' = WriteAt(file, next[w], n)
        <4>1. next[w] \in Pieces
          BY <2>1 DEF WritePiece, PhaseInv, TypeOK
        <4>2. ActualPieceLen(next[w]) \in Nat
          BY <4>1, PieceLenBounds, LayoutAssumption
        <4> QED BY <2>1, <4>2 DEF WritePiece
      <3>2. next[w] \in Pieces /\ file \in [0 .. Length - 1 -> FileBytes]
        BY <1>b, <2>1 DEF WritePiece, PhaseInv, TypeOK
      <3>3. file' \in [0 .. Length - 1 -> FileBytes]
        BY <3>1, <3>2, WriteAtType
      <3> QED BY <3>3, FileNotEmpty
    <2>2. CASE UNCHANGED file
      BY <1>b, <2>2 DEF PhaseInv, TypeOK
    <2> QED
      BY <2>1, <2>2
         DEF Worker, Connect, GetPiece, RangeDone, PieceFails, PieceKills,
             WriteBeyond, LockError, LockDestroyed, CheckError, StoreError, UnlockError, fileVars
  <1>1. Phases'
    BY <1>0, <1>a, <1>b, <1>c DEF PhaseInv, Phases
  <1>2. TypeOK'
    <2> USE <1>0, <1>b, <1>c DEF PhaseInv, TypeOK, WorkerLabels
    <2>1. CASE Connect(w)
      BY <2>1, ZenonT(40) DEF Connect, Goto, Catch, WorkerErrors, None, mainVars, errorVars, fileVars
    <2>2. CASE GetPiece(w) \/ RangeDone(w)
      BY <2>2 DEF GetPiece, RangeDone, Goto, mainVars, errorVars, fileVars
    <2>3. CASE PieceFails(w)
      BY <2>3 DEF PieceFails, Goto, Catch, WorkerErrors, None, mainVars, errorVars, fileVars
    <2>4. CASE PieceKills(w) \/ LockDestroyed(w)
      BY <2>4 DEF PieceKills, LockDestroyed, Die, mainVars, workerVars, errorVars, fileVars
    <2>5. CASE WritePiece(w)
      <3>1. CASE Advance(w) /\ Goto(w, "get") /\ UNCHANGED thrown
        BY <2>5, <3>1 DEF WritePiece, Goto, Advance, mainVars, errorVars
      <3>2. CASE Catch(w, "pwrite") /\ UNCHANGED next
        BY <2>5, <3>2 DEF WritePiece, Goto, Catch, WorkerErrors, None, mainVars, errorVars
      <3> QED BY <2>5, <3>1, <3>2 DEF WritePiece
    <2>6. CASE LockError(w) \/ UnlockError(w)
      BY <2>6 DEF LockError, UnlockError, Goto, mainVars, fileVars
    <2>7. CASE CheckError(w)
      BY <2>7 DEF CheckError, Goto, mainVars, errorVars, fileVars
    <2>8. CASE StoreError(w)
      BY <2>8 DEF StoreError, Goto, mainVars, fileVars
    <2>9. CASE WriteBeyond(w)
      <3>1. CASE Advance(w) /\ Goto(w, "get") /\ UNCHANGED thrown
        BY <2>9, <3>1 DEF WriteBeyond, Goto, Advance, mainVars, errorVars, fileVars
      <3>2. CASE Catch(w, "pwrite") /\ UNCHANGED next
        BY <2>9, <3>2 DEF WriteBeyond, Goto, Catch, WorkerErrors, None, mainVars, errorVars,
                          fileVars
      <3> QED BY <2>9, <3>1, <3>2 DEF WriteBeyond
    <2> QED
      BY <2>1, <2>2, <2>3, <2>4, <2>5, <2>6, <2>7, <2>8, <2>9 DEF Worker
  <1> QED BY <1>1, <1>2 DEF PhaseInv

\* The phase invariant: where main is bounds where its workers are.
LEMMA PhaseInvariant == Spec => []PhaseInv
  <1>1. PhaseInv /\ [Next]_vars => PhaseInv'
    <2> SUFFICES ASSUME PhaseInv, [Next]_vars PROVE PhaseInv'
      OBVIOUS
    <2>1. CASE Main /\ UNCHANGED arguments
      BY <2>1, PhaseMain
    <2>2. CASE (\E w \in Workers : Worker(w)) /\ UNCHANGED arguments
      BY <2>2, PhaseWorker
    <2>3. CASE UNCHANGED vars
      <3>1. /\ UNCHANGED <<numPeers, numHashes, mainPc, spawned, outcome, reported, wpc,
                           next, thrown, holder, firstError, errorState, fd, file>>
            /\ Workers' = Workers /\ NumWorkers' = NumWorkers
        BY <2>3 DEF vars, arguments, mainVars, workerVars, errorVars, fileVars,
                    Workers, NumWorkers
      <3> QED BY <3>1 DEF PhaseInv, TypeOK, Phases
    <2> QED
      BY <2>1, <2>2, <2>3 DEF Next, Stopped
  <1> QED
    BY <1>1, PhaseInit, PTL DEF Spec

\* Every variable keeps to its set, and a worker that was started has a file
\* (TypeOK).
THEOREM TypeCorrect == Spec => []TypeOK
  <1>1. PhaseInv => TypeOK
    BY DEF PhaseInv
  <1> QED BY <1>1, PhaseInvariant, PTL

\* No worker runs when the call has returned (JoinBeforeReturn).
THEOREM Joins == Spec => []JoinBeforeReturn
  <1>1. PhaseInv => JoinBeforeReturn
    BY DEF PhaseInv, Phases, JoinBeforeReturn
  <1> QED BY <1>1, PhaseInvariant, PTL

\* The output file is written only while its descriptor is open
\* (NoWriteAfterClose).
THEOREM WritesWhileOpen == Spec => NoWriteAfterClose
  <1>1. PhaseInv /\ [Next]_vars => [file' # file => fd = "open"]_vars
    <2> SUFFICES ASSUME PhaseInv, Next, file' # file PROVE fd = "open"
      OBVIOUS
    <2>1. CASE Main
      <3>1. Preallocate
        BY <2>1 DEF Main, RejectEmptyPeerList, OpenFile, DivideByZero, SpawnWorker,
                    SpawnFails, AllSpawned, JoinAll, CloseFile, Report, Unwind, fileVars
      <3> QED BY <3>1 DEF Preallocate, PhaseInv, Phases
    <2>2. ASSUME NEW w \in Workers, Worker(w) PROVE fd = "open"
      <3>1. wpc[w] = "write"
        BY <2>2 DEF Worker, Connect, GetPiece, RangeDone, PieceFails, PieceKills, WritePiece, WriteBeyond,
                    LockError, LockDestroyed, CheckError, StoreError, UnlockError, fileVars
      <3>2. mainPc \notin {"close", "report", "end"} /\ w < spawned
        BY <3>1, WorkerCount DEF PhaseInv, Phases, TypeOK
      <3>3. w \in Nat
        BY WorkerCount DEF PhaseInv, TypeOK
      <3>4. mainPc \in {"spawn", "join", "unwind"}
        BY <3>2, <3>3 DEF PhaseInv, Phases, TypeOK, MainLabels
      <3> QED BY <3>4 DEF PhaseInv, Phases
    <2>3. ~Stopped
      BY DEF Stopped, vars, fileVars
    <2> QED BY <2>1, <2>2, <2>3 DEF Next
  <1> QED
    BY <1>1, PhaseInvariant, PTL DEF Spec, NoWriteAfterClose

----------------------------------------------------------------------------
(* The mutex *)

\* Between the lock and the unlock a worker holds error_mutex, and the one
\* about to store has found no error.
Mutex ==
  \A w \in Workers :
    /\ wpc[w] \in {"check", "store", "unlock"} => holder = w
    /\ wpc[w] = "store" => firstError = None

\* Every step keeps the lock held by at most the one worker in its critical section.
LEMMA MutexStep ==
  ASSUME PhaseInv, PhaseInv', Mutex, [Next]_vars
  PROVE  Mutex' /\ (firstError # None => firstError' = firstError)
  <1>0. UNCHANGED arguments /\ Workers' = Workers
    BY ArgumentsStay
  <1>1. CASE Main
    <2>1. UNCHANGED <<holder>> /\ (firstError' = firstError)
      BY <1>1 DEF Main, RejectEmptyPeerList, OpenFile, Preallocate, DivideByZero, SpawnWorker,
                  SpawnFails, AllSpawned, JoinAll, CloseFile, Report, Unwind, errorVars
    <2>2. \A w \in Workers : wpc'[w] = wpc[w] \/ wpc'[w] = "connect"
      BY <1>1 DEF Main, RejectEmptyPeerList, OpenFile, Preallocate, DivideByZero, SpawnWorker,
                  SpawnFails, AllSpawned, JoinAll, CloseFile, Report, Unwind, workerVars,
                  PhaseInv, TypeOK
    <2> QED BY <1>0, <2>1, <2>2 DEF Mutex
  <1>2. ASSUME NEW w \in Workers, Worker(w)
        PROVE  Mutex' /\ (firstError # None => firstError' = firstError)
    <2>0. /\ \A v \in Workers : v # w => wpc'[v] = wpc[v]
          /\ wpc \in [Workers -> WorkerLabels]
      BY <1>2
         DEF PhaseInv, TypeOK, Worker, Connect, GetPiece, RangeDone, PieceFails, PieceKills,
             WritePiece, WriteBeyond, LockError, LockDestroyed, CheckError, StoreError, UnlockError,
             Catch, Goto, workerVars
    <2>1. CASE \/ Connect(w) \/ GetPiece(w) \/ RangeDone(w) \/ PieceFails(w) \/ PieceKills(w)
               \/ WritePiece(w) \/ WriteBeyond(w) \/ LockDestroyed(w)
      <3>1. UNCHANGED <<holder, firstError>>
        BY <2>1 DEF Connect, GetPiece, RangeDone, PieceFails, PieceKills, WritePiece, WriteBeyond,
                    LockDestroyed, errorVars
      <3>2. wpc'[w] = wpc[w] \/ wpc'[w] \in {"get", "write", "ended", "lock"}
        BY <2>0, <2>1 DEF Connect, GetPiece, RangeDone, PieceFails, PieceKills, WritePiece, WriteBeyond,
                    LockDestroyed, Catch, Goto, workerVars
      <3> QED BY <1>0, <2>0, <3>1, <3>2 DEF Mutex
    <2>2. CASE LockError(w)
      <3>1. holder = NoWorker /\ holder' = w /\ wpc'[w] = "check" /\ firstError' = firstError
        BY <2>0, <2>2 DEF LockError, Goto
      <3>2. \A v \in Workers : v # NoWorker
        BY WorkerCount DEF PhaseInv, TypeOK, NoWorker
      <3> QED BY <1>0, <2>0, <3>1, <3>2 DEF Mutex
    <2>3. CASE CheckError(w)
      <3>1. /\ holder' = holder /\ wpc[w] = "check" /\ firstError' = firstError
            /\ wpc'[w] \in {"store", "unlock"}
            /\ wpc'[w] = "store" => firstError = None
        BY <2>0, <2>3 DEF CheckError, Goto, errorVars
      <3> QED BY <1>0, <2>0, <3>1 DEF Mutex
    <2>4. CASE StoreError(w)
      <3>1. holder' = holder /\ wpc[w] = "store" /\ wpc'[w] = "unlock"
        BY <2>0, <2>4 DEF StoreError, Goto
      <3> QED BY <1>0, <2>0, <3>1 DEF Mutex
    <2>5. CASE UnlockError(w)
      <3>1. wpc[w] = "unlock" /\ wpc'[w] = "ended" /\ firstError' = firstError
        BY <2>0, <2>5 DEF UnlockError, Goto
      <3> QED BY <1>0, <2>0, <3>1 DEF Mutex
    <2> QED
      BY <1>2, <2>1, <2>2, <2>3, <2>4, <2>5 DEF Worker
  <1>3. CASE UNCHANGED vars
    BY <1>0, <1>3 DEF Mutex, vars, workerVars, errorVars
  <1> QED
    BY <1>1, <1>2, <1>3 DEF Next, Stopped

\* error_mutex excludes: the slot is read and written by one worker at a time.
LEMMA MutexInvariant == Spec => []Mutex
  <1>1. Init => Mutex
    BY DEF Init, Mutex
  <1> QED
    BY <1>1, MutexStep, PhaseInvariant, PTL DEF Spec

\* The first exception recorded stays the one that is reported, however many
\* workers fail at the same time (FirstErrorStable).
THEOREM FirstErrorKept == Spec => FirstErrorStable
  <1>1. PhaseInv /\ PhaseInv' /\ Mutex /\ [Next]_vars =>
          [errorState = "alive" /\ firstError # None => firstError' = firstError]_vars
    BY MutexStep
  <1> QED
    BY <1>1, PhaseInvariant, MutexInvariant, PTL DEF Spec, FirstErrorStable

----------------------------------------------------------------------------
(* The workers' progress *)

\* The file holds piece p.
Right(p) ==
  \A b \in 0 .. Length - 1 : b - PieceOffset(p) \in Offsets(p) => file[b] = b

\* Every piece of its range that a worker has passed is in the file; a worker
\* that ended without an exception has passed them all.
Progress ==
  \A w \in Workers :
    /\ wpc[w] # "idle" => next[w] \in Start(w) .. End(w)
    /\ wpc[w] # "idle" =>
         \A p \in Pieces : p \in Start(w) .. next[w] - 1 => Right(p)
    /\ wpc[w] = "write" => next[w] < End(w)
    /\ wpc[w] = "ended" /\ thrown[w] = None => next[w] = End(w)
    /\ wpc[w] \in {"idle", "connect", "get", "write"} => thrown[w] = None

\* The exception recorded, and the one reported, was thrown by a worker, and
\* no worker that threw is forgotten.
ErrorsRecorded ==
  /\ \A w \in Workers :
       wpc[w] \in {"unlock", "ended"} /\ thrown[w] # None => firstError # None
  /\ firstError # None => \E w \in Workers : thrown[w] = firstError
  /\ OutcomeIsTheWorkers

\* A piece in the file stays there.
LEMMA RightStays ==
  ASSUME PhaseInv, [Next]_vars, file # << >>, NEW p \in Pieces, Right(p)
  PROVE  Right(p)'
  <1>1. CASE UNCHANGED file
    BY <1>1 DEF Right
  <1>2. ASSUME NEW w \in Workers, WritePiece(w)
        PROVE  Right(p)'
    <2>1. /\ next[w] \in Pieces /\ DOMAIN file = 0 .. Length - 1
      BY <1>2 DEF WritePiece, PhaseInv, TypeOK
    <2>2. ActualPieceLen(next[w]) \in Nat
      BY <2>1, PieceLenBounds, LayoutAssumption
    <2>3. PICK q \in Pieces : \E n \in 0 .. ActualPieceLen(q) : file' = WriteAt(file, q, n)
      BY <1>2, <2>1, <2>2 DEF WritePiece
    <2>4. PICK n \in 0 .. ActualPieceLen(q) : file' = WriteAt(file, q, n)
      BY <2>3
    <2>5. \A b \in 0 .. Length - 1 :
            file'[b] = IF b - PieceOffset(q) \in 0 .. n - 1 THEN b ELSE file[b]
      <3>1. DOMAIN file = 0 .. Length - 1
        BY <2>1
      <3>2. \A b \in 0 .. Length - 1 :
              WriteAt(file, q, n)[b] = IF b - PieceOffset(q) \in 0 .. n - 1 THEN b ELSE file[b]
        BY ONLY <3>1, WriteAtRight, q \in Pieces, n \in 0 .. ActualPieceLen(q), ZenonT(120)
      <3> QED BY <2>4, <3>2
    <2> QED BY <2>5 DEF Right
  <1>3. CASE Main
    <2>1. UNCHANGED file
      BY <1>3
         DEF Main, RejectEmptyPeerList, OpenFile, Preallocate, DivideByZero, SpawnWorker,
             SpawnFails, AllSpawned, JoinAll, CloseFile, Report, Unwind, fileVars,
             PhaseInv, Phases
    <2> QED BY <1>1, <2>1
  <1>4. ASSUME NEW w \in Workers, Worker(w), ~WritePiece(w)
        PROVE  Right(p)'
    <2>1. UNCHANGED file
      BY <1>4 DEF Worker, Connect, GetPiece, RangeDone, PieceFails, PieceKills,
                  WriteBeyond, LockError, LockDestroyed, CheckError, StoreError, UnlockError, fileVars
    <2> QED BY <1>1, <2>1
  <1> QED
    BY <1>1, <1>2, <1>3, <1>4 DEF Next, Stopped, vars, fileVars

\* The steps of main leave what a worker has written to it.
LEMMA ProgressMain ==
  ASSUME PhaseInv, Progress, Main, UNCHANGED arguments, [Next]_vars
  PROVE  Progress'
  <1>0. /\ Workers' = Workers /\ \A w : Start(w)' = Start(w) /\ End(w)' = End(w)
        /\ NumWorkers \in Nat /\ \A w \in Workers : w \in Nat
        /\ \A w \in Workers :
             Start(w) \in Nat /\ End(w) \in Nat /\ Start(w) <= End(w)
    BY ArgumentsStay, WorkerCount, WorkerRange DEF PhaseInv, TypeOK
  <1> USE DEF Progress
  <1>1. ASSUME NEW w \in Workers, wpc[w] # "idle", wpc'[w] = wpc[w],
               next'[w] = next[w]
        PROVE  \A p \in Pieces : p \in Start(w) .. next'[w] - 1 => Right(p)'
    <2>1. file # << >>
      BY <1>1 DEF PhaseInv, TypeOK
    <2> QED BY <1>1, <2>1, RightStays
  <1>2. CASE SpawnWorker
    <2>1. /\ spawned \in Workers
          /\ wpc' = [wpc EXCEPT ![spawned] = "connect"]
          /\ next' = [next EXCEPT ![spawned] = Start(spawned)]
          /\ thrown' = thrown /\ wpc[spawned] = "idle"
      BY <1>0, <1>2 DEF SpawnWorker, PhaseInv, Phases, TypeOK, Workers
    <2>2. ASSUME NEW w \in Workers, w # spawned
          PROVE  wpc'[w] = wpc[w] /\ next'[w] = next[w]
      BY <2>1, <2>2 DEF PhaseInv, TypeOK
    <2>3. wpc'[spawned] = "connect" /\ next'[spawned] = Start(spawned)
      BY <2>1 DEF PhaseInv, TypeOK
    <2>4. \A p \in Pieces : p \notin Start(spawned) .. Start(spawned) - 1
      BY <1>0, <2>1
    <2>5. Start(spawned) \in Start(spawned) .. End(spawned)
      BY <1>0, <2>1
    <2> QED BY <1>0, <1>1, <2>1, <2>2, <2>3, <2>4, <2>5
  <1>3. CASE ~SpawnWorker
    <2>1. UNCHANGED <<wpc, next, thrown>>
      BY <1>3
         DEF Main, RejectEmptyPeerList, OpenFile, Preallocate, DivideByZero,
             SpawnFails, AllSpawned, JoinAll, CloseFile, Report, Unwind, workerVars
    <2> QED BY <1>0, <1>1, <2>1
  <1> QED BY <1>2, <1>3

\* A worker writes the pieces of its range in order, and no others.
LEMMA ProgressWorker ==
  ASSUME PhaseInv, Progress, NEW w \in Workers, Worker(w), UNCHANGED arguments, [Next]_vars
  PROVE  Progress'
  <1>0. /\ Workers' = Workers /\ \A v : Start(v)' = Start(v) /\ End(v)' = End(v)
        /\ \A v \in Workers :
             Start(v) \in Nat /\ End(v) \in Nat /\ Start(v) <= End(v)
    BY ArgumentsStay, WorkerRange DEF PhaseInv, TypeOK
  <1>a. /\ wpc \in [Workers -> WorkerLabels] /\ next \in [Workers -> Nat]
        /\ DOMAIN thrown = Workers
        /\ \A v \in Workers :
             /\ wpc[v] \in {"lock", "check", "store", "unlock"} => thrown[v] # None
             /\ wpc[v] # "idle" => file # << >>
    BY DEF PhaseInv, TypeOK
  <1>b. \A v \in Workers : v # w =>
          wpc'[v] = wpc[v] /\ next'[v] = next[v] /\ thrown'[v] = thrown[v]
    BY <1>a
       DEF Worker, Connect, GetPiece, RangeDone, PieceFails, PieceKills, WritePiece, WriteBeyond,
           LockError, LockDestroyed, CheckError, StoreError, UnlockError, Catch, Goto,
           Advance, workerVars
  <1>c. ASSUME NEW v \in Workers, wpc[v] # "idle"
        PROVE  \A p \in Pieces : p \in Start(v) .. next[v] - 1 => Right(p)'
    BY <1>a, <1>c, RightStays DEF Progress
  <1>d. \A v \in Workers : v # w =>
    /\ wpc'[v] # "idle" => next'[v] \in Start(v) .. End(v)
    /\ wpc'[v] # "idle" =>
         \A p \in Pieces : p \in Start(v) .. next'[v] - 1 => Right(p)'
    /\ wpc'[v] = "write" => next'[v] < End(v)
    /\ wpc'[v] = "ended" /\ thrown'[v] = None => next'[v] = End(v)
    /\ wpc'[v] \in {"idle", "connect", "get", "write"} => thrown'[v] = None
    BY <1>b, <1>c DEF Progress
  \* Steps after which the worker has the same piece next.
  <1>1. CASE next' = next
    <2>1. wpc[w] # "idle"
      BY DEF Worker, Connect, GetPiece, RangeDone, PieceFails, PieceKills, WritePiece, WriteBeyond,
             LockError, LockDestroyed, CheckError, StoreError, UnlockError
    <2>2. /\ next[w] \in Start(w) .. End(w)
          /\ \A p \in Pieces : p \in Start(w) .. next[w] - 1 => Right(p)'
      BY <1>c, <2>1 DEF Progress
    <2>3. wpc'[w] = "write" => next[w] < End(w)
      BY <1>0, <1>a, <2>1
         DEF Progress, Worker, Connect, GetPiece, RangeDone, PieceFails, PieceKills,
             WritePiece, WriteBeyond, LockError, LockDestroyed, CheckError, StoreError, UnlockError,
             Catch, Goto, workerVars
    <2>4. wpc'[w] = "ended" /\ thrown'[w] = None => next[w] = End(w)
      <3>1. CASE RangeDone(w)
        BY <1>0, <1>a, <2>2, <3>1 DEF RangeDone
      <3>2. CASE ~RangeDone(w)
        BY <1>a, <2>1, <3>2
           DEF Progress, Worker, Connect, GetPiece, PieceFails, PieceKills,
               WritePiece, WriteBeyond, LockError, LockDestroyed, CheckError, StoreError, UnlockError,
               Catch, Goto, workerVars
      <3> QED BY <3>1, <3>2
    <2>5. wpc'[w] \in {"idle", "connect", "get", "write"} => thrown'[w] = None
      BY <1>a, <2>1
         DEF Progress, Worker, Connect, GetPiece, RangeDone, PieceFails, PieceKills,
             WritePiece, WriteBeyond, LockError, LockDestroyed, CheckError, StoreError, UnlockError,
             Catch, Goto, workerVars
    <2> QED
      BY <1>0, <1>1, <1>d, <2>2, <2>3, <2>4, <2>5 DEF Progress
  \* The piece is written and the worker goes on to the next.
  <1>2. CASE WritePiece(w) /\ Advance(w)
    <2>1. /\ wpc[w] = "write" /\ next[w] \in Pieces
          /\ next[w] \in Start(w) .. End(w) /\ next[w] < End(w) /\ thrown[w] = None
          /\ next'[w] = next[w] + 1
      BY <1>a, <1>2 DEF Progress, WritePiece, Advance
    <2>2. /\ file' = WriteAt(file, next[w], ActualPieceLen(next[w]))
          /\ wpc'[w] = "get" /\ thrown' = thrown
      <3>1. next' # next
        BY <1>a, <2>1
      <3> QED BY <1>a, <1>2, <3>1 DEF WritePiece, Goto
    <2>3. PICK q \in Pieces : q = next[w]
      BY <2>1
    <2>4. Right(q)'
      <3>1. ActualPieceLen(q) \in 0 .. ActualPieceLen(q)
        BY PieceLenBounds, LayoutAssumption
      <3>2. DOMAIN file = 0 .. Length - 1
        BY <1>a, <2>1 DEF PhaseInv, TypeOK
      <3>3. file' = WriteAt(file, q, ActualPieceLen(q))
        BY <2>2, <2>3
      <3>4. \A b \in 0 .. Length - 1 :
              file'[b] = IF b - PieceOffset(q) \in 0 .. ActualPieceLen(q) - 1
                         THEN b ELSE file[b]
        <4>1. \A b \in 0 .. Length - 1 :
                WriteAt(file, q, ActualPieceLen(q))[b] =
                  IF b - PieceOffset(q) \in 0 .. ActualPieceLen(q) - 1 THEN b ELSE file[b]
          BY <3>1, <3>2, WriteAtRight, ZenonT(40)
        <4> QED BY <3>3, <4>1
      <3> QED BY <3>4 DEF Right, Offsets
    <2>5. next'[w] \in Start(w) .. End(w)
      BY <1>0, <2>1
    <2>6. \A p \in Pieces : p \in Start(w) .. next'[w] - 1 => Right(p)'
      <3>1. SUFFICES ASSUME NEW p \in Pieces, p \in Start(w) .. next'[w] - 1
                     PROVE  Right(p)'
        OBVIOUS
      <3>2. p = q \/ p \in Start(w) .. next[w] - 1
        BY <1>0, <2>1, <2>3, <3>1
      <3>3. wpc[w] # "idle"
        BY <2>1
      <3> QED BY <1>c, <2>4, <3>2, <3>3
    <2> QED
      BY <1>0, <1>d, <2>1, <2>2, <2>5, <2>6 DEF Progress
  \* A piece behind the file leaves the pieces of the file alone.
  <1>3. CASE WriteBeyond(w) /\ Advance(w)
    <2>1. /\ wpc[w] = "write" /\ next[w] \notin Pieces /\ UNCHANGED file
          /\ next[w] \in Start(w) .. End(w) /\ next[w] < End(w) /\ thrown[w] = None
          /\ next'[w] = next[w] + 1
      BY <1>a, <1>3 DEF Progress, WriteBeyond, Advance, fileVars
    <2>2. wpc'[w] = "get" /\ thrown' = thrown
      <3>1. next' # next
        BY <1>a, <2>1
      <3> QED BY <1>a, <1>3, <3>1 DEF WriteBeyond, Goto
    <2>3. next'[w] \in Start(w) .. End(w)
      BY <1>0, <2>1
    <2>4. \A p \in Pieces : p \in Start(w) .. next'[w] - 1 => Right(p)'
      <3>1. SUFFICES ASSUME NEW p \in Pieces, p \in Start(w) .. next'[w] - 1
                     PROVE  Right(p)'
        OBVIOUS
      <3>2. p \in Start(w) .. next[w] - 1
        BY <1>0, <2>1, <3>1
      <3>3. wpc[w] # "idle"
        BY <2>1
      <3> QED BY <1>c, <3>2, <3>3
    <2> QED
      BY <1>0, <1>d, <2>1, <2>2, <2>3, <2>4 DEF Progress
  <1>4. \/ next' = next
        \/ WritePiece(w) /\ Advance(w)
        \/ WriteBeyond(w) /\ Advance(w)
    BY DEF Worker, Connect, GetPiece, RangeDone, PieceFails, PieceKills, WritePiece, WriteBeyond,
           LockError, LockDestroyed, CheckError, StoreError, UnlockError, workerVars
  <1> QED BY <1>1, <1>2, <1>3, <1>4

\* What is written is, worker by worker, an initial part of its range.
LEMMA ProgressInvariant == Spec => []Progress
  <1>1. Init => Progress
    BY DEF Init, Progress
  <1>2. PhaseInv /\ Progress /\ [Next]_vars => Progress'
    <2> SUFFICES ASSUME PhaseInv, Progress, [Next]_vars PROVE Progress'
      OBVIOUS
    <2>0. UNCHANGED arguments /\ Workers' = Workers
          /\ \A w : Start(w)' = Start(w) /\ End(w)' = End(w)
      BY ArgumentsStay
    <2>1. CASE Main
      BY <2>0, <2>1, ProgressMain
    <2>2. ASSUME NEW w \in Workers, Worker(w) PROVE Progress'
      BY <2>0, <2>2, ProgressWorker
    <2>3. CASE UNCHANGED vars
      <3>1. UNCHANGED <<wpc, next, thrown, file>>
        BY <2>3 DEF vars, workerVars, fileVars
      <3>2. \A p : Right(p)' <=> Right(p)
        BY <3>1 DEF Right
      <3> QED BY <2>0, <3>1, <3>2 DEF Progress
    <2> QED
      BY <2>1, <2>2, <2>3 DEF Next, Stopped
  <1> QED
    BY <1>1, <1>2, PhaseInvariant, PTL DEF Spec

\* Two workers never write the same piece, for any number of peers and of
\* pieces (DisjointWriters).
THEOREM WritersDisjoint == Spec => []DisjointWriters
  <1>1. PhaseInv /\ Progress => DisjointWriters
    <2> SUFFICES ASSUME PhaseInv, Progress, NEW v \in Workers, NEW w \in Workers, v # w,
                        wpc[v] = "write", wpc[w] = "write"
                 PROVE  next[v] # next[w]
      BY DEF DisjointWriters
    <2>1. /\ numHashes \in Nat /\ NumWorkers \in Nat \ {0}
          /\ v \in Nat /\ v < NumWorkers /\ w \in Nat /\ w < NumWorkers
      BY WorkerCount DEF PhaseInv, TypeOK
    <2>2. /\ next[v] \in Start(v) .. End(v) - 1 /\ next[w] \in Start(w) .. End(w) - 1
          /\ Start(v) \in Nat /\ End(v) \in Nat /\ Start(w) \in Nat /\ End(w) \in Nat
      BY WorkerRange DEF Progress, PhaseInv, TypeOK
    <2>3. CASE v < w
      <3>1. End(v) <= Start(w)
        BY <2>1, <2>3, RangesDisjoint DEF Start, End
      <3> QED BY <2>2, <3>1
    <2>4. CASE w < v
      <3>1. End(w) <= Start(v)
        BY <2>1, <2>4, RangesDisjoint DEF Start, End
      <3> QED BY <2>2, <3>1
    <2> QED BY <2>1, <2>3, <2>4
  <1> QED
    BY <1>1, PhaseInvariant, ProgressInvariant, PTL

----------------------------------------------------------------------------
(* The outcome *)

\* The steps of main neither record nor lose an error.
LEMMA ErrorsMain ==
  ASSUME PhaseInv, ErrorsRecorded, Main, UNCHANGED arguments, outcome = "none",
         Workers' = Workers
  PROVE  ErrorsRecorded'
  <1>1. /\ UNCHANGED <<thrown, firstError>>
        /\ \A w \in Workers :
             wpc'[w] = wpc[w] \/ wpc'[w] = "connect"
    BY DEF Main, RejectEmptyPeerList, OpenFile, Preallocate, DivideByZero, SpawnWorker,
           SpawnFails, AllSpawned, JoinAll, CloseFile, Report, Unwind, workerVars,
           errorVars, PhaseInv, TypeOK
  <1>2. CASE Report /\ firstError = None
    <2>1. \A w \in Workers : wpc[w] = "ended"
      BY <1>2, WorkerCount DEF Report, PhaseInv, Phases, TypeOK
    <2>2. \A w \in Workers : thrown[w] = None
      BY <1>2, <2>1 DEF ErrorsRecorded
    <2>3. reported' = reported
      BY <1>2 DEF Report
    <2> QED
      BY <1>1, <2>2, <2>3 DEF ErrorsRecorded, OutcomeIsTheWorkers
  <1>3. CASE ~(Report /\ firstError = None)
    <2>1. outcome' # "ok"
      BY <1>3
         DEF Main, RejectEmptyPeerList, OpenFile, Preallocate, DivideByZero, SpawnWorker,
             SpawnFails, AllSpawned, JoinAll, CloseFile, Report, Unwind, Raise, Die
    <2>2. \/ reported' = reported
          \/ reported' \notin WorkerErrors
          \/ reported' = firstError /\ firstError # None
      BY <1>3
         DEF Main, RejectEmptyPeerList, OpenFile, Preallocate, DivideByZero, SpawnWorker,
             SpawnFails, AllSpawned, JoinAll, CloseFile, Report, Unwind, Raise, WorkerErrors
    <2> QED
      BY <1>1, <2>1, <2>2 DEF ErrorsRecorded, OutcomeIsTheWorkers
  <1> QED BY <1>2, <1>3

\* The steps of a worker preserve the record: it ends with its error in the slot.
LEMMA ErrorsWorker ==
  ASSUME PhaseInv, Progress, ErrorsRecorded, NEW w \in Workers, Worker(w),
         outcome = "none", Workers' = Workers
  PROVE  ErrorsRecorded'
  <1>a. /\ wpc \in [Workers -> WorkerLabels]
        /\ DOMAIN thrown = Workers /\ DOMAIN wpc = Workers
        /\ wpc[w] \in {"lock", "check", "store", "unlock"} => thrown[w] # None
    BY DEF PhaseInv, TypeOK
  <1>b. \A v \in Workers : v # w => wpc'[v] = wpc[v] /\ thrown'[v] = thrown[v]
    BY <1>a
       DEF Worker, Connect, GetPiece, RangeDone, PieceFails, PieceKills, WritePiece, WriteBeyond,
           LockError, LockDestroyed, CheckError, StoreError, UnlockError, Catch, Goto,
           workerVars
  <1>1. /\ reported' = reported /\ outcome' # "ok"
        /\ thrown'[w] = thrown[w] \/ thrown[w] = None
    BY <1>a
       DEF Worker, Connect, GetPiece, RangeDone, PieceFails, PieceKills, WritePiece, WriteBeyond,
           LockError, LockDestroyed, CheckError, StoreError, UnlockError, Catch, Goto,
           mainVars, workerVars, Die, Progress
  <1>2. /\ firstError' = firstError \/ (firstError' = thrown[w] /\ wpc[w] = "store" /\ thrown' = thrown)
    BY <1>a
       DEF Worker, Connect, GetPiece, RangeDone, PieceFails, PieceKills, WritePiece, WriteBeyond,
           LockError, LockDestroyed, CheckError, StoreError, UnlockError, errorVars
  <1>3. wpc'[w] \in {"unlock", "ended"} /\ thrown'[w] # None => firstError' # None
    BY <1>a
       DEF Worker, Connect, GetPiece, RangeDone, PieceFails, PieceKills, WritePiece, WriteBeyond,
           LockError, LockDestroyed, CheckError, StoreError, UnlockError, errorVars,
           Catch, Goto, workerVars, Progress, ErrorsRecorded
  <1>4. \A v \in Workers :
          wpc'[v] \in {"unlock", "ended"} /\ thrown'[v] # None => firstError' # None
    BY <1>a, <1>b, <1>2, <1>3 DEF ErrorsRecorded
  <1>5. firstError' # None => \E v \in Workers : thrown'[v] = firstError'
    BY <1>b, <1>1, <1>2 DEF ErrorsRecorded
  <1>6. reported' \in WorkerErrors => \E v \in Workers : thrown'[v] = reported'
    <2>1. None \notin WorkerErrors
      BY DEF None, WorkerErrors
    <2> QED
      BY <1>b, <1>1, <2>1 DEF ErrorsRecorded, OutcomeIsTheWorkers
  <1> QED
    BY <1>1, <1>4, <1>5, <1>6 DEF ErrorsRecorded, OutcomeIsTheWorkers

\* No error of a worker is lost, and the one reported was thrown by a worker.
LEMMA ErrorsInvariant == Spec => []ErrorsRecorded
  <1>1. Init => ErrorsRecorded
    BY DEF Init, ErrorsRecorded, OutcomeIsTheWorkers, WorkerErrors, None
  <1>2. PhaseInv /\ Progress /\ ErrorsRecorded /\ [Next]_vars => ErrorsRecorded'
    <2> SUFFICES ASSUME PhaseInv, Progress, ErrorsRecorded, [Next]_vars
                 PROVE  ErrorsRecorded'
      OBVIOUS
    <2>0. UNCHANGED arguments /\ Workers' = Workers
      BY ArgumentsStay
    <2>1. CASE Main /\ outcome = "none"
      BY <2>0, <2>1, ErrorsMain
    <2>2. ASSUME NEW w \in Workers, Worker(w), outcome = "none" PROVE ErrorsRecorded'
      BY <2>0, <2>2, ErrorsWorker
    <2>3. CASE UNCHANGED vars
      BY <2>0, <2>3
         DEF vars, mainVars, workerVars, errorVars, ErrorsRecorded, OutcomeIsTheWorkers
    <2> QED
      BY <2>1, <2>2, <2>3 DEF Next, Stopped
  <1> QED
    BY <1>1, <1>2, PhaseInvariant, ProgressInvariant, PTL DEF Spec

\* Success is reported only when no worker threw, and an exception that did
\* not come from main was thrown by a worker (OutcomeIsTheWorkers).
THEOREM OutcomeRight == Spec => []OutcomeIsTheWorkers
  <1>1. ErrorsRecorded => OutcomeIsTheWorkers
    BY DEF ErrorsRecorded
  <1> QED BY <1>1, ErrorsInvariant, PTL

\* When main has found no error, every piece with a hash is in the file.
LEMMA HashedRight ==
  ASSUME PhaseInv, Progress, ErrorsRecorded, mainPc = "report", firstError = None,
         NEW p \in Pieces, p < numHashes
  PROVE  Right(p)
  <1>1. /\ numHashes \in Nat /\ NumPieces \in Nat \ {0} /\ numHashes > 0
        /\ NumWorkers \in Nat \ {0} /\ spawned = NumWorkers
    BY WorkerCount, NumPiecesBounds DEF PhaseInv, Phases, TypeOK, Pieces
  <1>2. \A w \in Workers : wpc[w] = "ended" /\ thrown[w] = None
    BY WorkerCount DEF PhaseInv, Phases, TypeOK, ErrorsRecorded
  <1>3. p \in 0 .. numHashes - 1
    BY <1>1 DEF Pieces
  <1>4. PICK w \in 0 .. NumWorkers - 1 : p \in Start(w) .. End(w) - 1
    BY <1>1, <1>3, RangesCover DEF Start, End
  <1>5. w \in Workers
    BY DEF Workers
  <1> QED
    BY <1>2, <1>4, <1>5 DEF Progress

\* So the file is whole, if every piece has a hash.
LEMMA AllRight ==
  ASSUME PhaseInv, Progress, ErrorsRecorded, mainPc = "report", firstError = None,
         numHashes >= NumPieces
  PROVE  file = Whole
  <1>1. ASSUME NEW p \in Pieces
        PROVE  Right(p)
    <2>1. p < numHashes
      BY NumPiecesBounds DEF PhaseInv, TypeOK, Pieces
    <2> QED BY <2>1, HashedRight
  <1>2. ASSUME NEW b \in 0 .. Length - 1
        PROVE  file[b] = b
    <2>1. PICK p \in Pieces : b - PieceOffset(p) \in Offsets(p)
      BY PiecesCover
    <2> QED BY <1>1, <2>1 DEF Right
  <1>3. file \in [0 .. Length - 1 -> FileBytes]
    <2>1. NumWorkers > 0 /\ wpc[0] # "idle" /\ 0 \in Workers
      BY WorkerCount, NumPiecesBounds DEF PhaseInv, Phases, TypeOK, Workers
    <2> QED BY <2>1 DEF PhaseInv, TypeOK
  <1> QED
    BY <1>2, <1>3 DEF Whole

\* A call that returns normally leaves the whole file, provided there is a
\* hash for every piece (CompleteOnSuccess).
THEOREM SuccessComplete == Spec => []CompleteOnSuccess
  <1>1. Init => CompleteOnSuccess
    BY DEF Init, CompleteOnSuccess
  <1>2. PhaseInv /\ Progress /\ ErrorsRecorded /\ CompleteOnSuccess /\ [Next]_vars
          => CompleteOnSuccess'
    <2> SUFFICES ASSUME PhaseInv, Progress, ErrorsRecorded, CompleteOnSuccess, [Next]_vars,
                        outcome' = "ok", numHashes' >= NumPieces
                 PROVE  file' = Whole
      BY DEF CompleteOnSuccess
    <2>0. numHashes' = numHashes
      BY ArgumentsStay DEF arguments
    <2>1. CASE Main /\ outcome = "none"
      <3>1. Report /\ firstError = None
        BY <2>1
           DEF Main, RejectEmptyPeerList, OpenFile, Preallocate, DivideByZero, SpawnWorker,
               SpawnFails, AllSpawned, JoinAll, CloseFile, Report, Unwind, Raise, Die
      <3>2. file = Whole
        BY <2>0, <3>1, AllRight DEF Report
      <3> QED BY <3>1, <3>2 DEF Report, fileVars
    <2>2. CASE outcome = "none" /\ \E w \in Workers : Worker(w)
      BY <2>2
         DEF Worker, Connect, GetPiece, RangeDone, PieceFails, PieceKills, WritePiece, WriteBeyond,
             LockError, LockDestroyed, CheckError, StoreError, UnlockError, mainVars, Die
    <2>3. CASE UNCHANGED vars
      BY <2>0, <2>3 DEF vars, mainVars, fileVars, CompleteOnSuccess
    <2> QED
      BY <2>1, <2>2, <2>3 DEF Next, Stopped
  <1> QED
    BY <1>1, <1>2, PhaseInvariant, ProgressInvariant, ErrorsInvariant, PTL DEF Spec

----------------------------------------------------------------------------
(* Refinement *)

\* The layout is the same in FileDelivery.
LEMMA DeliveryLayout ==
  /\ Delivery!Pieces = Pieces
  /\ Delivery!Blank = [b \in 0 .. Length - 1 |-> Zero]
  /\ \A p : /\ Delivery!PieceOffset(p) = PieceOffset(p)
            /\ Delivery!ActualPieceLen(p) = ActualPieceLen(p)
            /\ Delivery!Offsets(p) = Offsets(p)
            /\ Delivery!Content(p) = Content(p)
  BY DEF Delivery!Pieces, Delivery!NumPieces, Pieces, NumPieces, Delivery!Blank,
         Delivery!Zero, Zero, Delivery!PieceOffset, PieceOffset,
         Delivery!ActualPieceLen, ActualPieceLen, Delivery!Offsets, Offsets,
         Delivery!Content, Content

\* A right piece is in its place, as FileDelivery puts it.
LEMMA RightInPlace ==
  ASSUME NEW p \in Pieces, Right(p)
  PROVE  Delivery!InPlace(p)
  <1> SUFFICES ASSUME NEW o \in Offsets(p)
               PROVE  file[PieceOffset(p) + o] = Content(p)[o]
    BY DeliveryLayout DEF Delivery!InPlace
  <1>1. /\ PieceOffset(p) \in Nat /\ o \in Nat
        /\ PieceOffset(p) + o \in 0 .. Length - 1
    BY PieceLenBounds, LayoutAssumption DEF PieceOffset, Offsets, Pieces
  <1>2. (PieceOffset(p) + o) - PieceOffset(p) = o
    BY <1>1
  <1>3. file[PieceOffset(p) + o] = PieceOffset(p) + o
    BY <1>1, <1>2 DEF Right
  <1> QED BY <1>3 DEF Content

\* A step of a worker writes bytes of one piece, ends the process, or is
\* invisible.
LEMMA DeliveryWorker ==
  ASSUME PhaseInv, outcome = "none", NEW w \in Workers, Worker(w), numHashes' = numHashes
  PROVE  Delivery!Next \/ UNCHANGED <<numHashes, file, outcome>>
  <1>1. CASE WritePiece(w)
    <2>1. /\ next[w] \in Pieces /\ file # << >>
          /\ DOMAIN file = 0 .. Length - 1 /\ outcome' = outcome
      BY <1>1 DEF WritePiece, PhaseInv, TypeOK, mainVars
    <2>2. ActualPieceLen(next[w]) \in Nat
      BY <2>1, PieceLenBounds, LayoutAssumption
    <2>3. PICK q \in Pieces : \E n \in 0 .. ActualPieceLen(q) : file' = WriteAt(file, q, n)
      BY <1>1, <2>1, <2>2 DEF WritePiece
    <2>4. PICK n \in 0 .. ActualPieceLen(q) : file' = WriteAt(file, q, n)
      BY <2>3
    <2>5. file' = [b \in DOMAIN file |->
                     IF b - PieceOffset(q) \in 0 .. n - 1 THEN b ELSE file[b]]
      <3>1. DOMAIN file = 0 .. Length - 1
        BY <2>1
      <3>2. \A b \in 0 .. Length - 1 :
              WriteAt(file, q, n)[b] = IF b - PieceOffset(q) \in 0 .. n - 1 THEN b ELSE file[b]
        BY ONLY <3>1, WriteAtRight, q \in Pieces, n \in 0 .. ActualPieceLen(q), ZenonT(120)
      <3>3. WriteAt(file, q, n) = [b \in DOMAIN file |-> WriteAt(file, q, n)[b]]
        BY DEF WriteAt
      <3> QED BY <2>4, <3>1, <3>2, <3>3
    <2> QED
      BY <2>1, <2>5, DeliveryLayout DEF Delivery!Next, Delivery!Fill
  <1>2. CASE PieceKills(w) \/ LockDestroyed(w)
    BY <1>2 DEF PieceKills, LockDestroyed, Die, fileVars, Delivery!Next, Delivery!GiveUp
  <1>3. CASE ~WritePiece(w) /\ ~PieceKills(w) /\ ~LockDestroyed(w)
    BY <1>3 DEF Worker, Connect, GetPiece, RangeDone, PieceFails, WriteBeyond, LockError, CheckError,
                StoreError, UnlockError, mainVars, fileVars
  <1> QED BY <1>1, <1>2, <1>3

\* The download implements FileDelivery: it reports success only when every
\* piece with a hash is in place, and the file does not change once the
\* outcome is known (ImplementsDelivery).
THEOREM DownloadImplementsDelivery == Spec => ImplementsDelivery
  <1>1. Init => Delivery!Init
    BY DownloadAssumption DEF Init, Delivery!Init
  <1>2. PhaseInv /\ Progress /\ ErrorsRecorded /\ [Next]_vars
          => [Delivery!Next]_(Delivery!fvars)
    <2> SUFFICES ASSUME PhaseInv, Progress, ErrorsRecorded, [Next]_vars
                 PROVE  Delivery!Next \/ UNCHANGED <<numHashes, file, outcome>>
      BY DEF Delivery!fvars
    <2>0. numHashes' = numHashes
      BY ArgumentsStay DEF arguments
    <2>1. CASE outcome = "none" /\ Preallocate
      <3>1. CASE file' = [b \in 0 .. Length - 1 |-> Zero] /\ outcome' = outcome
        BY <2>0, <2>1, <3>1, DeliveryLayout
           DEF Preallocate, PhaseInv, Phases, Delivery!Next, Delivery!Prepare
      <3>2. CASE file' = file /\ outcome' = "error"
        BY <2>0, <2>1, <3>2 DEF Delivery!Next, Delivery!GiveUp
      <3> QED BY <2>1, <3>1, <3>2 DEF Preallocate, Raise
    <2>2. CASE outcome = "none" /\ Report /\ firstError = None
      <3>1. \A p \in Pieces : p < numHashes => Delivery!InPlace(p)
        BY <2>2, HashedRight, RightInPlace DEF Report
      <3>2. file # << >>
        BY <2>2 DEF Report, PhaseInv, Phases
      <3> QED
        BY <2>0, <2>2, <3>1, <3>2, DeliveryLayout
           DEF Report, fileVars, Delivery!Next, Delivery!Succeed
    <2>3. CASE outcome = "none" /\ Main /\ ~Preallocate /\ ~(Report /\ firstError = None)
      <3>1. file' = file /\ outcome' \in {outcome, "error", "killed"}
        BY <2>3
           DEF Main, RejectEmptyPeerList, OpenFile, DivideByZero, SpawnWorker,
               SpawnFails, AllSpawned, JoinAll, CloseFile, Report, Unwind, Raise, Die, fileVars
      <3> QED BY <2>0, <2>3, <3>1 DEF Delivery!Next, Delivery!GiveUp
    <2>4. ASSUME outcome = "none", NEW w \in Workers, Worker(w)
          PROVE  Delivery!Next \/ UNCHANGED <<numHashes, file, outcome>>
      BY <2>0, <2>4, DeliveryWorker
    <2>5. CASE UNCHANGED vars
      BY <2>5 DEF vars, arguments, mainVars, fileVars
    <2> QED
      BY <2>1, <2>2, <2>3, <2>4, <2>5 DEF Next, Stopped
  <1> QED
    BY <1>1, <1>2, PhaseInvariant, ProgressInvariant, ErrorsInvariant, PTL
       DEF Spec, ImplementsDelivery, Delivery!Spec

=============================================================================
