--------------------------- MODULE Sha1Stream_proofs ---------------------------
(***************************************************************************)
(* What util::Sha1 hashes is the padded message, for every size of block   *)
(* and of length, every message and every way to cut it.                   *)
(***************************************************************************)
EXTENDS Sha1Stream, TLAPS

\* How much one turn of update's loop takes: no more than the block has room for.
LEMMA RoomLeft ==
  ASSUME TypeOK
  PROVE  /\ Room \in 1 .. BlockSize
         /\ \A n \in Nat : n <= chunk => Taken + n <= message
  BY Sha1Assumption DEF TypeOK, Room, Taken

\* The copied block holds bytes of the message, and what it held before.
LEMMA CopiedType ==
  ASSUME TypeOK, NEW n \in Nat, n <= chunk
  PROVE  Copied(n) \in [1 .. BlockSize -> Contents]
  <1> SUFFICES ASSUME NEW k \in 1 .. BlockSize
               PROVE  (IF k \in blockLen + 1 .. blockLen + n
                       THEN Byte(message - chunk + k - blockLen) ELSE block[k]) \in Contents
    BY DEF Copied
  <1>1. CASE k \in blockLen + 1 .. blockLen + n
    <2>1. message - chunk + k - blockLen \in 1 .. MaxMessage
      BY <1>1, Sha1Assumption DEF TypeOK
    <2> QED BY <1>1, <2>1 DEF Byte, Contents, MessageByte
  <1>2. CASE k \notin blockLen + 1 .. blockLen + n
    BY <1>2 DEF TypeOK
  <1> QED BY <1>1, <1>2

\* The last blocks have the size of a block.
LEMMA LastBlocksType ==
  ASSUME TypeOK
  PROVE  /\ Stopped \in [1 .. BlockSize -> Contents]
         /\ Zeros \in [1 .. BlockSize -> Contents]
         /\ \A bytes \in [1 .. BlockSize -> Contents] :
              WithLength(bytes) \in [1 .. BlockSize -> Contents]
  <1>1. Stop \in Contents /\ Zero \in Contents
    BY DEF Contents, Padding
  <1>2. ASSUME NEW k \in 1 .. BlockSize, ~(k <= LengthAt)
        PROVE  LengthByte(totalLen, k - LengthAt) \in Contents
    <2>1. k - LengthAt \in 1 .. LengthSize /\ totalLen \in 0 .. MaxMessage
      BY <1>2, Sha1Assumption DEF LengthAt, TypeOK
    <2> QED BY <2>1 DEF LengthByte, Contents, LengthBytes
  <1>3. \A bytes \in [1 .. BlockSize -> Contents] : \A k \in 1 .. BlockSize :
          (IF k <= LengthAt THEN bytes[k] ELSE LengthByte(totalLen, k - LengthAt)) \in Contents
    BY <1>2
  <1>4. \A k \in 1 .. BlockSize :
          (IF k <= blockLen THEN block[k] ELSE IF k = blockLen + 1 THEN Stop ELSE Zero) \in Contents
    BY <1>1 DEF TypeOK
  <1> QED
    BY <1>1, <1>3, <1>4 DEF Stopped, Zeros, WithLength

\* The contents a block may have.
BlockSet == [1 .. BlockSize -> Contents]

\* What appending one or two elements to a sequence gives.
LEMMA AppendType ==
  ASSUME NEW S, NEW s \in Seq(S), NEW a \in S, NEW b \in S
  PROVE  /\ Append(s, a) \in Seq(S) /\ s \o <<a, b>> \in Seq(S)
         /\ Append(s, a)[Len(Append(s, a))] \in S
         /\ (s \o <<a, b>>)[Len(s \o <<a, b>>)] \in S
  <1>1. <<a, b>> \in Seq(S) /\ Len(<<a, b>>) = 2 /\ Len(s) \in Nat
    OBVIOUS
  <1>2. s \o <<a, b>> \in Seq(S) /\ Len(s \o <<a, b>>) = Len(s) + 2
    BY <1>1
  <1>3. (s \o <<a, b>>)[Len(s) + 2] = <<a, b>>[2]
    BY <1>1
  <1> QED BY <1>1, <1>2, <1>3

\* Nothing is under way once finalize has returned.
Settled == final => chunk = 0

\* What Take does: n bytes, all that is left or all there is room for.
LEMMA TakeStep ==
  ASSUME TypeOK, Take
  PROVE  \E n \in 1 .. BlockSize :
           /\ n <= chunk /\ n <= Room /\ Put(n) /\ chunk' = chunk - n
           /\ UNCHANGED <<message, totalLen, final>>
  <1> DEFINE n == IF chunk < Room THEN chunk ELSE Room
  <1>0. chunk \in Nat /\ chunk > 0 /\ Room \in 1 .. BlockSize /\ BlockSize \in Nat
    BY RoomLeft, Sha1Assumption DEF Take, TypeOK
  <1>1. n \in 1 .. BlockSize /\ n <= chunk /\ n <= Room
    BY <1>0
  <1>2. Put(n) /\ chunk' = chunk - n /\ UNCHANGED <<message, totalLen, final>>
    BY DEF Take
  <1> HIDE DEF n
  <1> QED BY <1>1, <1>2

\* TypeOK and Settled are kept by every step.
LEMMA TypeStep ==
  ASSUME TypeOK, Settled, [Next]_vars
  PROVE  TypeOK' /\ Settled'
  <1>1. ASSUME NEW n \in 0 .. MaxMessage, Update(n)
        PROVE  TypeOK' /\ Settled'
    BY <1>1, Sha1Assumption DEF Update, TypeOK, Settled
  <1>2. CASE Take
    <2>1. PICK n \in 1 .. BlockSize :
            /\ n <= chunk /\ n <= Room /\ Put(n) /\ chunk' = chunk - n
            /\ UNCHANGED <<message, totalLen, final>>
      BY <1>2, TakeStep
    <2>2. block' \in [1 .. BlockSize -> Contents]
      BY <2>1, CopiedType DEF Put
    <2>3. processed' \in Seq(BlockSet)
      <3>1. processed \in Seq(BlockSet) /\ block' \in BlockSet
        BY <2>2 DEF TypeOK, BlockSet
      <3>2. processed' = Append(processed, block') \/ processed' = processed
        BY <2>1 DEF Put
      <3> QED BY <3>1, <3>2, AppendType
    <2>6. blockLen' \in 0 .. BlockSize - 1
      BY <2>1, Sha1Assumption DEF Put, Room, TypeOK
    <2>4. message' \in 0 .. MaxMessage /\ chunk' \in 0 .. message' /\ totalLen' = message'
          /\ final' \in BOOLEAN
      BY <2>1 DEF TypeOK
    <2>5. Settled'
      BY <1>2, <2>1 DEF Take, Settled, TypeOK
    <2> QED BY <2>2, <2>3, <2>4, <2>5, <2>6 DEF TypeOK, BlockSet
  <1>3. CASE Finalize
    <2>1. Stopped \in [1 .. BlockSize -> Contents] /\ WithLength(Zeros) \in [1 .. BlockSize -> Contents]
          /\ WithLength(Stopped) \in [1 .. BlockSize -> Contents]
      BY LastBlocksType
    <2>2. processed' \in Seq(BlockSet) /\ processed'[Len(processed')] \in BlockSet
      <3>1. processed \in Seq(BlockSet) /\ Stopped \in BlockSet
            /\ WithLength(Zeros) \in BlockSet /\ WithLength(Stopped) \in BlockSet
        BY <2>1 DEF TypeOK, BlockSet
      <3>2. \/ processed' = processed \o <<Stopped, WithLength(Zeros)>>
            \/ processed' = Append(processed, WithLength(Stopped))
        BY <1>3 DEF Finalize
      <3> QED BY <3>1, <3>2, AppendType
    <2>3. blockLen' \in 0 .. BlockSize - 1
      BY <1>3, Sha1Assumption DEF Finalize, TypeOK, Overflows, LengthAt
    <2>4. block' \in [1 .. BlockSize -> Contents]
      BY <1>3, <2>2 DEF Finalize, BlockSet
    <2> QED BY <1>3, <2>2, <2>3, <2>4 DEF Finalize, TypeOK, Settled, BlockSet
  <1>4. CASE UNCHANGED vars
    BY <1>4 DEF vars, TypeOK, Settled
  <1> QED
    BY <1>1, <1>2, <1>3, <1>4 DEF Next, Done

\* Type correctness (TypeOK).
THEOREM TypeCorrect == Spec => [](TypeOK /\ Settled)
  <1>1. Init => TypeOK /\ Settled
    <2> SUFFICES ASSUME Init PROVE TypeOK /\ Settled
      OBVIOUS
    <2>1. block \in [1 .. BlockSize -> Contents]
      BY DEF Init, Contents, Padding
    <2>2. 0 \in 0 .. MaxMessage /\ 0 \in 0 .. BlockSize - 1
      BY Sha1Assumption
    <2>3. << >> \in Seq([1 .. BlockSize -> Contents])
      OBVIOUS
    <2>4. /\ message = 0 /\ chunk = 0 /\ blockLen = 0 /\ totalLen = 0
          /\ processed = << >> /\ final = FALSE
      BY DEF Init
    <2>5. processed \in Seq([1 .. BlockSize -> Contents])
      BY <2>3, <2>4
    <2>6. /\ message \in 0 .. MaxMessage /\ chunk \in 0 .. message
          /\ blockLen \in 0 .. BlockSize - 1 /\ totalLen = message
      BY <2>2, <2>4
    <2>7. final \in BOOLEAN /\ Settled
      BY <2>4 DEF Settled
    <2> QED BY <2>1, <2>5, <2>6, <2>7 DEF TypeOK
  <1> QED BY <1>1, TypeStep, PTL DEF Spec

----------------------------------------------------------------------------
(* The buffer *)

\* One block more.
LEMMA BlockMore ==
  ASSUME NEW q \in Nat, NEW n \in Nat
  PROVE  q * n \in Nat /\ (q + 1) * n = q * n + n
  BY SMT

\* Where the bytes of a block end up.
LEMMA TakeBuffer ==
  ASSUME TypeOK, BufferHoldsTheRest, ~final, Take
  PROVE  BufferHoldsTheRest'
  <1> DEFINE q == Len(processed)
             base == q * BlockSize
  <1>1. PICK n \in 1 .. BlockSize :
          /\ n <= chunk /\ n <= Room /\ Put(n) /\ chunk' = chunk - n
          /\ UNCHANGED <<message, totalLen, final>>
    BY TakeStep
  <1>2. /\ q \in Nat /\ base \in Nat /\ (q + 1) * BlockSize = base + BlockSize
        /\ BlockSize \in Nat /\ processed \in Seq([1 .. BlockSize -> Contents])
        /\ blockLen \in 0 .. BlockSize - 1 /\ chunk \in Nat /\ message \in Nat
    BY BlockMore, Sha1Assumption DEF TypeOK
  <1>3. /\ message - chunk = base + blockLen
        /\ \A k \in 1 .. blockLen : block[k] = Byte(base + k)
        /\ \A b \in 1 .. q, k \in 1 .. BlockSize :
             processed[b][k] = Byte((b - 1) * BlockSize + k)
    BY DEF BufferHoldsTheRest, Taken
  <1>4. n <= BlockSize - blockLen
    BY <1>1 DEF Room
  <1> HIDE DEF q, base
  <1>5. \A k \in 1 .. blockLen + n : block'[k] = Byte(base + k)
    <2> SUFFICES ASSUME NEW k \in 1 .. blockLen + n
                 PROVE  Copied(n)[k] = Byte(base + k)
      BY <1>1 DEF Put
    <2>1. k \in 1 .. BlockSize
      BY <1>2, <1>4
    <2>2. CASE k <= blockLen
      BY <1>2, <1>3, <2>1, <2>2 DEF Copied
    <2>3. CASE k > blockLen
      <3>1. message - chunk + k - blockLen = base + k
        BY <1>2, <1>3
      <3>2. k \in blockLen + 1 .. blockLen + n
        BY <1>2, <2>3
      <3> QED BY <2>1, <3>1, <3>2 DEF Copied
    <2> QED BY <1>2, <2>2, <2>3
  <1>6. Taken' = base + blockLen + n
    BY <1>1, <1>2, <1>3 DEF Taken
  <1>7. CASE n = Room
    <2>1. processed' = Append(processed, block') /\ blockLen' = 0 /\ blockLen + n = BlockSize
      BY <1>1, <1>2, <1>7 DEF Put, Room
    <2>2. Len(processed') = q + 1 /\ processed'[q + 1] = block'
          /\ \A b \in 1 .. q : processed'[b] = processed[b]
      BY <1>2, <2>1 DEF q
    <2>3. Taken' = Len(processed') * BlockSize + blockLen'
      BY <1>2, <1>6, <2>1, <2>2
    <2>4. ASSUME NEW b \in 1 .. Len(processed'), NEW k \in 1 .. BlockSize
          PROVE  processed'[b][k] = Byte((b - 1) * BlockSize + k)
      <3>1. CASE b = q + 1
        <4>1. b - 1 = q
          BY <1>2, <3>1
        <4>2. (b - 1) * BlockSize + k = base + k
          BY <4>1 DEF base
        <4> QED BY <1>5, <2>1, <2>2, <3>1, <4>2
      <3>2. CASE b \in 1 .. q
        BY <1>3, <2>2, <3>2
      <3> QED BY <1>2, <2>2, <3>1, <3>2
    <2> QED
      BY <2>1, <2>3, <2>4 DEF BufferHoldsTheRest
  <1>8. CASE n # Room
    <2>1. processed' = processed /\ blockLen' = blockLen + n
      BY <1>1, <1>8 DEF Put
    <2>2. Taken' = Len(processed') * BlockSize + blockLen'
      BY <1>2, <1>6, <2>1 DEF base, q
    <2>3. \A k \in 1 .. blockLen' : block'[k] = Byte(Len(processed') * BlockSize + k)
      BY <1>5, <2>1 DEF base, q
    <2>4. \A b \in 1 .. Len(processed'), k \in 1 .. BlockSize :
            processed'[b][k] = Byte((b - 1) * BlockSize + k)
      BY <1>3, <2>1 DEF q
    <2> QED BY <2>2, <2>3, <2>4 DEF BufferHoldsTheRest
  <1> QED BY <1>7, <1>8

\* What has been taken is in the blocks processed and in the buffer
\* (BufferHoldsTheRest).
THEOREM BufferCorrect == Spec => []BufferHoldsTheRest
  <1>1. Init => BufferHoldsTheRest
    <2> SUFFICES ASSUME Init PROVE BufferHoldsTheRest
      OBVIOUS
    <2>1. message = 0 /\ chunk = 0 /\ blockLen = 0 /\ processed = << >> /\ Len(<< >>) = 0
      BY DEF Init
    <2>2. 0 * BlockSize = 0
      BY Sha1Assumption
    <2> QED BY <2>1, <2>2 DEF BufferHoldsTheRest, Taken
  <1>2. TypeOK /\ Settled /\ BufferHoldsTheRest /\ [Next]_vars => BufferHoldsTheRest'
    <2> SUFFICES ASSUME TypeOK, Settled, BufferHoldsTheRest, [Next]_vars
                 PROVE  BufferHoldsTheRest'
      OBVIOUS
    <2>1. ASSUME NEW n \in 0 .. MaxMessage, Update(n)
          PROVE  BufferHoldsTheRest'
      <3>1. Taken' = Taken
        BY <2>1 DEF Update, Taken, TypeOK
      <3> QED BY <2>1, <3>1 DEF Update, BufferHoldsTheRest
    <2>2. CASE Take
      <3>1. ~final
        BY <2>2 DEF Take, Settled, TypeOK
      <3> QED BY <2>2, <3>1, TakeBuffer
    <2>3. CASE Finalize
      BY <2>3 DEF Finalize, BufferHoldsTheRest
    <2>4. CASE UNCHANGED vars
      BY <2>4 DEF vars, BufferHoldsTheRest, Taken
    <2> QED BY <2>1, <2>2, <2>3, <2>4 DEF Next, Done
  <1> QED BY <1>1, <1>2, TypeCorrect, PTL DEF Spec

----------------------------------------------------------------------------
(* The padding *)

\* The quotient is the one number of times the divisor fits.
LEMMA DivUnique ==
  ASSUME NEW a \in Nat, NEW n \in Nat \ {0}, NEW d \in Nat,
         d * n <= a, a < d * n + n
  PROVE  a \div n = d
  <1> DEFINE e == a \div n
  <1>1. e \in Nat /\ e * n <= a /\ a < e * n + n
    BY SMT
  <1> HIDE DEF e
  <1>2. e <= d
    <2> SUFFICES ASSUME e > d PROVE FALSE
      BY <1>1
    <2>1. PICK c \in Nat : e = d + 1 + c
      <3>1. e - d - 1 \in Nat /\ e = d + 1 + (e - d - 1)
        BY <1>1
      <3> QED BY <3>1
    <2>2. e * n = d * n + n + c * n /\ c * n >= 0
      BY <2>1, SMT
    <2> QED BY <1>1, <2>2, BlockMore
  <1>3. d <= e
    <2> SUFFICES ASSUME d > e PROVE FALSE
      BY <1>1
    <2>1. PICK c \in Nat : d = e + 1 + c
      <3>1. d - e - 1 \in Nat /\ d = e + 1 + (d - e - 1)
        BY <1>1
      <3> QED BY <3>1
    <2>2. d * n = e * n + n + c * n /\ c * n >= 0
      BY <1>1, <2>1, SMT
    <2> QED BY <1>1, <2>2, BlockMore
  <1> QED BY <1>1, <1>2, <1>3 DEF e

\* The number of blocks of the padded message: one more than the full ones, or
\* two when the length does not fit after the 0x80.
LEMMA PaddedCount ==
  ASSUME NEW q \in Nat, NEW r \in 0 .. BlockSize - 1
  PROVE  /\ r + 1 <= LengthAt => PaddedBlocks(q * BlockSize + r) = q + 1
         /\ r + 1 > LengthAt => PaddedBlocks(q * BlockSize + r) = q + 2
  <1> DEFINE base == q * BlockSize
             a    == base + r + 1 + LengthSize + BlockSize - 1
  <1>1. /\ BlockSize \in Nat \ {0} /\ LengthSize \in Nat /\ base \in Nat
        /\ (q + 1) * BlockSize = base + BlockSize
        /\ (q + 2) * BlockSize = base + BlockSize + BlockSize
    <2>1. BlockSize \in Nat \ {0} /\ LengthSize \in Nat
      BY Sha1Assumption
    <2>2. base \in Nat /\ (q + 1) * BlockSize = base + BlockSize
      BY <2>1, BlockMore
    <2>3. ((q + 1) + 1) * BlockSize = (q + 1) * BlockSize + BlockSize
      BY <2>1, BlockMore
    <2>4. (q + 1) + 1 = q + 2
      OBVIOUS
    <2> QED BY <2>1, <2>2, <2>3, <2>4
  <1> HIDE DEF base
  <1>2. a \in Nat /\ PaddedBlocks(base + r) = a \div BlockSize
    BY <1>1 DEF PaddedBlocks
  <1>3. ASSUME r + 1 <= LengthAt
        PROVE  a \div BlockSize = q + 1
    <2>1. (q + 1) * BlockSize <= a /\ a < (q + 1) * BlockSize + BlockSize
      BY <1>1, <1>3 DEF LengthAt
    <2> HIDE DEF a
    <2> QED BY <1>1, <1>2, <2>1, DivUnique
  <1>4. ASSUME r + 1 > LengthAt
        PROVE  a \div BlockSize = q + 2
    <2>1. (q + 2) * BlockSize <= a /\ a < (q + 2) * BlockSize + BlockSize
      BY <1>1, <1>4, Sha1Assumption DEF LengthAt
    <2> HIDE DEF a
    <2> QED BY <1>1, <1>2, <2>1, DivUnique
  <1> QED BY <1>2, <1>3, <1>4 DEF base

\* The byte at a place of the padded message, base bytes after its start.
LEMMA PaddedByte ==
  ASSUME NEW n \in Nat, NEW b \in 1 .. PaddedBlocks(n), NEW k \in 1 .. BlockSize,
         NEW base \in Nat, base = (b - 1) * BlockSize,
         NEW last \in Nat, last = PaddedBlocks(n) * BlockSize,
         n + 1 <= last - LengthSize
  PROVE  /\ base + k <= n     => Padded(n)[b][k] = Byte(base + k)
         /\ base + k = n + 1  => Padded(n)[b][k] = Stop
         /\ base + k > n + 1 /\ base + k <= last - LengthSize => Padded(n)[b][k] = Zero
         /\ base + k > last - LengthSize
              => Padded(n)[b][k] = LengthByte(n, base + k - last + LengthSize)
  <1> DEFINE at == base + k
  <1>1. Padded(n)[b][k] =
          CASE at <= n                                -> Byte(at)
            [] at = n + 1                             -> Stop
            [] at > n + 1 /\ at <= last - LengthSize  -> Zero
            [] at > last - LengthSize                 -> LengthByte(n, at - last + LengthSize)
    BY DEF Padded
  <1>2. at \in Nat /\ n \in Nat /\ last \in Nat /\ LengthSize \in Nat /\ BlockSize \in Nat
    BY Sha1Assumption
  <1> HIDE DEF at
  <1>3. /\ at <= n     => Padded(n)[b][k] = Byte(at)
        /\ at = n + 1  => Padded(n)[b][k] = Stop
        /\ at > n + 1 /\ at <= last - LengthSize => Padded(n)[b][k] = Zero
        /\ at > last - LengthSize => Padded(n)[b][k] = LengthByte(n, at - last + LengthSize)
    BY <1>1, <1>2
  <1> QED BY <1>3 DEF at

\* finalize completes the padded message: its blocks are those processed
\* already, the buffer with the 0x80, and where that leaves no room for the
\* length one more.
LEMMA FinalizeDigest ==
  ASSUME TypeOK, BufferHoldsTheRest, Finalize
  PROVE  processed' = Padded(message)
  <1> DEFINE q == Len(processed)
             r == blockLen
             base == q * BlockSize
  <1>1. /\ q \in Nat /\ r \in 0 .. BlockSize - 1 /\ message \in Nat
        /\ BlockSize \in Nat \ {0} /\ LengthSize \in Nat \ {0} /\ LengthSize < BlockSize
        /\ totalLen = message /\ processed \in Seq([1 .. BlockSize -> Contents])
    BY Sha1Assumption DEF TypeOK
  <1>2. base \in Nat /\ (q + 1) * BlockSize = base + BlockSize
    BY <1>1, BlockMore
  <1>3. (q + 2) * BlockSize = base + BlockSize + BlockSize
    <2>1. ((q + 1) + 1) * BlockSize = (q + 1) * BlockSize + BlockSize
      BY <1>1, BlockMore
    <2>2. (q + 1) + 1 = q + 2
      BY <1>1
    <2> QED BY <1>2, <2>1, <2>2
  <1>4. /\ message = base + r
        /\ \A k \in 1 .. r : block[k] = Byte(base + k)
        /\ \A b \in 1 .. q, k \in 1 .. BlockSize :
             processed[b][k] = Byte((b - 1) * BlockSize + k)
    BY DEF BufferHoldsTheRest, Taken, Finalize, TypeOK
  <1>5. /\ r + 1 <= LengthAt => PaddedBlocks(message) = q + 1
        /\ r + 1 > LengthAt => PaddedBlocks(message) = q + 2
    BY <1>1, <1>4, PaddedCount
  <1>6. ASSUME NEW b \in 1 .. q
        PROVE  (b - 1) * BlockSize \in Nat /\ (b - 1) * BlockSize + BlockSize <= base
    <2>1. b - 1 \in Nat /\ q - b \in Nat
      BY <1>1
    <2>2. (b - 1) * BlockSize \in Nat /\ (q - b) * BlockSize \in Nat
      BY <1>1, <2>1, BlockMore
    <2>3. base = (b - 1) * BlockSize + BlockSize + (q - b) * BlockSize
      BY <1>1, SMT
    <2> HIDE DEF base
    <2> QED BY <1>1, <1>2, <2>2, <2>3
  <1>7. /\ Len(processed') = PaddedBlocks(message)
        /\ processed' \in Seq([1 .. BlockSize -> Contents])
        /\ \A b \in 1 .. q : processed'[b] = processed[b]
        /\ r + 1 <= LengthAt => processed'[q + 1] = WithLength(Stopped)
        /\ r + 1 > LengthAt =>
             processed'[q + 1] = Stopped /\ processed'[q + 2] = WithLength(Zeros)
    <2>0. Stopped \in BlockSet /\ WithLength(Zeros) \in BlockSet /\ WithLength(Stopped) \in BlockSet
          /\ processed \in Seq(BlockSet)
      BY <1>1, LastBlocksType DEF BlockSet
    <2>1. CASE Overflows
      <3>1. processed' = processed \o <<Stopped, WithLength(Zeros)>> /\ r + 1 > LengthAt
        BY <1>1, <2>1 DEF Finalize, Overflows, LengthAt
      <3> QED BY <1>1, <1>5, <2>0, <3>1 DEF BlockSet
    <2>2. CASE ~Overflows
      <3>1. processed' = Append(processed, WithLength(Stopped)) /\ r + 1 <= LengthAt
        BY <1>1, <2>2 DEF Finalize, Overflows, LengthAt
      <3> QED BY <1>1, <1>5, <2>0, <3>1 DEF BlockSet, LengthAt
    <2> QED BY <2>1, <2>2
  <1>n. /\ q \in Nat /\ r \in Nat /\ r <= BlockSize - 1 /\ base \in Nat
        /\ BlockSize \in Nat /\ LengthSize \in Nat /\ LengthSize < BlockSize
        /\ message = base + r /\ LengthAt = BlockSize - LengthSize
    BY <1>1, <1>2, <1>4 DEF LengthAt
  <1> HIDE DEF q, r, base
  <1> DEFINE last == PaddedBlocks(message) * BlockSize
  <1>8. last \in Nat /\ message + 1 <= last - LengthSize
        /\ (r + 1 <= LengthAt => last = base + BlockSize)
        /\ (r + 1 > LengthAt => last = base + BlockSize + BlockSize)
    <2>1. CASE r + 1 <= LengthAt
      <3>1. last = base + BlockSize
        BY <1>2, <1>5, <2>1
      <3> HIDE DEF last
      <3> QED BY <1>n, <2>1, <3>1
    <2>2. CASE r + 1 > LengthAt
      <3>1. last = base + BlockSize + BlockSize
        BY <1>3, <1>5, <2>2
      <3> HIDE DEF last
      <3> QED BY <1>n, <2>2, <3>1
    <2> HIDE DEF last
    <2> QED BY <1>n, <2>1, <2>2
  <1> HIDE DEF last
  <1>9. ASSUME NEW b \in 1 .. PaddedBlocks(message), NEW k \in 1 .. BlockSize
        PROVE  processed'[b][k] = Padded(message)[b][k]
    <2>1. CASE b \in 1 .. q
      <3>1. (b - 1) * BlockSize \in Nat /\ (b - 1) * BlockSize + k <= message
        BY <1>1, <1>2, <1>4, <1>6, <2>1
      <3>2. Padded(message)[b][k] = Byte((b - 1) * BlockSize + k)
        BY <1>1, <1>8, <3>1, PaddedByte DEF last
      <3> QED BY <1>4, <1>7, <2>1, <3>2
    <2>2. CASE b = q + 1
      <3>1. (b - 1) * BlockSize = base
        <4>1. b - 1 = q
          BY <1>1, <2>2
        <4> QED BY <4>1 DEF base
      <3>2. /\ base + k <= message     => Padded(message)[b][k] = Byte(base + k)
            /\ base + k = message + 1  => Padded(message)[b][k] = Stop
            /\ base + k > message + 1 /\ base + k <= last - LengthSize
                 => Padded(message)[b][k] = Zero
            /\ base + k > last - LengthSize
                 => Padded(message)[b][k] = LengthByte(message, base + k - last + LengthSize)
        BY ONLY <1>n, <1>8, <3>1, b \in 1 .. PaddedBlocks(message), k \in 1 .. BlockSize,
                PaddedByte DEF last
      <3>3. Stopped[k] = IF k <= r THEN Byte(base + k) ELSE IF k = r + 1 THEN Stop ELSE Zero
        BY <1>1, <1>4 DEF Stopped, r
      <3>4. CASE r + 1 <= LengthAt
        <4>1. processed'[b][k] = IF k <= LengthAt THEN Stopped[k]
                                 ELSE LengthByte(message, k - LengthAt)
          BY <1>1, <1>7, <2>2, <3>4 DEF WithLength
        <4>2. base + k - last + LengthSize = k - LengthAt
          BY <1>1, <1>2, <1>8, <3>4 DEF LengthAt
        <4>3. /\ k <= r <=> base + k <= message
              /\ k = r + 1 <=> base + k = message + 1
              /\ k <= LengthAt <=> base + k <= last - LengthSize
          BY <1>n, <1>8, <3>4
        <4> QED BY <1>n, <1>8, <3>2, <3>3, <3>4, <4>1, <4>2, <4>3
      <3>5. CASE r + 1 > LengthAt
        <4>1. processed'[b][k] = Stopped[k]
          BY <1>7, <2>2, <3>5
        <4>2. base + k <= last - LengthSize
          BY <1>1, <1>2, <1>8, <3>5
        <4>3. /\ k <= r <=> base + k <= message
              /\ k = r + 1 <=> base + k = message + 1
          BY <1>1, <1>2, <1>4
        <4> QED BY <1>1, <1>2, <1>4, <3>2, <3>3, <4>1, <4>2, <4>3
      <3> QED BY <1>1, <3>4, <3>5 DEF LengthAt
    <2>3. CASE b = q + 2
      <3>1. r + 1 > LengthAt /\ last = base + BlockSize + BlockSize
        BY <1>1, <1>5, <1>8, <2>3 DEF LengthAt
      <3>2. (b - 1) * BlockSize = base + BlockSize
        <4>1. b - 1 = q + 1
          BY <1>1, <2>3
        <4> QED BY <1>2, <4>1
      <3>3. base + BlockSize \in Nat /\ (base + BlockSize) + k > message + 1
        BY <1>1, <1>2, <1>4
      <3>4. /\ (base + BlockSize) + k <= last - LengthSize => Padded(message)[b][k] = Zero
            /\ (base + BlockSize) + k > last - LengthSize
                 => Padded(message)[b][k]
                      = LengthByte(message, (base + BlockSize) + k - last + LengthSize)
        <4> DEFINE before == base + BlockSize
        <4>1. before \in Nat /\ before = (b - 1) * BlockSize /\ before + k > message + 1
          BY <3>2, <3>3
        <4> HIDE DEF before
        <4>2. /\ before + k <= last - LengthSize => Padded(message)[b][k] = Zero
              /\ before + k > last - LengthSize
                   => Padded(message)[b][k] = LengthByte(message, before + k - last + LengthSize)
          BY ONLY <1>n, <1>8, <4>1, b \in 1 .. PaddedBlocks(message), k \in 1 .. BlockSize,
                  PaddedByte DEF last
        <4> QED BY <4>2 DEF before
      <3>5. processed'[b][k] = IF k <= LengthAt THEN Zero ELSE LengthByte(message, k - LengthAt)
        BY <1>1, <1>7, <2>3, <3>1 DEF WithLength, Zeros
      <3>6. /\ (base + BlockSize) + k - last + LengthSize = k - LengthAt
            /\ k <= LengthAt <=> (base + BlockSize) + k <= last - LengthSize
        BY <1>n, <1>8, <3>1
      <3> QED BY <1>n, <1>8, <3>4, <3>5, <3>6
    <2> QED
      BY <1>1, <1>5, <2>1, <2>2, <2>3 DEF LengthAt
  <1> DEFINE N == PaddedBlocks(message)
  <1>10. ASSUME NEW b \in 1 .. N
         PROVE  processed'[b] = Padded(message)[b]
    <2>1. processed'[b] \in [1 .. BlockSize -> Contents]
      BY <1>7
    <2>2. Padded(message)[b] = [k \in 1 .. BlockSize |-> Padded(message)[b][k]]
      <3> DEFINE end == PaddedBlocks(message) * BlockSize
                 at(k) == (b - 1) * BlockSize + k
                 C(k) == CASE at(k) <= message -> Byte(at(k))
                           [] at(k) = message + 1 -> Stop
                           [] at(k) > message + 1 /\ at(k) <= end - LengthSize -> Zero
                           [] at(k) > end - LengthSize
                                -> LengthByte(message, at(k) - end + LengthSize)
      <3>1. Padded(message)[b] = [k \in 1 .. BlockSize |-> C(k)]
        BY DEF Padded
      <3> HIDE DEF C
      <3> QED BY <3>1
    <2>3. processed'[b] = [k \in 1 .. BlockSize |-> processed'[b][k]]
      BY <2>1
    <2> QED BY <1>9, <2>2, <2>3
  <1>11. processed' = [b \in 1 .. N |-> processed'[b]]
    BY <1>7
  <1>12. Padded(message) = [b \in 1 .. N |-> Padded(message)[b]]
    BY DEF Padded
  <1> QED BY <1>10, <1>11, <1>12

\* What is hashed is the padded message, however the message was cut into
\* calls of update (DigestIsOfTheMessage).
THEOREM DigestCorrect == Spec => []DigestIsOfTheMessage
  <1>1. Init => DigestIsOfTheMessage
    BY DEF Init, DigestIsOfTheMessage
  <1>2. TypeOK /\ Settled /\ BufferHoldsTheRest /\ DigestIsOfTheMessage /\ [Next]_vars
          => DigestIsOfTheMessage'
    <2> SUFFICES ASSUME TypeOK, Settled, BufferHoldsTheRest, DigestIsOfTheMessage, [Next]_vars
                 PROVE  DigestIsOfTheMessage'
      OBVIOUS
    <2>1. ASSUME NEW n \in 0 .. MaxMessage, Update(n)
          PROVE  DigestIsOfTheMessage'
      BY <2>1 DEF Update, DigestIsOfTheMessage
    <2>2. CASE Take
      <3>1. ~final
        BY <2>2 DEF Take, Settled, TypeOK
      <3> QED BY <2>2, <3>1 DEF Take, DigestIsOfTheMessage
    <2>3. CASE Finalize
      <3>1. message' = message
        BY <2>3 DEF Finalize
      <3> QED BY <2>3, <3>1, FinalizeDigest DEF DigestIsOfTheMessage
    <2>4. CASE UNCHANGED vars
      BY <2>4 DEF vars, DigestIsOfTheMessage
    <2> QED BY <2>1, <2>2, <2>3, <2>4 DEF Next, Done
  <1> QED BY <1>1, <1>2, TypeCorrect, BufferCorrect, PTL DEF Spec

=============================================================================
