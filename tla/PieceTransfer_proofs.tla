----------------------- MODULE PieceTransfer_proofs -----------------------
(***************************************************************************)
(* Theorems about PieceTransfer, for every file, window depth, range of    *)
(* pieces and behaviour of the peer.  The layout comes first: the blocks   *)
(* tile a piece, and begin where they say.  (The lemmas on the length of a *)
(* piece are those of DownloadFile_proofs, which this module cannot be     *)
(* extended with: both have a state of their own.)                         *)
(***************************************************************************)
EXTENDS PieceTransfer, SequenceTheorems, FiniteSetTheorems, FunctionTheorems, TLAPS

----------------------------------------------------------------------------
(* Arithmetic *)

\* Division with remainder, as C++ divides non-negative numbers.
LEMMA DivMod ==
  ASSUME NEW a \in Nat, NEW b \in Nat \ {0}
  PROVE  /\ a \div b \in Nat /\ a % b \in 0 .. b - 1
         /\ a = b * (a \div b) + (a % b)
  BY SMT

\* Multiplying by a non-negative factor preserves the order.
LEMMA MulMono ==
  ASSUME NEW a \in Int, NEW b \in Int, NEW c \in Nat, a <= b
  PROVE  c * a <= c * b
  BY SMT

\* Cancelling a factor.
LEMMA MulCancel ==
  ASSUME NEW a \in Int, NEW b \in Int, NEW c \in Nat \ {0}, c * a < c * b
  PROVE  a < b
  BY SMT

\* Expanding products.
LEMMA MulDist ==
  ASSUME NEW a \in Int, NEW b \in Int, NEW c \in Int
  PROVE /\ c * (a + b) = c * a + c * b
        /\ c * (a - b) = c * a - c * b
        /\ c * a \in Int
        /\ c * (a + 1) = c * a + c
        /\ c * (a - 1) = c * a - c
        /\ c * a = a * c
  BY SMT

----------------------------------------------------------------------------
(* Pieces *)

\* The number of pieces is the least that holds the whole file: the ceiling
\* download_piece_on_connection computes.
LEMMA NumPiecesBounds ==
  /\ NumPieces \in Nat \ {0}
  /\ PieceLength * (NumPieces - 1) < Length
  /\ Length <= PieceLength * NumPieces
  <1> DEFINE q == NumPieces
  <1>1. Length + PieceLength - 1 \in Nat
    BY LayoutAssumption
  <1>2. /\ NumPieces \in Nat
        /\ Length + PieceLength - 1 = PieceLength * NumPieces + ((Length + PieceLength - 1) % PieceLength)
        /\ (Length + PieceLength - 1) % PieceLength \in 0 .. PieceLength - 1
    BY <1>1, DivMod, LayoutAssumption DEF NumPieces
  <1>3. NumPieces # 0
    BY <1>2, LayoutAssumption
  <1>4. PieceLength * (NumPieces - 1) = PieceLength * NumPieces - PieceLength
    BY <1>2, LayoutAssumption
  <1> QED
    BY <1>2, <1>3, <1>4, LayoutAssumption

\* The last piece ends the file; the others are full.
LEMMA PieceLenBounds ==
  ASSUME NEW p \in Pieces
  PROVE  /\ ActualPieceLen(p) \in 1 .. PieceLength
         /\ PieceOffset(p) \in Nat
         /\ PieceOffset(p) + ActualPieceLen(p) <= Length
         /\ p = NumPieces - 1 => PieceOffset(p) + ActualPieceLen(p) = Length
         /\ p # NumPieces - 1 => PieceOffset(p) + ActualPieceLen(p) = PieceOffset(p + 1)
  <1>0. p \in Nat /\ p <= NumPieces - 1 /\ NumPieces \in Nat
    BY NumPiecesBounds DEF Pieces
  <1>a. /\ PieceOffset(p) = PieceLength * p /\ PieceOffset(p + 1) = PieceLength * p + PieceLength
        /\ PieceLength * p \in Nat
    BY <1>0, MulDist, MulMono, LayoutAssumption DEF PieceOffset
  <1>1. CASE p # NumPieces - 1
    <2>1. p + 1 <= NumPieces - 1
      BY <1>0, <1>1
    <2>2. PieceLength * (p + 1) <= PieceLength * (NumPieces - 1)
      BY <2>1, <1>0, MulMono, LayoutAssumption
    <2>3. PieceLength * (p + 1) = PieceLength * p + PieceLength
      BY <1>0, MulDist, LayoutAssumption
    <2>4. ActualPieceLen(p) = PieceLength
      BY <1>1 DEF ActualPieceLen
    <2>5. PieceLength * (NumPieces - 1) \in Int
      BY <1>0, LayoutAssumption, MulDist
    <2> QED
      BY <2>2, <2>3, <2>4, <2>5, <1>1, <1>a, NumPiecesBounds, LayoutAssumption
  <1>2. CASE p = NumPieces - 1
    <2> DEFINE k == Length \div PieceLength
               r == Length % PieceLength
    <2>1. /\ k \in Nat /\ r \in 0 .. PieceLength - 1
          /\ Length = PieceLength * k + r
      BY DivMod, LayoutAssumption
    <2>2. /\ PieceLength * k \in Int /\ PieceLength * p \in Int
          /\ PieceLength * p < Length /\ Length <= PieceLength * p + PieceLength
      BY <1>0, <1>2, <2>1, MulDist, NumPiecesBounds, LayoutAssumption
    <2>3. CASE r = 0
      <3>1. ActualPieceLen(p) = PieceLength
        BY <2>3 DEF ActualPieceLen
      <3>2. PieceLength * p < PieceLength * k
        BY <2>1, <2>2, <2>3
      <3>3. p + 1 <= k
        BY <3>2, <2>1, <1>0, MulCancel, LayoutAssumption
      <3>4. PieceLength * (p + 1) <= PieceLength * k
        BY <3>3, <2>1, <1>0, MulMono, LayoutAssumption
      <3>5. PieceLength * (p + 1) = PieceLength * p + PieceLength
        BY <1>0, MulDist, LayoutAssumption
      <3> HIDE DEF k, r
      <3> QED
        BY <3>1, <3>4, <3>5, <2>1, <2>2, <2>3, <1>2, <1>a, LayoutAssumption
    <2>4. CASE r # 0
      <3>1. ActualPieceLen(p) = r
        BY <2>4, <1>2 DEF ActualPieceLen
      <3>2. k = p
        <4> HIDE DEF k, r
        <4>1. PieceLength * p < PieceLength * (k + 1)
          BY <2>1, <2>2, MulDist, LayoutAssumption
        <4>2. p < k + 1
          BY <4>1, <2>1, <1>0, MulCancel, LayoutAssumption
        <4>3. PieceLength * k < PieceLength * (p + 1)
          BY <2>1, <2>2, <2>4, <1>0, MulDist, LayoutAssumption
        <4>4. k < p + 1
          BY <4>3, <2>1, <1>0, MulCancel, LayoutAssumption
        <4> QED BY <4>2, <4>4, <2>1, <1>0
      <3> HIDE DEF k, r
      <3> QED
        BY <3>1, <3>2, <2>1, <2>2, <2>4, <1>2, <1>a, LayoutAssumption
    <2> QED BY <2>3, <2>4
  <1> QED BY <1>1, <1>2

----------------------------------------------------------------------------
(* Blocks *)

\* The loop "for (off = 0; off < len; off += kBlockSize)" makes as many
\* blocks as the length divided by the block size, rounded up.
LEMMA NumBlocksBounds ==
  ASSUME NEW p \in Pieces
  PROVE  /\ NumBlocks(p) \in Nat \ {0}
         /\ BlockSize * (NumBlocks(p) - 1) < ActualPieceLen(p)
         /\ ActualPieceLen(p) <= BlockSize * NumBlocks(p)
  <1> DEFINE len == ActualPieceLen(p)
  <1>1. len \in Nat \ {0}
    BY PieceLenBounds, LayoutAssumption
  <1> HIDE DEF len
  <1>2. /\ NumBlocks(p) \in Nat
        /\ len + BlockSize - 1 = BlockSize * NumBlocks(p) + ((len + BlockSize - 1) % BlockSize)
        /\ (len + BlockSize - 1) % BlockSize \in 0 .. BlockSize - 1
    <2>1. len + BlockSize - 1 \in Nat
      BY <1>1, LayoutAssumption
    <2> QED
      BY <2>1, DivMod, LayoutAssumption DEF NumBlocks, len
  <1>3. NumBlocks(p) # 0
    BY <1>1, <1>2, LayoutAssumption
  <1>4. BlockSize * (NumBlocks(p) - 1) = BlockSize * NumBlocks(p) - BlockSize
    BY <1>2, MulDist, LayoutAssumption
  <1>5. BlockSize * NumBlocks(p) \in Int
    BY <1>2, MulDist, LayoutAssumption
  <1> QED
    BY <1>1, <1>2, <1>3, <1>4, <1>5, LayoutAssumption DEF len

\* A block lies within the piece, is not empty, and begins where the block
\* before it ends.
LEMMA BlockBounds ==
  ASSUME NEW p \in Pieces, NEW i \in Blocks(p)
  PROVE  /\ i \in Nat /\ i < NumBlocks(p)
         /\ BlockBegin(i) \in Nat
         /\ BlockLength(p, i) \in 1 .. BlockSize
         /\ BlockBegin(i) + BlockLength(p, i) <= ActualPieceLen(p)
         /\ BlockBegin(i + 1) = BlockBegin(i) + BlockSize
         /\ BlockLength(p, i) # BlockSize =>
              BlockBegin(i) + BlockLength(p, i) = ActualPieceLen(p)
  <1>1. i \in Nat /\ i <= NumBlocks(p) - 1 /\ NumBlocks(p) \in Nat
    BY NumBlocksBounds DEF Blocks
  <1>2. ActualPieceLen(p) \in Nat
    BY PieceLenBounds, LayoutAssumption
  <1>3. /\ BlockBegin(i) = BlockSize * i
        /\ BlockBegin(i + 1) = BlockSize * i + BlockSize
        /\ BlockSize * i \in Nat
    BY <1>1, MulDist, MulMono, LayoutAssumption DEF BlockBegin
  <1>4. BlockSize * i < ActualPieceLen(p)
    <2>1. BlockSize * i <= BlockSize * (NumBlocks(p) - 1)
      BY <1>1, MulMono, LayoutAssumption
    <2>2. BlockSize * (NumBlocks(p) - 1) \in Int
      BY <1>1, MulDist, LayoutAssumption
    <2> QED
      BY <2>1, <2>2, <1>2, <1>3, NumBlocksBounds
  <1> QED
    BY <1>1, <1>2, <1>3, <1>4, LayoutAssumption DEF BlockLength

\* The begin of a block names it: the receive loop matches on it alone.
LEMMA BlockBeginInjective ==
  ASSUME NEW i \in Nat, NEW j \in Nat, BlockBegin(i) = BlockBegin(j)
  PROVE  i = j
  <1>1. BlockSize * i = BlockSize * j
    BY MulDist, LayoutAssumption DEF BlockBegin
  <1>2. ~(BlockSize * i < BlockSize * j) /\ ~(BlockSize * j < BlockSize * i)
    BY <1>1, MulDist, LayoutAssumption
  <1>3. CASE i < j
    <2>1. i + 1 <= j BY <1>3
    <2>2. BlockSize * (i + 1) <= BlockSize * j
      BY <2>1, MulMono, LayoutAssumption
    <2> QED BY <2>2, <1>1, MulDist, LayoutAssumption
  <1>4. CASE j < i
    <2>1. j + 1 <= i BY <1>4
    <2>2. BlockSize * (j + 1) <= BlockSize * i
      BY <2>1, MulMono, LayoutAssumption
    <2> QED BY <2>2, <1>1, MulDist, LayoutAssumption
  <1> QED BY <1>3, <1>4

\* Two blocks of a piece share no byte.
LEMMA BlocksDisjoint ==
  ASSUME NEW p \in Pieces, NEW i \in Blocks(p), NEW j \in Blocks(p), i < j
  PROVE  BlockBegin(i) + BlockLength(p, i) <= BlockBegin(j)
  <1>1. i \in Nat /\ j \in Nat /\ i + 1 <= j
    BY BlockBounds
  <1>2. BlockSize * (i + 1) <= BlockSize * j
    BY <1>1, MulMono, LayoutAssumption
  <1>3. BlockBegin(j) = BlockSize * j /\ BlockBegin(i + 1) = BlockSize * (i + 1)
    BY <1>1, MulDist, LayoutAssumption DEF BlockBegin
  <1> QED
    BY <1>2, <1>3, BlockBounds, LayoutAssumption

\* Every byte of a piece lies in a block.
LEMMA BlocksCover ==
  ASSUME NEW p \in Pieces, NEW o \in Offsets(p)
  PROVE  \E i \in Blocks(p) :
           o - BlockBegin(i) \in 0 .. BlockLength(p, i) - 1
  <1> DEFINE i == o \div BlockSize
             r == o % BlockSize
  <1>0. /\ ActualPieceLen(p) \in Nat
        /\ o \in Nat /\ o < ActualPieceLen(p)
    BY PieceLenBounds, LayoutAssumption DEF Offsets
  <1>1. /\ i \in Nat /\ r \in 0 .. BlockSize - 1
        /\ o = BlockSize * i + r
    BY <1>0, DivMod, LayoutAssumption
  <1> HIDE DEF i, r
  <1>2. i <= NumBlocks(p) - 1
    <2>1. BlockSize * i \in Int /\ BlockSize * NumBlocks(p) \in Int
      BY <1>1, MulDist, NumBlocksBounds, LayoutAssumption
    <2>2. BlockSize * i < BlockSize * NumBlocks(p)
      BY <1>0, <1>1, <2>1, NumBlocksBounds, LayoutAssumption
    <2> QED
      BY <2>2, <1>1, MulCancel, NumBlocksBounds, LayoutAssumption
  <1>3. i \in Blocks(p)
    BY <1>1, <1>2, NumBlocksBounds DEF Blocks
  <1>4. BlockBegin(i) = BlockSize * i /\ BlockSize * i \in Int
    BY <1>1, MulDist, LayoutAssumption DEF BlockBegin
  <1>5. o - BlockBegin(i) = r
    BY <1>0, <1>1, <1>4
  <1>6. r < BlockLength(p, i)
    BY <1>0, <1>1, <1>3, <1>4, BlockBounds, LayoutAssumption DEF BlockLength
  <1>7. o - BlockBegin(i) \in 0 .. BlockLength(p, i) - 1
    BY <1>1, <1>3, <1>5, <1>6, BlockBounds, LayoutAssumption
  <1> QED BY <1>3, <1>7

----------------------------------------------------------------------------
(* Lemmas about the operators *)

\* The pieces of the range are pieces of the file.
LEMMA RangePieces ==
  ASSUME NEW p \in Start .. End, p < End
  PROVE  p \in Pieces /\ p + 1 \in Start .. End
  BY TransferAssumption, NumPiecesBounds DEF Pieces

\* util::send_all: over an open connection the peer gets the request; the
\* connection never opens again, and nothing else is added to what the peer
\* holds.
LEMMA SendEffect ==
  ASSUME TypeOK, NEW r, NEW next, Send(r, next)
  PROVE  /\ pc' \in {next, "failed", "killed"}
         /\ conn = "open" =>
              pc' = next /\ conn' = "open" /\ outstanding' = outstanding \cup {r}
         /\ conn # "open" => conn' # "open" /\ outstanding' = outstanding
         /\ conn' \in {"open", "finished", "rst pending", "broken", "reset"}
         /\ error' \in {error, "send"}
         /\ error' = error \/ conn = "reset"
         /\ pc' = "killed" => conn # "open" \/ next = "killed"
  BY DEF Send, Throw, TypeOK

\* std::ranges::copy of a block: the buffer keeps its size and holds bytes.
LEMMA CopyBlockType ==
  ASSUME NEW p \in Pieces, NEW data \in [Offsets(p) -> Bytes],
         NEW m \in Messages, m.type = "piece"
  PROVE  CopyBlock(data, m) \in [Offsets(p) -> Bytes]
  <1>1. m.begin \in Nat /\ m.block \in BlockData
    BY DEF Messages, SkippedKinds, UnknownKinds
  <1>2. PICK n \in 0 .. MaxBlock : m.block \in [0 .. n - 1 -> Bytes]
    BY <1>1 DEF BlockData
  <1>3. DOMAIN data = Offsets(p)
    OBVIOUS
  <1>4. \A o \in Offsets(p) :
          (IF o - m.begin \in DOMAIN m.block THEN m.block[o - m.begin] ELSE data[o]) \in Bytes
    BY <1>2
  <1> QED
    BY <1>3, <1>4 DEF CopyBlock

\* The first message of a queue that is not empty, and the rest.
LEMMA InboxHead ==
  ASSUME inbox \in Seq(Messages), inbox # << >>
  PROVE  /\ Head(inbox) \in Messages
         /\ Tail(inbox) \in Seq(Messages)
         /\ Len(Tail(inbox)) = Len(inbox) - 1
         /\ \A k \in 1 .. Len(inbox) - 1 : Tail(inbox)[k] = inbox[k + 1]
         /\ Head(inbox) = inbox[1]
         /\ Len(inbox) \in Nat \ {0}
  BY HeadTailProperties, EmptySeq

\* The requests the client sends are requests for blocks of pieces.
LEMMA CanSendBlock ==
  ASSUME TypeOK, Active, NEW p, CanSend(p)
  PROVE  pi \in Pieces /\ sendIdx \in Blocks(pi) /\ sendIdx + 1 <= NumBlocks(pi)
  <1>1. pi \in Pieces
    BY RangePieces DEF TypeOK
  <1>2. NumBlocks(pi) \in Nat
    BY <1>1, NumBlocksBounds
  <1>3. sendIdx \in Nat /\ sendIdx < NumBlocks(pi)
    BY DEF TypeOK, CanSend
  <1> QED
    BY <1>1, <1>2, <1>3 DEF Blocks

\* What the peer sends are messages: an answer of any length up to MaxBlock,
LEMMA AnswerIsMessage ==
  ASSUME NEW p \in Pieces, NEW i \in Blocks(p), NEW n \in 0 .. MaxBlock,
         NEW bytes \in [0 .. n - 1 -> Bytes]
  PROVE  PieceMsg(RequestFor(p, i), bytes) \in Messages
  <1>1. BlockBegin(i) \in Nat
    BY BlockBounds
  <1>2. bytes \in BlockData
    BY DEF BlockData
  <1> QED
    BY <1>1, <1>2 DEF PieceMsg, RequestFor, Messages

\* and so one of at most the length that was asked for.
LEMMA RequestedIsMessage ==
  ASSUME NEW p \in Pieces, NEW i \in Blocks(p), NEW n \in 0 .. BlockLength(p, i),
         NEW bytes \in [0 .. n - 1 -> Bytes]
  PROVE  PieceMsg(RequestFor(p, i), bytes) \in Messages
  <1>1. BlockLength(p, i) \in 1 .. BlockSize
    BY BlockBounds
  <1>2. n \in 0 .. MaxBlock
    BY <1>1, LayoutAssumption, TransferAssumption
  <1> QED
    BY <1>2, AnswerIsMessage

\* The bytes a request asks for are bytes of the file.
LEMMA RequestedBytes ==
  ASSUME NEW p \in Pieces, NEW i \in Blocks(p)
  PROVE  /\ Requested(RequestFor(p, i)) \in [0 .. BlockLength(p, i) - 1 -> Bytes]
         /\ RequestFor(p, i).length = BlockLength(p, i)
         /\ BlockLength(p, i) \in 1 .. BlockSize
  <1>1. /\ BlockBegin(i) \in Nat
        /\ BlockLength(p, i) \in 1 .. BlockSize
        /\ BlockBegin(i) + BlockLength(p, i) <= ActualPieceLen(p)
    BY BlockBounds
  <1>2. /\ PieceOffset(p) \in Nat
        /\ PieceOffset(p) + ActualPieceLen(p) <= Length
        /\ ActualPieceLen(p) \in 1 .. PieceLength
    BY PieceLenBounds
  <1>3. \A o \in 0 .. BlockLength(p, i) - 1 :
          PieceOffset(p) + BlockBegin(i) + o \in 0 .. Length - 1
    BY <1>1, <1>2, LayoutAssumption
  <1> QED
    BY <1>1, <1>3 DEF Requested, RequestFor, Bytes

----------------------------------------------------------------------------
(* Type correctness *)

\* The initial states are well typed.
LEMMA TypeInit == Init => TypeOK
  <1> SUFFICES ASSUME Init PROVE TypeOK
    OBVIOUS
  <1>1. inbox \in Seq(Messages) /\ delivered \in Seq({Content(p) : p \in Pieces})
    BY DEF Init
  <1>2. conn \in {"open", "finished", "rst pending", "broken", "reset"}
    BY TransferAssumption DEF Init, AllHandovers
  <1>3. bitfield \subseteq Pieces /\ pi \in Start .. End
    BY TransferAssumption DEF Init
  <1>4. deviations \in 0 .. MaxDeviations /\ controls \in 0 .. MaxControls
    BY TransferAssumption DEF Init
  <1>5. pc \in {"begin", "fill", "recv"} \cup Terminal /\ ~Active
    BY DEF Init, Active, Terminal
  <1>6. /\ received \subseteq Nat
        /\ blocksReceived \in Nat /\ sendIdx \in Nat /\ pending \in Int
        /\ error = "none" /\ outstanding = {}
    BY DEF Init
  <1> QED
    BY ONLY <1>1, <1>2, <1>3, <1>4, <1>5, <1>6 DEF TypeOK

\* What the type invariant says of the numbers alone.
LEMMA TypeNumbers ==
  ASSUME TypeOK
  PROVE  /\ pi \in Start .. End /\ Start \in Nat /\ End \in Nat
         /\ sendIdx \in Nat /\ blocksReceived \in Nat /\ pending \in Int
         /\ received \subseteq Nat
         /\ PipelineDepth \in Nat \ {0}
         /\ deviations \in 0 .. MaxDeviations /\ MaxDeviations \in Nat
         /\ controls \in 0 .. MaxControls /\ MaxControls \in Nat
  BY TransferAssumption DEF TypeOK

\* The type invariant is preserved by the follow-up request of a message.
LEMMA TypeFollowUp ==
  ASSUME TypeOK, pc = "recv", NEW p \in Int, FollowUp(p)
  PROVE  /\ pc' \in {"recv", "failed", "killed"}
         /\ sendIdx' \in Nat /\ pending' \in Int
         /\ sendIdx' <= NumBlocks(pi)
         /\ error' \in {error, "send"}
         /\ conn' \in {"open", "finished", "rst pending", "broken", "reset"}
         /\ \A r \in outstanding' :
              \E q \in Pieces : \E i \in Blocks(q) : r = RequestFor(q, i)
  <1>1. CASE CanSend(p)
    <2>1. Send(RequestFor(pi, sendIdx), "recv") /\ sendIdx' = sendIdx + 1 /\ pending' = p + 1
      BY <1>1 DEF FollowUp
    <2>2. pi \in Pieces /\ sendIdx \in Blocks(pi) /\ sendIdx + 1 <= NumBlocks(pi)
      BY <1>1, CanSendBlock DEF Active
    <2>3. /\ pc' \in {"recv", "failed", "killed"}
          /\ outstanding' \subseteq outstanding \cup {RequestFor(pi, sendIdx)}
          /\ conn' \in {"open", "finished", "rst pending", "broken", "reset"}
          /\ error' \in {error, "send"}
      BY <2>1, SendEffect DEF TypeOK
    <2>4. sendIdx' \in Nat /\ pending' \in Int
      BY <2>1, TypeNumbers
    <2>5. \A r \in outstanding' :
            \E q \in Pieces : \E i \in Blocks(q) : r = RequestFor(q, i)
      BY <2>2, <2>3 DEF TypeOK
    <2> QED
      BY <2>1, <2>2, <2>3, <2>4, <2>5
  <1>2. CASE ~CanSend(p)
    BY <1>2 DEF FollowUp, TypeOK, Active
  <1> QED BY <1>1, <1>2

\* The steps of the client preserve the types.
LEMMA TypeClient == TypeOK /\ Client => TypeOK'
  <1> SUFFICES ASSUME TypeOK, Client PROVE TypeOK'
    OBVIOUS
  <1> USE DEF Active, Terminal
  <1>1. CASE BeginPiece
    <2>1. pi \in Pieces /\ pi < End
      BY <1>1, RangePieces DEF BeginPiece, TypeOK
    <2>2. NumBlocks(pi) \in Nat \ {0}
      BY <2>1, NumBlocksBounds
    <2>3. EmptyBuffer(pi) \in [Offsets(pi) -> Bytes]
      BY DEF EmptyBuffer, Bytes
    <2>4. /\ pc' = "fill" /\ received' = {} /\ blocksReceived' = 0
          /\ sendIdx' = 0 /\ pending' = 0 /\ pieceData' = EmptyBuffer(pi)
          /\ UNCHANGED <<error, pi, delivered, bitfield, outstanding, inbox, conn,
                          deviations, controls>>
      BY <1>1 DEF BeginPiece, worker, net, budget
    <2>5. 0 <= NumBlocks(pi)
      BY <2>2
    <2>6. /\ pi' < End /\ received' \subseteq Blocks(pi')
          /\ sendIdx' <= NumBlocks(pi')
          /\ pieceData' \in [Offsets(pi') -> Bytes]
          /\ received' \subseteq Nat /\ blocksReceived' \in Nat
          /\ sendIdx' \in Nat /\ pending' \in Int
      BY <2>1, <2>3, <2>4, <2>5
    <2> QED
      BY <2>4, <2>6 DEF TypeOK
  <1>2. CASE RejectPiece
    BY <1>2 DEF RejectPiece, Throw, TypeOK, locals, worker, net, budget
  <1>3. CASE FinishRange
    BY <1>3 DEF FinishRange, TypeOK, locals, worker, net, budget
  <1>4. CASE FillPipeline
    <2>1. pi \in Pieces /\ sendIdx \in Blocks(pi) /\ sendIdx + 1 <= NumBlocks(pi)
      BY <1>4, CanSendBlock DEF FillPipeline
    <2>2. /\ pc' \in {"fill", "failed", "killed"}
          /\ outstanding' \subseteq outstanding \cup {RequestFor(pi, sendIdx)}
          /\ conn' \in {"open", "finished", "rst pending", "broken", "reset"}
          /\ error' \in {error, "send"}
      BY <1>4, SendEffect DEF FillPipeline, TypeOK
    <2>3. \A r \in outstanding' :
            \E q \in Pieces : \E i \in Blocks(q) : r = RequestFor(q, i)
      BY <2>1, <2>2 DEF TypeOK
    <2>4. /\ sendIdx' \in Nat /\ pending' \in Int /\ sendIdx' <= NumBlocks(pi)
          /\ UNCHANGED <<received, blocksReceived, pieceData, pi, delivered, bitfield, inbox,
                          deviations, controls>>
      BY <1>4, <2>1, TypeNumbers DEF FillPipeline, worker, budget
    <2>5. pc = "fill"
      BY <1>4 DEF FillPipeline
    <2> QED
      BY <2>2, <2>3, <2>4, <2>5 DEF TypeOK
  <1>5. CASE StartReceiving
    BY <1>5 DEF StartReceiving, TypeOK, locals, worker, net, budget
  <1>6. CASE ReceivePiece
    <2>1. /\ pc = "recv" /\ inbox # << >> /\ Head(inbox).type = "piece"
          /\ inbox' = Tail(inbox)
          /\ UNCHANGED <<pi, delivered, bitfield, deviations, controls>>
      BY <1>6 DEF ReceivePiece, Receiving, worker, budget
    <2>2. /\ Head(inbox) \in Messages /\ inbox' \in Seq(Messages)
      BY <2>1, InboxHead DEF TypeOK
    <2>3. pi \in Pieces /\ pieceData \in [Offsets(pi) -> Bytes] /\ received \subseteq Blocks(pi)
      BY <2>1, RangePieces DEF TypeOK
    <2>4. /\ received' \subseteq Nat /\ received' \subseteq Blocks(pi)
          /\ blocksReceived' \in Nat
          /\ pieceData' \in [Offsets(pi) -> Bytes]
          /\ \E p \in Int : FollowUp(p)
      <3>1. CASE Matching(Head(inbox)) # {}
        <4>1. /\ received' = received \cup Matching(Head(inbox))
              /\ blocksReceived' = blocksReceived + 1
              /\ pieceData' = CopyBlock(pieceData, Head(inbox))
              /\ FollowUp(pending - 1)
          BY <1>6, <3>1 DEF ReceivePiece
        <4>2. Matching(Head(inbox)) \subseteq Blocks(pi) /\ Blocks(pi) \subseteq Nat
          BY <2>3, BlockBounds DEF Matching
        <4>3. CopyBlock(pieceData, Head(inbox)) \in [Offsets(pi) -> Bytes]
          BY <2>1, <2>2, <2>3, CopyBlockType
        <4>4. blocksReceived' \in Nat /\ pending - 1 \in Int /\ received \subseteq Nat
          BY <4>1, TypeNumbers
        <4> QED
          BY <2>3, <4>1, <4>2, <4>3, <4>4
      <3>2. CASE Matching(Head(inbox)) = {}
        <4>1. /\ UNCHANGED <<received, blocksReceived, pieceData>>
              /\ FollowUp(pending)
          BY <1>6, <3>2 DEF ReceivePiece
        <4> QED
          BY <2>3, <4>1 DEF TypeOK
      <3> QED BY <3>1, <3>2
    <2>5. PICK p \in Int : FollowUp(p)
      BY <2>4
    <2> QED
      BY <2>1, <2>2, <2>4, <2>5, TypeFollowUp DEF TypeOK
  <1>7. CASE CrashOnOverrun
    <2>1. inbox' \in Seq(Messages)
      BY <1>7, InboxHead DEF CrashOnOverrun, TypeOK
    <2> QED
      BY <1>7, <2>1 DEF CrashOnOverrun, TypeOK, locals, worker, budget
  <1>8. CASE SkipMessage
    <2>1. inbox' \in Seq(Messages)
      BY <1>8, InboxHead DEF SkipMessage, TypeOK
    <2> QED
      BY <1>8, <2>1 DEF SkipMessage, TypeOK, locals, worker, budget
  <1>9. CASE RejectMessage
    <2>1. inbox' \in Seq(Messages)
      BY <1>9, InboxHead DEF RejectMessage, TypeOK
    <2> QED
      BY <1>9, <2>1 DEF RejectMessage, Throw, TypeOK, locals, worker, budget
  <1>10. CASE ReceiveFails
    BY <1>10 DEF ReceiveFails, Throw, TypeOK, locals, worker, net, budget
  <1>11. CASE VerifyPiece
    <2>1. pi \in Pieces /\ pi + 1 \in Start .. End
      BY <1>11, RangePieces DEF VerifyPiece, Complete, TypeOK
    <2>2. delivered' \in Seq({Content(p) : p \in Pieces})
      <3>1. pieceData \in {Content(p) : p \in Pieces}
        BY <1>11, <2>1 DEF VerifyPiece, HashMatches
      <3> HIDE DEF Content, Pieces
      <3> QED
        BY <1>11, <3>1, AppendProperties DEF VerifyPiece, TypeOK
    <2>3. /\ pc' = "begin" /\ pi' = pi + 1 /\ received' = {} /\ blocksReceived' = 0
          /\ sendIdx' = 0 /\ pending' = 0
          /\ UNCHANGED <<error, bitfield, outstanding, inbox, conn, deviations, controls>>
      BY <1>11 DEF VerifyPiece, net, budget
    <2>4. /\ received' \subseteq Nat /\ blocksReceived' \in Nat
          /\ sendIdx' \in Nat /\ pending' \in Int /\ pi' \in Start .. End
      BY <2>1, <2>3
    <2> QED
      BY <2>2, <2>3, <2>4 DEF TypeOK
  <1>12. CASE HashMismatch
    BY <1>12 DEF HashMismatch, Throw, TypeOK, locals, worker, net, budget
  <1> QED
    BY <1>1, <1>2, <1>3, <1>4, <1>5, <1>6, <1>7, <1>8, <1>9, <1>10, <1>11, <1>12
       DEF Client

\* A message that is delivered goes to the end of the queue.
LEMMA DeliverEffect ==
  ASSUME inbox \in Seq(Messages), NEW m \in Messages, Deliver(m)
  PROVE  /\ inbox' \in Seq(Messages)
         /\ Len(inbox) \in Nat
         /\ Len(inbox') = Len(inbox) + 1
         /\ DOMAIN inbox = 1 .. Len(inbox) /\ DOMAIN inbox' = 1 .. Len(inbox) + 1
         /\ \A k \in 1 .. Len(inbox) : inbox'[k] = inbox[k]
         /\ inbox'[Len(inbox) + 1] = m
  <1>1. inbox' = Append(inbox, m)
    BY DEF Deliver
  <1> QED
    BY <1>1, AppendProperties, LenProperties

\* The steps of the peer and the network preserve the types.
LEMMA TypePeer == TypeOK /\ Peer => TypeOK'
  <1> SUFFICES ASSUME TypeOK, Peer PROVE TypeOK'
    OBVIOUS
  <1> USE DEF Active
  <1>1. CASE PeerAnswer
    <2>1. PICK r \in outstanding :
            outstanding' = outstanding \ {r} /\ Deliver(PieceMsg(r, Requested(r)))
      BY <1>1 DEF PeerAnswer
    <2>2. PieceMsg(r, Requested(r)) \in Messages
      <3>1. PICK p \in Pieces : \E i \in Blocks(p) : r = RequestFor(p, i)
        BY <2>1 DEF TypeOK
      <3>2. PICK i \in Blocks(p) : r = RequestFor(p, i)
        BY <3>1
      <3>3. BlockLength(p, i) \in 0 .. BlockLength(p, i)
        BY RequestedBytes
      <3> QED
        BY <3>2, <3>3, RequestedIsMessage, RequestedBytes
    <2>3. inbox' \in Seq(Messages)
      BY <2>1, <2>2, DeliverEffect DEF TypeOK
    <2> QED
      BY <1>1, <2>1, <2>3 DEF PeerAnswer, TypeOK, locals, worker, budget
  <1>2. CASE PeerCorrupt
    <2>1. PICK r \in outstanding :
            /\ outstanding' = outstanding \ {r}
            /\ Deliver(PieceMsg(r, [o \in 0 .. r.length - 1 |-> Junk]))
      BY <1>2 DEF PeerCorrupt
    <2>2. PieceMsg(r, [o \in 0 .. r.length - 1 |-> Junk]) \in Messages
      <3>1. PICK p \in Pieces : \E i \in Blocks(p) : r = RequestFor(p, i)
        BY <2>1 DEF TypeOK
      <3>2. PICK i \in Blocks(p) : r = RequestFor(p, i)
        BY <3>1
      <3>3. BlockLength(p, i) \in 0 .. BlockLength(p, i) /\ r.length = BlockLength(p, i)
        BY <3>2, RequestedBytes
      <3>4. [o \in 0 .. r.length - 1 |-> Junk] \in [0 .. BlockLength(p, i) - 1 -> Bytes]
        BY <3>3 DEF Bytes
      <3> QED
        BY <3>2, <3>3, <3>4, RequestedIsMessage
    <2>3. inbox' \in Seq(Messages)
      BY <2>1, <2>2, DeliverEffect DEF TypeOK
    <2>4. deviations' \in 0 .. MaxDeviations
      BY <1>2, TypeNumbers DEF PeerCorrupt, Deviate
    <2> QED
      BY <1>2, <2>1, <2>3, <2>4 DEF PeerCorrupt, TypeOK, locals, worker
  <1>3. CASE PeerShort
    <2>1. PICK r \in outstanding : \E n \in 0 .. r.length - 1 :
            /\ outstanding' = outstanding \ {r}
            /\ Deliver(PieceMsg(r, [o \in 0 .. n - 1 |-> Requested(r)[o]]))
      BY <1>3 DEF PeerShort
    <2>2. PICK n \in 0 .. r.length - 1 :
            Deliver(PieceMsg(r, [o \in 0 .. n - 1 |-> Requested(r)[o]]))
      BY <2>1
    <2>3. PieceMsg(r, [o \in 0 .. n - 1 |-> Requested(r)[o]]) \in Messages
      <3>1. PICK p \in Pieces : \E i \in Blocks(p) : r = RequestFor(p, i)
        BY <2>1 DEF TypeOK
      <3>2. PICK i \in Blocks(p) : r = RequestFor(p, i)
        BY <3>1
      <3>3. /\ r.length = BlockLength(p, i) /\ BlockLength(p, i) \in 1 .. BlockSize
            /\ Requested(r) \in [0 .. BlockLength(p, i) - 1 -> Bytes]
        BY <3>2, RequestedBytes
      <3>4. n \in 0 .. BlockLength(p, i)
        BY <2>2, <3>3
      <3>5. [o \in 0 .. n - 1 |-> Requested(r)[o]] \in [0 .. n - 1 -> Bytes]
        BY <2>2, <3>3
      <3> QED
        BY <3>2, <3>4, <3>5, RequestedIsMessage
    <2>4. inbox' \in Seq(Messages)
      BY <2>2, <2>3, DeliverEffect DEF TypeOK
    <2>5. deviations' \in 0 .. MaxDeviations
      BY <1>3, TypeNumbers DEF PeerShort, Deviate
    <2> QED
      BY <1>3, <2>1, <2>4, <2>5 DEF PeerShort, TypeOK, locals, worker
  <1>4. CASE PeerUnsolicited
    <2>1. PICK p \in bitfield : \E i \in Blocks(p) :
            Deliver(PieceMsg(RequestFor(p, i), Requested(RequestFor(p, i))))
      BY <1>4 DEF PeerUnsolicited
    <2>2. PICK i \in Blocks(p) :
            Deliver(PieceMsg(RequestFor(p, i), Requested(RequestFor(p, i))))
      BY <2>1
    <2>3. PieceMsg(RequestFor(p, i), Requested(RequestFor(p, i))) \in Messages
      <3>1. p \in Pieces
        BY DEF TypeOK
      <3>2. BlockLength(p, i) \in 0 .. BlockLength(p, i)
        BY <3>1, RequestedBytes
      <3> QED
        BY <3>1, <3>2, RequestedIsMessage, RequestedBytes
    <2>4. inbox' \in Seq(Messages)
      BY <2>2, <2>3, DeliverEffect DEF TypeOK
    <2>5. deviations' \in 0 .. MaxDeviations
      BY <1>4, TypeNumbers DEF PeerUnsolicited, Deviate
    <2> QED
      BY <1>4, <2>4, <2>5 DEF PeerUnsolicited, TypeOK, locals, worker
  <1>5. CASE PeerControl
    <2>1. PICK k \in ControlKinds : Deliver([type |-> k])
      BY <1>5 DEF PeerControl
    <2>2. [type |-> k] \in Messages
      BY TransferAssumption DEF Messages
    <2>3. inbox' \in Seq(Messages)
      BY <2>1, <2>2, DeliverEffect DEF TypeOK
    <2>4. controls' \in 0 .. MaxControls
      BY <1>5, TypeNumbers DEF PeerControl
    <2> QED
      BY <1>5, <2>3, <2>4 DEF PeerControl, TypeOK, locals, worker
  <1>6. CASE PeerClose
    BY <1>6 DEF PeerClose, TypeOK, locals, worker, budget
  <1>7. CASE PeerReset
    <2>1. PICK n \in 0 .. Len(inbox) : inbox' = SubSeq(inbox, 1, n)
      BY <1>7 DEF PeerReset
    <2>2. inbox' \in Seq(Messages)
      <3>1. \A k \in 1 .. n : inbox[k] \in Messages
        <4>1. inbox \in Seq(Messages) /\ Len(inbox) \in Nat
          BY LenProperties DEF TypeOK
        <4>2. \A k \in 1 .. n : k \in 1 .. Len(inbox)
          BY <4>1
        <4> QED BY <4>1, <4>2, ElementOfSeq
      <3> QED
        BY <2>1, <3>1, SubSeqProperties
    <2> QED
      BY <1>7, <2>2 DEF PeerReset, TypeOK, locals, worker, budget
  <1>8. CASE RstArrives
    BY <1>8 DEF RstArrives, TypeOK, locals, worker, budget
  <1>9. CASE PeerOversize
    <2>1. PICK r \in outstanding : \E n \in r.length + 1 .. MaxBlock :
            /\ outstanding' = outstanding \ {r}
            /\ Deliver(PieceMsg(r, [o \in 0 .. n - 1 |->
                                     IF o < r.length THEN Requested(r)[o] ELSE Junk]))
      BY <1>9 DEF PeerOversize
    <2>2. PICK n \in r.length + 1 .. MaxBlock :
            Deliver(PieceMsg(r, [o \in 0 .. n - 1 |->
                                 IF o < r.length THEN Requested(r)[o] ELSE Junk]))
      BY <2>1
    <2> DEFINE bytes == [o \in 0 .. n - 1 |->
                         IF o < r.length THEN Requested(r)[o] ELSE Junk]
    <2>3. PieceMsg(r, bytes) \in Messages
      <3>1. PICK p \in Pieces : \E i \in Blocks(p) : r = RequestFor(p, i)
        BY <2>1 DEF TypeOK
      <3>2. PICK i \in Blocks(p) : r = RequestFor(p, i)
        BY <3>1
      <3>3. /\ r.length = BlockLength(p, i) /\ BlockLength(p, i) \in 1 .. BlockSize
            /\ Requested(r) \in [0 .. BlockLength(p, i) - 1 -> Bytes]
        BY <3>2, RequestedBytes
      <3>4. n \in 0 .. MaxBlock /\ BlockLength(p, i) \in Nat
        BY <2>2, <3>3, LayoutAssumption, TransferAssumption
      <3>5. Junk \in Bytes
        BY DEF Bytes
      <3>6. \A o \in 0 .. n - 1 :
              (IF o < r.length THEN Requested(r)[o] ELSE Junk) \in Bytes
        BY <3>3, <3>4, <3>5
      <3>7. bytes \in [0 .. n - 1 -> Bytes]
        BY <3>6
      <3> QED
        BY <3>2, <3>4, <3>7, AnswerIsMessage
    <2>4. inbox' \in Seq(Messages)
      BY <2>2, <2>3, DeliverEffect DEF TypeOK
    <2>5. deviations' \in 0 .. MaxDeviations
      BY <1>9, TypeNumbers DEF PeerOversize, Deviate
    <2> QED
      BY <1>9, <2>1, <2>4, <2>5 DEF PeerOversize, TypeOK, locals, worker
  <1> QED
    BY <1>1, <1>2, <1>3, <1>4, <1>5, <1>6, <1>7, <1>8, <1>9 DEF Peer

\* Every reachable state keeps every variable to its set (TypeOK).
THEOREM TypeCorrect == Spec => []TypeOK
  <1>1. Init => TypeOK
    BY TypeInit
  <1>2. TypeOK /\ [Next]_vars => TypeOK'
    <2> SUFFICES ASSUME TypeOK, [Next]_vars PROVE TypeOK'
      OBVIOUS
    <2>1. CASE Client
      BY <2>1, TypeClient
    <2>2. CASE Peer
      BY <2>2, TypePeer
    <2>3. CASE UNCHANGED vars
      BY <2>3 DEF TypeOK, Active, vars, locals, worker, net, budget
    <2> QED
      BY <2>1, <2>2, <2>3 DEF Next, Stopped
  <1> QED
    BY <1>1, <1>2, PTL DEF Spec

----------------------------------------------------------------------------
(* The window *)

\* The search of the receive loop finds at most one block, as the begin of a
\* block names it, and one that is still missing.
LEMMA MatchingSingle ==
  ASSUME TypeOK, Active, NEW m, Matching(m) # {}
  PROVE  \E i \in Blocks(pi) :
           i \notin received /\ BlockBegin(i) = m.begin /\ Matching(m) = {i}
  <1>1. pi \in Pieces
    BY RangePieces DEF TypeOK
  <1>2. PICK i \in Blocks(pi) : i \notin received /\ BlockBegin(i) = m.begin
    BY DEF Matching
  <1>3. ASSUME NEW j \in Blocks(pi), BlockBegin(j) = m.begin
        PROVE  j = i
    <2>1. i \in Nat /\ j \in Nat
      BY <1>1, <1>2, <1>3, BlockBounds
    <2> QED
      BY <2>1, <1>2, <1>3, BlockBeginInjective
  <1>4. Matching(m) = {i}
    BY <1>2, <1>3 DEF Matching
  <1> QED BY <1>2, <1>4

\* The blocks of a piece are finitely many, and so are the received ones.
LEMMA ReceivedFinite ==
  ASSUME TypeOK, Active
  PROVE  /\ IsFiniteSet(received) /\ Cardinality(received) \in Nat
         /\ IsFiniteSet(Blocks(pi)) /\ Cardinality(Blocks(pi)) = NumBlocks(pi)
         /\ NumBlocks(pi) \in Nat \ {0}
         /\ Cardinality(received) <= NumBlocks(pi)
  <1>1. pi \in Pieces /\ received \subseteq Blocks(pi)
    BY RangePieces DEF TypeOK
  <1>2. NumBlocks(pi) \in Nat \ {0}
    BY <1>1, NumBlocksBounds
  <1>3. IsFiniteSet(Blocks(pi)) /\ Cardinality(Blocks(pi)) = NumBlocks(pi)
    BY <1>2, FS_Interval DEF Blocks
  <1> QED
    BY <1>1, <1>2, <1>3, FS_Subset, FS_CardinalityType

\* The bookkeeping of the two loops, and why it is inductive: the counters
\* alone would allow a window that shrinks below zero, which the invariant
\* that the window stays full excludes.
WindowInv == TypeOK /\ WindowAccounting /\ WindowFull

\* One message handled: p is what pending has become, c the number of blocks
\* received.
LEMMA WindowFollowUp ==
  ASSUME WindowInv, Receiving,
         \/ Matching(Head(inbox)) # {} /\ FollowUp(pending - 1)
         \/ Matching(Head(inbox)) = {} /\ FollowUp(pending)
  PROVE  /\ pending' = sendIdx' - blocksReceived - (IF Matching(Head(inbox)) = {} THEN 0 ELSE 1)
         /\ 0 <= pending' /\ pending' <= PipelineDepth
         /\ pending' = PipelineDepth \/ sendIdx' = NumBlocks(pi)
  <1>1. /\ pc = "recv" /\ blocksReceived < NumBlocks(pi)
        /\ pending = sendIdx - blocksReceived
        /\ 0 <= pending /\ pending <= PipelineDepth
        /\ pending = PipelineDepth \/ sendIdx = NumBlocks(pi)
    BY DEF WindowInv, WindowAccounting, WindowFull, Receiving, Active
  <1>2. /\ sendIdx \in Nat /\ blocksReceived \in Nat /\ pending \in Int
        /\ PipelineDepth \in Nat \ {0}
    BY TypeNumbers DEF WindowInv
  <1>3. sendIdx <= NumBlocks(pi) /\ NumBlocks(pi) \in Nat
    BY <1>1, ReceivedFinite DEF WindowInv, TypeOK, Active
  <1>4. pending >= 1
    BY <1>1, <1>2, <1>3
  <1>5. \A p \in Int : FollowUp(p) =>
          \/ CanSend(p) /\ sendIdx' = sendIdx + 1 /\ pending' = p + 1
          \/ ~CanSend(p) /\ sendIdx' = sendIdx /\ pending' = p
    BY DEF FollowUp
  <1>6. CASE Matching(Head(inbox)) # {} /\ FollowUp(pending - 1)
    <2>1. pending - 1 \in Int
      BY <1>2
    <2>2. CASE CanSend(pending - 1) /\ sendIdx' = sendIdx + 1 /\ pending' = pending - 1 + 1
      BY <2>2, <1>1, <1>2, <1>3, <1>4, <1>6 DEF CanSend
    <2>3. CASE ~CanSend(pending - 1) /\ sendIdx' = sendIdx /\ pending' = pending - 1
      BY <2>3, <1>1, <1>2, <1>3, <1>4, <1>6 DEF CanSend
    <2> QED
      BY <1>5, <1>6, <2>1, <2>2, <2>3
  <1>7. CASE Matching(Head(inbox)) = {} /\ FollowUp(pending)
    <2>1. ~CanSend(pending)
      BY <1>1, <1>2, <1>3 DEF CanSend
    <2> QED
      BY <1>1, <1>2, <1>3, <1>5, <1>7, <2>1
  <1> QED BY <1>6, <1>7

\* The steps of the client preserve the window invariant: pending is sent minus received.
LEMMA WindowClient == WindowInv /\ TypeOK' /\ Client => WindowInv'
  <1> SUFFICES ASSUME WindowInv, TypeOK', Client
               PROVE  WindowAccounting' /\ WindowFull'
    BY DEF WindowInv
  <1> USE DEF Active
  <1>0. /\ TypeOK
        /\ sendIdx \in Nat /\ blocksReceived \in Nat /\ pending \in Int
        /\ PipelineDepth \in Nat \ {0}
    BY TypeNumbers DEF WindowInv
  <1>1. CASE BeginPiece
    BY <1>0, <1>1, FS_EmptySet DEF BeginPiece, WindowAccounting, WindowFull
  <1>2. CASE RejectPiece \/ FinishRange \/ RejectMessage \/ ReceiveFails
             \/ CrashOnOverrun \/ HashMismatch \/ VerifyPiece
    BY <1>2 DEF RejectPiece, FinishRange, RejectMessage, ReceiveFails,
                CrashOnOverrun, HashMismatch, VerifyPiece, Throw,
                WindowAccounting, WindowFull
  <1>3. CASE FillPipeline
    <2>1. /\ pc = "fill" /\ pending < PipelineDepth
          /\ sendIdx' = sendIdx + 1 /\ pending' = pending + 1
          /\ UNCHANGED <<received, blocksReceived>>
          /\ pc' # "recv"
      BY <1>3 DEF FillPipeline, CanSend, Send, Throw
    <2> QED
      BY <1>0, <2>1 DEF WindowInv, WindowAccounting, WindowFull
  <1>4. CASE StartReceiving
    <2>1. /\ pc = "fill" /\ ~(pending < PipelineDepth /\ sendIdx < NumBlocks(pi))
          /\ UNCHANGED <<pi, received, blocksReceived, sendIdx, pending>>
      BY <1>4 DEF StartReceiving, CanSend, locals, worker
    <2>2. sendIdx <= NumBlocks(pi) /\ NumBlocks(pi) \in Nat
      BY <1>0, <2>1, ReceivedFinite DEF TypeOK
    <2>3. WindowAccounting
      BY DEF WindowInv
    <2>4. pending = PipelineDepth \/ sendIdx = NumBlocks(pi)
      BY <1>0, <2>1, <2>2, <2>3 DEF WindowAccounting
    <2> QED
      BY <2>1, <2>3, <2>4 DEF WindowAccounting, WindowFull
  <1>5. CASE ReceivePiece
    <2>1. /\ Receiving /\ pc = "recv"
          /\ pi' = pi
          /\ \/ /\ Matching(Head(inbox)) # {}
                /\ received' = received \cup Matching(Head(inbox))
                /\ blocksReceived' = blocksReceived + 1
                /\ FollowUp(pending - 1)
             \/ /\ Matching(Head(inbox)) = {}
                /\ FollowUp(pending)
                /\ UNCHANGED <<received, blocksReceived>>
      BY <1>5 DEF ReceivePiece, Receiving, worker
    <2>2. /\ pending' = sendIdx' - blocksReceived - (IF Matching(Head(inbox)) = {} THEN 0 ELSE 1)
          /\ 0 <= pending' /\ pending' <= PipelineDepth
          /\ pending' = PipelineDepth \/ sendIdx' = NumBlocks(pi)
      BY <2>1, WindowFollowUp
    <2>3. sendIdx' \in Nat
      BY DEF TypeOK
    <2>4. pending' = sendIdx' - blocksReceived'
      BY <1>0, <2>1, <2>2, <2>3
    <2>5. blocksReceived' = Cardinality(received')
      <3>1. blocksReceived = Cardinality(received)
        BY <2>1 DEF WindowInv, WindowAccounting
      <3>2. IsFiniteSet(received)
        BY <1>0, <2>1, ReceivedFinite
      <3>3. CASE Matching(Head(inbox)) # {}
        <4>1. PICK i \in Blocks(pi) : i \notin received /\ Matching(Head(inbox)) = {i}
          BY <1>0, <2>1, <3>3, MatchingSingle
        <4>2. received' = received \cup {i}
          BY <2>1, <3>3, <4>1
        <4> QED
          BY <2>1, <3>1, <3>2, <3>3, <4>1, <4>2, FS_AddElement
      <3>4. CASE Matching(Head(inbox)) = {}
        BY <2>1, <3>1, <3>4
      <3> QED BY <3>3, <3>4
    <2> QED
      BY <2>1, <2>2, <2>4, <2>5 DEF WindowAccounting, WindowFull
  <1>6. CASE SkipMessage
    BY <1>6 DEF SkipMessage, WindowInv, WindowAccounting, WindowFull, locals, worker
  <1> QED
    BY <1>1, <1>2, <1>3, <1>4, <1>5, <1>6 DEF Client

\* The peer and the network leave the client's thread alone.
LEMMA PeerLeavesClient ==
  Peer => UNCHANGED <<pc, error, received, blocksReceived, sendIdx, pending,
                      pieceData, pi, delivered, bitfield>> /\ pc \notin Terminal
  BY DEF Peer, PeerAnswer, PeerCorrupt, PeerShort, PeerOversize, PeerUnsolicited, PeerControl,
         PeerClose, PeerReset, RstArrives, locals, worker

\* The window invariant holds throughout.
LEMMA WindowInvariant == Spec => []WindowInv
  <1>1. Init => WindowInv
    BY TypeInit DEF Init, WindowInv, WindowAccounting, WindowFull, Active
  <1>2. WindowInv /\ TypeOK' /\ [Next]_vars => WindowInv'
    <2> SUFFICES ASSUME WindowInv, TypeOK', [Next]_vars PROVE WindowInv'
      OBVIOUS
    <2>1. CASE Client
      BY <2>1, WindowClient
    <2>2. CASE Peer
      BY <2>2, PeerLeavesClient DEF WindowInv, WindowAccounting, WindowFull, Active
    <2>3. CASE UNCHANGED vars
      BY <2>3 DEF WindowInv, WindowAccounting, WindowFull, Active, vars, locals, worker
    <2> QED
      BY <2>1, <2>2, <2>3 DEF Next, Stopped
  <1> QED
    BY <1>1, <1>2, TypeCorrect, PTL DEF Spec

\* The counters of the loop agree with the flags and the window stays within
\* its depth, whatever the peer sends (WindowAccounting).
THEOREM WindowCorrect == Spec => []WindowAccounting
  <1>1. WindowInv => WindowAccounting
    BY DEF WindowInv
  <1> QED
    BY <1>1, WindowInvariant, PTL

----------------------------------------------------------------------------
(* The client and the peer never wait for each other *)

\* A block that is still expected when a message is taken from the queue is
\* expected afterwards, or was in that message and is now received.
LEMMA InPlayAfterReceive ==
  ASSUME TypeOK, Active, NEW i \in 0 .. sendIdx - 1,
         inbox # << >>, inbox' = Tail(inbox), pi' = pi,
         received \subseteq received', outstanding \subseteq outstanding',
         Head(inbox).type = "piece" => Matching(Head(inbox)) \subseteq received',
         \/ i \in received
         \/ RequestFor(pi, i) \in outstanding
         \/ \E k \in DOMAIN inbox :
              inbox[k].type = "piece" /\ inbox[k].begin = BlockBegin(i)
  PROVE  \/ i \in received'
         \/ RequestFor(pi', i) \in outstanding'
         \/ \E k \in DOMAIN inbox' :
              inbox'[k].type = "piece" /\ inbox'[k].begin = BlockBegin(i)
  <1>1. CASE i \in received \/ RequestFor(pi, i) \in outstanding
    BY <1>1
  <1>2. CASE \E k \in DOMAIN inbox :
               inbox[k].type = "piece" /\ inbox[k].begin = BlockBegin(i)
    <2>1. PICK k \in DOMAIN inbox :
            inbox[k].type = "piece" /\ inbox[k].begin = BlockBegin(i)
      BY <1>2
    <2>2. inbox \in Seq(Messages) /\ DOMAIN inbox = 1 .. Len(inbox)
      BY LenProperties DEF TypeOK
    <2>3. /\ inbox' \in Seq(Messages)
          /\ Len(inbox') = Len(inbox) - 1
          /\ \A j \in 1 .. Len(inbox) - 1 : inbox'[j] = inbox[j + 1]
          /\ Head(inbox) = inbox[1]
          /\ Len(inbox) \in Nat \ {0}
      BY <2>2, InboxHead
    <2>4. CASE k = 1
      <3>1. i \in Blocks(pi)
        <4>1. pi \in Pieces /\ sendIdx <= NumBlocks(pi) /\ sendIdx \in Nat
          BY RangePieces DEF TypeOK
        <4>2. NumBlocks(pi) \in Nat
          BY <4>1, NumBlocksBounds
        <4> QED BY <4>1, <4>2 DEF Blocks
      <3>2. i \in received \/ i \in Matching(Head(inbox))
        BY <2>1, <2>3, <2>4, <3>1 DEF Matching
      <3> QED
        BY <2>1, <2>3, <2>4, <3>2
    <2>5. CASE k # 1
      <3>1. k - 1 \in 1 .. Len(inbox) - 1 /\ inbox'[k - 1] = inbox[k]
        BY <2>1, <2>2, <2>3, <2>5
      <3>2. k - 1 \in DOMAIN inbox'
        BY <2>3, <3>1, LenProperties
      <3> QED
        BY <2>1, <3>1, <3>2
    <2> QED BY <2>4, <2>5
  <1> QED BY <1>1, <1>2

\* The steps of the client lose no request.
LEMMA InPlayClient ==
  WindowInv /\ RequestsInPlay /\ Client => RequestsInPlay'
  <1> SUFFICES ASSUME WindowInv, RequestsInPlay, Client, Active', conn' = "open",
                      NEW i \in 0 .. sendIdx' - 1
               PROVE  \/ i \in received'
                      \/ RequestFor(pi', i) \in outstanding'
                      \/ \E k \in DOMAIN inbox' :
                           inbox'[k].type = "piece" /\ inbox'[k].begin = BlockBegin(i)
    BY DEF RequestsInPlay
  <1>0. TypeOK /\ sendIdx \in Nat
    BY TypeNumbers DEF WindowInv
  <1>1. CASE BeginPiece
    <2>1. sendIdx' = 0
      BY <1>1 DEF BeginPiece
    <2> QED BY <2>1
  <1>2. CASE RejectPiece \/ FinishRange \/ RejectMessage \/ ReceiveFails
             \/ CrashOnOverrun \/ HashMismatch \/ VerifyPiece
    BY <1>2 DEF RejectPiece, FinishRange, RejectMessage, ReceiveFails,
                CrashOnOverrun, HashMismatch, VerifyPiece, Throw, Active
  <1>3. CASE FillPipeline
    <2>1. /\ Active /\ sendIdx' = sendIdx + 1
          /\ Send(RequestFor(pi, sendIdx), "fill")
          /\ UNCHANGED <<pi, received, inbox>>
      BY <1>3 DEF FillPipeline, Active, worker
    <2>2. /\ conn = "open"
          /\ outstanding' = outstanding \cup {RequestFor(pi, sendIdx)}
      BY <1>0, <2>1, SendEffect
    <2>3. CASE i = sendIdx
      BY <2>1, <2>2, <2>3
    <2>4. CASE i # sendIdx
      <3>1. i \in 0 .. sendIdx - 1
        BY <1>0, <2>1, <2>4
      <3> QED
        BY <2>1, <2>2, <3>1 DEF RequestsInPlay
    <2> QED BY <2>3, <2>4
  <1>4. CASE StartReceiving
    <2>1. Active /\ conn = "open"
      BY <1>4 DEF StartReceiving, Active, net
    <2>2. UNCHANGED <<pi, received, sendIdx, outstanding, inbox>>
      BY <1>4 DEF StartReceiving, locals, worker, net
    <2> QED
      BY <2>1, <2>2 DEF RequestsInPlay
  <1>5. CASE ReceivePiece
    <2>1. /\ pc = "recv" /\ Active /\ inbox # << >> /\ inbox' = Tail(inbox) /\ pi' = pi
          /\ Matching(Head(inbox)) \subseteq received'
          /\ received \subseteq received'
          /\ \E p \in {pending, pending - 1} : FollowUp(p)
      BY <1>5 DEF ReceivePiece, Receiving, Active, worker
    <2>2. PICK p \in {pending, pending - 1} : FollowUp(p)
      BY <2>1
    <2>3. /\ conn = "open"
          /\ outstanding \subseteq outstanding'
          /\ \/ sendIdx' = sendIdx
             \/ sendIdx' = sendIdx + 1 /\ RequestFor(pi, sendIdx) \in outstanding'
      <3>1. CASE CanSend(p)
        <4>1. Send(RequestFor(pi, sendIdx), "recv") /\ sendIdx' = sendIdx + 1
          BY <2>2, <3>1 DEF FollowUp
        <4> QED
          BY <1>0, <4>1, SendEffect
      <3>2. CASE ~CanSend(p)
        BY <2>2, <3>2 DEF FollowUp
      <3> QED BY <3>1, <3>2
    <2>4. CASE i \in 0 .. sendIdx - 1
      <3>1. \/ i \in received
            \/ RequestFor(pi, i) \in outstanding
            \/ \E k \in DOMAIN inbox :
                 inbox[k].type = "piece" /\ inbox[k].begin = BlockBegin(i)
        BY <2>1, <2>3, <2>4 DEF RequestsInPlay
      <3> QED
        BY <1>0, <2>1, <2>3, <2>4, <3>1, InPlayAfterReceive
    <2>5. CASE i \notin 0 .. sendIdx - 1
      <3>1. sendIdx' = sendIdx + 1 /\ i = sendIdx
        BY <1>0, <2>3, <2>5
      <3> QED
        BY <1>0, <2>1, <2>3, <3>1
    <2> QED BY <2>4, <2>5
  <1>6. CASE SkipMessage
    <2>1. /\ Active /\ conn = "open" /\ inbox # << >> /\ inbox' = Tail(inbox)
          /\ Head(inbox).type # "piece"
          /\ UNCHANGED <<pi, received, sendIdx, outstanding>>
      BY <1>6 DEF SkipMessage, Receiving, Active, SkippedKinds, locals, worker
    <2>2. \/ i \in received
          \/ RequestFor(pi, i) \in outstanding
          \/ \E k \in DOMAIN inbox :
               inbox[k].type = "piece" /\ inbox[k].begin = BlockBegin(i)
      BY <2>1 DEF RequestsInPlay
    <2> QED
      BY <1>0, <2>1, <2>2, InPlayAfterReceive
  <1> QED
    BY <1>1, <1>2, <1>3, <1>4, <1>5, <1>6 DEF Client

\* An answer, right, wrong or short, carries the begin of its request.
LEMMA InPlayAnswer ==
  ASSUME TypeOK, NEW r \in outstanding, NEW bytes,
         outstanding' = outstanding \ {r},
         Deliver(PieceMsg(r, bytes)), PieceMsg(r, bytes) \in Messages,
         NEW i,
         \/ i \in received
         \/ RequestFor(pi, i) \in outstanding
         \/ \E k \in DOMAIN inbox :
              inbox[k].type = "piece" /\ inbox[k].begin = BlockBegin(i)
  PROVE  \/ i \in received
         \/ RequestFor(pi, i) \in outstanding'
         \/ \E k \in DOMAIN inbox' :
              inbox'[k].type = "piece" /\ inbox'[k].begin = BlockBegin(i)
  <1>1. /\ Len(inbox) \in Nat
        /\ DOMAIN inbox = 1 .. Len(inbox) /\ DOMAIN inbox' = 1 .. Len(inbox) + 1
        /\ \A k \in 1 .. Len(inbox) : inbox'[k] = inbox[k]
        /\ inbox'[Len(inbox) + 1] = PieceMsg(r, bytes)
    BY DeliverEffect DEF TypeOK
  <1>2. CASE i \in received \/ RequestFor(pi, i) \in outstanding \ {r}
    BY <1>2
  <1>3. CASE \E k \in DOMAIN inbox :
               inbox[k].type = "piece" /\ inbox[k].begin = BlockBegin(i)
    BY <1>1, <1>3
  <1>4. CASE RequestFor(pi, i) = r
    <2>1. PieceMsg(r, bytes).type = "piece" /\ PieceMsg(r, bytes).begin = BlockBegin(i)
      BY <1>4 DEF PieceMsg, RequestFor
    <2>2. Len(inbox) + 1 \in DOMAIN inbox'
      BY <1>1
    <2> QED
      BY <1>1, <2>1, <2>2
  <1> QED BY <1>2, <1>3, <1>4

\* The same for any other message: the queue only grows.
LEMMA InPlayDeliver ==
  ASSUME TypeOK, NEW m \in Messages, Deliver(m), UNCHANGED outstanding,
         NEW i,
         \/ i \in received
         \/ RequestFor(pi, i) \in outstanding
         \/ \E k \in DOMAIN inbox :
              inbox[k].type = "piece" /\ inbox[k].begin = BlockBegin(i)
  PROVE  \/ i \in received
         \/ RequestFor(pi, i) \in outstanding'
         \/ \E k \in DOMAIN inbox' :
              inbox'[k].type = "piece" /\ inbox'[k].begin = BlockBegin(i)
  <1>1. /\ Len(inbox) \in Nat
        /\ DOMAIN inbox = 1 .. Len(inbox) /\ DOMAIN inbox' = 1 .. Len(inbox) + 1
        /\ \A k \in 1 .. Len(inbox) : inbox'[k] = inbox[k]
    BY DeliverEffect DEF TypeOK
  <1> QED BY <1>1

\* The steps of the peer lose no request: an answer takes the place of one.
LEMMA InPlayPeer ==
  TypeOK /\ TypeOK' /\ RequestsInPlay /\ Peer => RequestsInPlay'
  <1> SUFFICES ASSUME TypeOK, TypeOK', RequestsInPlay, Peer, Active', conn' = "open",
                      NEW i \in 0 .. sendIdx' - 1
               PROVE  \/ i \in received'
                      \/ RequestFor(pi', i) \in outstanding'
                      \/ \E k \in DOMAIN inbox' :
                           inbox'[k].type = "piece" /\ inbox'[k].begin = BlockBegin(i)
    BY DEF RequestsInPlay
  <1>1. /\ UNCHANGED <<received, pi, sendIdx>>
        /\ Active
    BY PeerLeavesClient DEF Active
  <1>2. CASE ~(PeerClose \/ PeerReset \/ RstArrives)
    <2>1. \/ i \in received
          \/ RequestFor(pi, i) \in outstanding
          \/ \E k \in DOMAIN inbox :
               inbox[k].type = "piece" /\ inbox[k].begin = BlockBegin(i)
      <3>1. conn = "open"
        BY <1>2 DEF Peer, PeerAnswer, PeerCorrupt, PeerShort, PeerOversize, PeerUnsolicited, PeerControl
      <3> QED
        BY <1>1, <3>1 DEF RequestsInPlay
    <2>2. \A m : Deliver(m) => m \in Messages
      <3>1. SUFFICES ASSUME NEW m, inbox' = Append(inbox, m) PROVE m \in Messages
        BY DEF Deliver
      <3>2. inbox' \in Seq(Messages) /\ inbox \in Seq(Messages) /\ Len(inbox) \in Nat
        BY LenProperties DEF TypeOK
      <3>3. inbox \in Seq(Messages \cup {m})
        BY <3>2, SeqMonotonic
      <3>4. Len(inbox') = Len(inbox) + 1 /\ inbox'[Len(inbox) + 1] = m
        BY <3>1, <3>3, AppendProperties
      <3> QED
        BY <3>2, <3>4, ElementOfSeq
    <2>3. CASE \E r \in outstanding : \E bytes :
                 outstanding' = outstanding \ {r} /\ Deliver(PieceMsg(r, bytes))
      BY <1>1, <2>1, <2>2, <2>3, InPlayAnswer
    <2>4. CASE \E m : Deliver(m) /\ UNCHANGED outstanding
      BY <1>1, <2>1, <2>2, <2>4, InPlayDeliver
    <2> QED
      BY <1>2, <2>3, <2>4
         DEF Peer, PeerAnswer, PeerCorrupt, PeerShort, PeerOversize, PeerUnsolicited, PeerControl
  <1>3. CASE PeerClose \/ PeerReset \/ RstArrives
    BY <1>3 DEF PeerClose, PeerReset, RstArrives
  <1> QED BY <1>2, <1>3

\* Every request of the piece sent so far was answered, waits at the peer, or has
\* its answer on the way.
LEMMA InPlayInvariant == Spec => []RequestsInPlay
  <1>1. Init => RequestsInPlay
    BY DEF Init, RequestsInPlay, Active
  <1>2. WindowInv /\ WindowInv' /\ RequestsInPlay /\ [Next]_vars => RequestsInPlay'
    <2> SUFFICES ASSUME WindowInv, WindowInv', RequestsInPlay, [Next]_vars
                 PROVE  RequestsInPlay'
      OBVIOUS
    <2>1. CASE Client
      BY <2>1, InPlayClient
    <2>2. CASE Peer
      BY <2>2, InPlayPeer DEF WindowInv
    <2>3. CASE UNCHANGED vars
      BY <2>3 DEF RequestsInPlay, Active, vars, locals, worker, net
    <2> QED
      BY <2>1, <2>2, <2>3 DEF Next, Stopped
  <1> QED
    BY <1>1, <1>2, WindowInvariant, PTL DEF Spec

\* A client blocked in recv_message is never waited for: the peer holds a
\* request it has not answered, for a block the client lacks (NoStall).
THEOREM NeverStalls == Spec => []NoStall
  <1>1. WindowInv /\ RequestsInPlay => NoStall
    <2> SUFFICES ASSUME WindowInv, RequestsInPlay, Waiting
                 PROVE  \E i \in Blocks(pi) \ received : RequestFor(pi, i) \in outstanding
      BY DEF NoStall
    <2>1. /\ pc = "recv" /\ Active /\ blocksReceived < NumBlocks(pi)
          /\ inbox = << >> /\ conn = "open"
      BY DEF Waiting, Receiving, Active
    <2>2. /\ sendIdx \in Nat /\ blocksReceived \in Nat /\ pending \in Int
          /\ PipelineDepth \in Nat \ {0} /\ TypeOK
      BY TypeNumbers DEF WindowInv
    <2>3. /\ NumBlocks(pi) \in Nat /\ IsFiniteSet(received)
          /\ sendIdx <= NumBlocks(pi)
      BY <2>1, <2>2, ReceivedFinite DEF TypeOK
    <2>4. /\ blocksReceived = Cardinality(received)
          /\ pending = sendIdx - blocksReceived
          /\ pending = PipelineDepth \/ sendIdx = NumBlocks(pi)
      BY <2>1 DEF WindowInv, WindowAccounting, WindowFull
    <2>5. ~(0 .. sendIdx - 1 \subseteq received)
      <3>1. SUFFICES ASSUME 0 .. sendIdx - 1 \subseteq received PROVE FALSE
        OBVIOUS
      <3>2. Cardinality(0 .. sendIdx - 1) <= Cardinality(received)
        BY <2>3, <3>1, FS_Subset
      <3>3. Cardinality(0 .. sendIdx - 1) = sendIdx
        BY <2>2, FS_Interval
      <3> QED
        BY <2>1, <2>2, <2>3, <2>4, <3>2, <3>3
    <2>6. PICK i \in 0 .. sendIdx - 1 : i \notin received
      BY <2>5
    <2>7. i \in Blocks(pi)
      BY <2>2, <2>3 DEF Blocks
    <2>8. DOMAIN inbox = {}
      BY <2>1
    <2>9. RequestFor(pi, i) \in outstanding
      BY <2>1, <2>6, <2>8 DEF RequestsInPlay
    <2> QED
      BY <2>6, <2>7, <2>9
  <1> QED
    BY <1>1, WindowInvariant, InPlayInvariant, PTL

----------------------------------------------------------------------------
(* What is delivered *)

\* The worker gets its pieces in order, and every byte of them right, whatever
\* came over the connection (VerifiedDelivery).
THEOREM DeliveryVerified == Spec => []VerifiedDelivery
  <1>1. Init => VerifiedDelivery
    BY TransferAssumption DEF Init, VerifiedDelivery
  <1>2. TypeOK /\ VerifiedDelivery /\ [Next]_vars => VerifiedDelivery'
    <2> SUFFICES ASSUME TypeOK, VerifiedDelivery, [Next]_vars
                 PROVE  VerifiedDelivery'
      OBVIOUS
    <2>1. CASE VerifyPiece
      <3>1. delivered' = Append(delivered, Content(pi)) /\ pi' = pi + 1
        BY <2>1 DEF VerifyPiece, HashMatches
      <3>2. /\ delivered \in Seq({Content(p) : p \in Pieces})
            /\ Len(delivered) = pi - Start
            /\ \A k \in 1 .. Len(delivered) : delivered[k] = Content(Start + k - 1)
        BY DEF TypeOK, VerifiedDelivery
      <3>3. Content(pi) \in {Content(p) : p \in Pieces}
        BY <2>1, RangePieces DEF TypeOK, VerifyPiece, Complete, Active
      <3>4. /\ pi \in Nat /\ Start \in Nat /\ Len(delivered) \in Nat
            /\ pi = Start + Len(delivered)
        BY <3>2, TypeNumbers, LenProperties
      <3> HIDE DEF Content, Pieces
      <3>5. /\ Len(delivered') = Len(delivered) + 1
            /\ \A k \in 1 .. Len(delivered) : delivered'[k] = delivered[k]
            /\ delivered'[Len(delivered) + 1] = Content(pi)
        BY <3>1, <3>2, <3>3, AppendProperties
      <3>6. Start + (Len(delivered) + 1) - 1 = pi
        BY <3>4
      <3>7. \A k \in 1 .. Len(delivered') : delivered'[k] = Content(Start + k - 1)
        <4>1. TAKE k \in 1 .. Len(delivered')
        <4>2. CASE k = Len(delivered) + 1
          BY <3>5, <3>6, <4>2
        <4>3. CASE k # Len(delivered) + 1
          <5>1. k \in 1 .. Len(delivered)
            BY <3>4, <3>5, <4>1, <4>3
          <5> QED BY <3>2, <3>5, <5>1
        <4> QED BY <4>2, <4>3
      <3>8. Len(delivered') = pi' - Start
        BY <3>1, <3>4, <3>5
      <3> QED
        BY <3>7, <3>8 DEF VerifiedDelivery
    <2>2. CASE UNCHANGED worker
      BY <2>2 DEF VerifiedDelivery, worker
    <2>3. VerifyPiece \/ UNCHANGED worker
      BY PeerLeavesClient
         DEF Next, Client, Stopped, vars, worker, BeginPiece, RejectPiece, FinishRange,
             FillPipeline, StartReceiving, ReceivePiece, CrashOnOverrun, SkipMessage,
             RejectMessage, ReceiveFails, HashMismatch
    <2> QED BY <2>1, <2>2, <2>3
  <1> QED
    BY <1>1, <1>2, TypeCorrect, PTL DEF Spec

\* The content of a piece is the same operator in PieceService.
LEMMA ServiceContent == \A p : Service!Content(p) = Content(p)
  BY DEF Service!Content, Service!Offsets, Service!ActualPieceLen, Service!NumPieces,
         Service!PieceOffset, Content, Offsets, ActualPieceLen, NumPieces, PieceOffset

\* The transfer implements what the download assumes of a connection: every
\* step serves the next whole piece, ends the service, or is invisible
\* (ImplementsService).
THEOREM TransferImplementsService == Spec => ImplementsService
  <1> DEFINE st == IF pc \in Terminal THEN pc ELSE "running"
  <1>1. Init => Service!Init
    BY DEF Init, Service!Init, Terminal
  <1>2. TypeOK /\ VerifiedDelivery /\ [Next]_vars => [Service!Next]_(Service!svars)
    <2> SUFFICES ASSUME TypeOK, VerifiedDelivery, [Next]_vars
                 PROVE  Service!Next \/ (delivered' = delivered /\ st' = st)
      BY DEF Service!svars
    <2>1. /\ pi \in Nat /\ Start \in Nat /\ End \in Nat /\ pi <= End
          /\ Len(delivered) = pi - Start
      BY TypeNumbers DEF VerifiedDelivery
    <2>2. CASE VerifyPiece
      <3>1. pc = "recv" /\ pc' = "begin" /\ pi < End
        BY <2>2 DEF VerifyPiece, Complete, TypeOK, Active
      <3>2. Start + Len(delivered) = pi /\ Len(delivered) < End - Start
        BY <2>1, <3>1
      <3>3. delivered' = Append(delivered, Service!Content(Start + Len(delivered)))
        BY <2>2, <3>2, ServiceContent DEF VerifyPiece, HashMatches
      <3> QED
        BY <3>1, <3>2, <3>3 DEF Service!Next, Service!Serve, Terminal
    <2>3. CASE FinishRange
      <3>1. pc = "begin" /\ pc' = "done" /\ delivered' = delivered /\ pi >= End
        BY <2>3 DEF FinishRange, worker
      <3>2. Len(delivered) = End - Start
        BY <2>1, <3>1
      <3> QED
        BY <3>1, <3>2 DEF Service!Next, Service!Finish, Terminal
    <2>4. CASE Client /\ ~VerifyPiece /\ ~FinishRange
      <3>1. /\ delivered' = delivered
            /\ pc \in {"begin", "fill", "recv"}
            /\ pc' \in {"fill", "recv", "failed", "killed"} \/ pc' = pc
        BY <2>4
           DEF Client, worker, BeginPiece, RejectPiece, FillPipeline, StartReceiving,
               ReceivePiece, CrashOnOverrun, SkipMessage, RejectMessage, ReceiveFails,
               HashMismatch, Receiving, Complete, FollowUp, Send, Throw
      <3>2. CASE pc' \in {"failed", "killed"}
        BY <3>1, <3>2 DEF Service!Next, Service!Abort, Terminal
      <3>3. CASE pc' \notin {"failed", "killed"}
        BY <3>1, <3>3 DEF Terminal
      <3> QED BY <3>2, <3>3
    <2>5. CASE Peer \/ UNCHANGED vars
      BY <2>5, PeerLeavesClient DEF vars, worker
    <2> QED
      BY <2>2, <2>3, <2>4, <2>5 DEF Next, Stopped
  <1> QED
    BY <1>1, <1>2, TypeCorrect, DeliveryVerified, PTL
       DEF Spec, ImplementsService, Service!Spec

----------------------------------------------------------------------------
(* Accepted blocks *)

\* A copy of at most kBlockSize bytes to the begin of one block touches no
\* byte of another.
LEMMA BlocksApart ==
  ASSUME NEW p \in Pieces, NEW i \in Blocks(p), NEW j \in Blocks(p), i # j,
         NEW o \in BlockBegin(i) .. BlockBegin(i) + BlockLength(p, i) - 1
  PROVE  o - BlockBegin(j) \notin 0 .. BlockSize - 1
  <1>1. /\ i \in Nat /\ j \in Nat /\ BlockBegin(i) \in Nat /\ BlockBegin(j) \in Nat
        /\ BlockLength(p, i) \in 1 .. BlockSize
        /\ BlockBegin(j + 1) = BlockBegin(j) + BlockSize
    BY BlockBounds
  <1>2. CASE i < j
    BY <1>1, <1>2, BlocksDisjoint, LayoutAssumption
  <1>3. CASE j < i
    <2>1. BlockSize * (j + 1) <= BlockSize * i
      BY <1>1, <1>3, MulMono, LayoutAssumption
    <2>2. BlockBegin(j + 1) = BlockSize * (j + 1) /\ BlockBegin(i) = BlockSize * i
      BY <1>1, MulDist, LayoutAssumption DEF BlockBegin
    <2> QED
      BY <1>1, <2>1, <2>2, LayoutAssumption
  <1> QED BY <1>1, <1>2, <1>3

\* What one message changes in the buffer outside the block it matches, it
\* changes with bytes beyond the length of a block.
LEMMA CopyElsewhere ==
  ASSUME TypeOK, Active, NEW m \in Messages, m.type = "piece",
         NEW j \in Blocks(pi), m.begin = BlockBegin(j),
         NEW i \in Blocks(pi), i # j,
         NEW o \in BlockBegin(i) .. BlockBegin(i) + BlockLength(pi, i) - 1,
         CopyBlock(pieceData, m)[o] # pieceData[o]
  PROVE  o - m.begin \in DOMAIN m.block /\ o - m.begin >= BlockSize
  <1>1. pi \in Pieces /\ pieceData \in [Offsets(pi) -> Bytes]
    BY RangePieces DEF TypeOK
  <1>2. PICK n \in 0 .. MaxBlock : m.block \in [0 .. n - 1 -> Bytes]
    BY DEF Messages, BlockData, SkippedKinds, UnknownKinds
  <1>3. BlockBegin(i) \in Nat /\ BlockBegin(j) \in Nat /\ BlockLength(pi, i) \in 1 .. BlockSize
    BY <1>1, BlockBounds
  <1>4. o \in Offsets(pi)
    <2>1. BlockBegin(i) + BlockLength(pi, i) <= ActualPieceLen(pi)
      BY <1>1, BlockBounds
    <2>2. ActualPieceLen(pi) \in Nat
      BY <1>1, PieceLenBounds, LayoutAssumption
    <2> QED BY <1>3, <2>1, <2>2 DEF Offsets
  <1>5. o - m.begin \in DOMAIN m.block
    <2>1. CASE o - m.begin \notin DOMAIN m.block
      BY <1>1, <1>4, <2>1 DEF CopyBlock
    <2> QED BY <2>1
  <1>6. o - m.begin \in 0 .. n - 1
    BY <1>2, <1>5
  <1>7. o - BlockBegin(j) \notin 0 .. BlockSize - 1
    BY <1>1, BlocksApart
  <1> QED
    BY <1>3, <1>5, <1>6, <1>7, LayoutAssumption

\* A block once accepted stays accepted, and a later message changes a byte of
\* it only where a block longer than a block can be runs into it
\* (AcceptedBlocksStable).
THEOREM AcceptedStable == Spec => AcceptedBlocksStable
  <1> DEFINE Kept(i) ==
        /\ i \in received'
        /\ \A o \in BlockBegin(i) .. BlockBegin(i) + BlockLength(pi, i) - 1 :
             pieceData'[o] # pieceData[o] => Overlong(o)
  <1>1. TypeOK /\ [Next]_vars =>
          [\A i \in received : pc = "recv" /\ pc' = "recv" => Kept(i)]_vars
    <2> SUFFICES ASSUME TypeOK, Next, NEW i \in received, pc = "recv", pc' = "recv"
                 PROVE  Kept(i)
      OBVIOUS
    <2>0. Active /\ received \subseteq Blocks(pi)
      BY DEF Active, TypeOK
    <2>1. CASE ReceivePiece /\ Matching(Head(inbox)) # {}
      <3>1. /\ received' = received \cup Matching(Head(inbox))
            /\ pieceData' = CopyBlock(pieceData, Head(inbox))
            /\ inbox # << >> /\ Head(inbox).type = "piece"
        BY <2>1 DEF ReceivePiece
      <3>2. PICK j \in Blocks(pi) : j \notin received /\ BlockBegin(j) = Head(inbox).begin
        BY <2>0, <2>1, MatchingSingle
      <3>3. Head(inbox) \in Messages
        BY <3>1, InboxHead DEF TypeOK
      <3>4. ASSUME NEW o \in BlockBegin(i) .. BlockBegin(i) + BlockLength(pi, i) - 1,
                   pieceData'[o] # pieceData[o]
            PROVE  Overlong(o)
        BY <2>0, <3>1, <3>2, <3>3, <3>4, CopyElsewhere DEF Overlong
      <3> QED
        BY <3>1, <3>4
    <2>2. CASE ReceivePiece /\ Matching(Head(inbox)) = {}
      BY <2>2 DEF ReceivePiece
    <2>3. CASE SkipMessage \/ Peer \/ Stopped
      BY <2>3, PeerLeavesClient DEF SkipMessage, Stopped, vars, locals
    <2> QED
      BY <2>1, <2>2, <2>3
         DEF Next, Client, BeginPiece, RejectPiece, FinishRange, FillPipeline,
             StartReceiving, CrashOnOverrun, RejectMessage, ReceiveFails, VerifyPiece,
             HashMismatch, Throw
  <1> QED
    BY <1>1, TypeCorrect, PTL DEF Spec, AcceptedBlocksStable

----------------------------------------------------------------------------
(***************************************************************************)
(* A peer that conforms is never blamed: no piece fails its hash, and no   *)
(* send or receive fails, unless the peer deviated or its connection went  *)
(* away.  The invariant is ConformingExchange.                             *)
(***************************************************************************)

----------------------------------------------------------------------------
(* Steps that leave the locals alone *)

\* Taking messages from the head or the end of the queue keeps the exchange
\* as expected; d is the number taken from the head.
LEMMA ExchangeShrink ==
  ASSUME ExpectedExchange,
         UNCHANGED <<pi, received, sendIdx, pieceData, outstanding>>,
         NEW d \in Nat,
         \A k \in DOMAIN inbox' : k \in Nat /\
           (IsPiece(k)' => k + d \in DOMAIN inbox /\ inbox'[k] = inbox[k + d]),
         pc' = "begin" => sendIdx = 0,
         Active' => Active
  PROVE  ExpectedExchange'
  <1>1. \A r \in outstanding' : ExpectedRequest(r)'
    BY DEF ExpectedExchange, ExpectedRequest
  <1>2. ASSUME NEW k \in DOMAIN inbox', IsPiece(k)'
        PROVE  ExpectedAnswer(inbox[k])'
    BY <1>2 DEF ExpectedExchange, ExpectedAnswer, IsPiece
  <1>3. ASSUME NEW j \in DOMAIN inbox', NEW k \in DOMAIN inbox', j # k,
               IsPiece(j)', IsPiece(k)'
        PROVE  inbox'[j].begin # inbox'[k].begin
    <2>1. /\ j + d \in DOMAIN inbox /\ inbox'[j] = inbox[j + d]
          /\ k + d \in DOMAIN inbox /\ inbox'[k] = inbox[k + d]
          /\ j + d # k + d
      BY <1>3
    <2> QED BY <1>3, <2>1 DEF ExpectedExchange, IsPiece
  <1>4. \A r \in outstanding' : \A k \in DOMAIN inbox' :
          IsPiece(k)' => inbox'[k].begin # r.begin
    BY DEF ExpectedExchange, IsPiece
  <1>5. Active' => BufferRight'
    BY DEF ExpectedExchange, BufferRight
  <1>6. received' \subseteq 0 .. sendIdx' - 1 /\ (pc' = "begin" => sendIdx' = 0)
    BY DEF ExpectedExchange
  <1> QED
    BY <1>1, <1>2, <1>3, <1>4, <1>5, <1>6 DEF ExpectedExchange

\* An answer takes the place of its request.
LEMMA ExchangeAnswer ==
  ASSUME TypeOK, ExpectedExchange, Peer, PeerAnswer
  PROVE  ExpectedExchange'
  <1>1. PICK r \in outstanding :
          outstanding' = outstanding \ {r} /\ Deliver(PieceMsg(r, Requested(r)))
    BY DEF PeerAnswer
  <1>2. UNCHANGED <<pc, pi, received, sendIdx, pieceData>>
    BY PeerLeavesClient
  <1>3. PICK i \in 0 .. sendIdx - 1 : i \notin received /\ r = RequestFor(pi, i)
    BY <1>1 DEF ExpectedExchange, ExpectedRequest
  <1> DEFINE m == PieceMsg(r, Requested(r))
  <1>4. m.type = "piece" /\ m.begin = r.begin /\ r.begin = BlockBegin(i)
    BY <1>3 DEF PieceMsg, RequestFor
  <1>5. inbox' = Append(inbox, m) /\ inbox \in Seq(Messages)
    BY <1>1 DEF Deliver, TypeOK
  <1> HIDE DEF m
  <1>6. /\ Len(inbox) \in Nat /\ DOMAIN inbox = 1 .. Len(inbox)
        /\ DOMAIN inbox' = 1 .. Len(inbox) + 1
        /\ \A k \in 1 .. Len(inbox) : inbox'[k] = inbox[k]
        /\ inbox'[Len(inbox) + 1] = m
    <2>1. inbox \in Seq(Messages \cup {m}) /\ m \in Messages \cup {m}
      BY <1>5, SeqMonotonic
    <2> QED BY <1>5, <2>1, AppendProperties, LenProperties
  <1>7. \A q \in outstanding' : ExpectedRequest(q)'
    BY <1>1, <1>2 DEF ExpectedExchange, ExpectedRequest
  <1>8. ASSUME NEW k \in DOMAIN inbox', IsPiece(k)'
        PROVE  ExpectedAnswer(inbox[k])'
    <2>1. CASE k \in 1 .. Len(inbox)
      BY <1>2, <1>6, <1>8, <2>1 DEF ExpectedExchange, ExpectedAnswer, IsPiece
    <2>2. CASE k = Len(inbox) + 1
      BY <1>2, <1>3, <1>6, <2>2 DEF ExpectedAnswer, m
    <2> QED BY <1>6, <2>1, <2>2
  <1>9. ASSUME NEW j \in DOMAIN inbox', NEW k \in DOMAIN inbox', j # k,
               IsPiece(j)', IsPiece(k)'
        PROVE  inbox'[j].begin # inbox'[k].begin
    <2>1. \A l \in 1 .. Len(inbox) : IsPiece(l) => inbox[l].begin # m.begin
      BY <1>1, <1>4, <1>6 DEF ExpectedExchange
    <2>2. CASE j \in 1 .. Len(inbox) /\ k \in 1 .. Len(inbox)
      BY <1>6, <1>9, <2>2 DEF ExpectedExchange, IsPiece
    <2>3. CASE j = Len(inbox) + 1 /\ k \in 1 .. Len(inbox)
      BY <1>6, <1>9, <2>1, <2>3 DEF IsPiece
    <2>4. CASE k = Len(inbox) + 1 /\ j \in 1 .. Len(inbox)
      BY <1>6, <1>9, <2>1, <2>4 DEF IsPiece
    <2> QED BY <1>6, <1>9, <2>2, <2>3, <2>4
  <1>10. ASSUME NEW q \in outstanding', NEW k \in DOMAIN inbox', IsPiece(k)'
         PROVE  inbox'[k].begin # q.begin
    <2>1. CASE k \in 1 .. Len(inbox)
      BY <1>1, <1>6, <1>10, <2>1 DEF ExpectedExchange, IsPiece
    <2>2. CASE k = Len(inbox) + 1
      <3>1. q \in outstanding /\ q # r
        BY <1>1
      <3>2. PICK j \in 0 .. sendIdx - 1 : q = RequestFor(pi, j)
        BY <3>1 DEF ExpectedExchange, ExpectedRequest
      <3>3. i # j
        BY <1>3, <3>1, <3>2
      <3>4. BlockBegin(i) # BlockBegin(j)
        BY <3>3, BlockBeginInjective
      <3> QED
        BY <1>4, <1>6, <2>2, <3>2, <3>4 DEF RequestFor
    <2> QED BY <1>6, <2>1, <2>2
  <1>11. /\ received' \subseteq 0 .. sendIdx' - 1 /\ (pc' = "begin" => sendIdx' = 0)
         /\ Active' => BufferRight'
    BY <1>2 DEF ExpectedExchange, BufferRight, Active
  <1> QED
    BY <1>7, <1>8, <1>9, <1>10, <1>11 DEF ExpectedExchange

\* A control message is no piece.
LEMMA ExchangeControl ==
  ASSUME TypeOK, ExpectedExchange, Peer, PeerControl
  PROVE  ExpectedExchange'
  <1>1. PICK c \in ControlKinds : Deliver([type |-> c])
    BY DEF PeerControl
  <1>2. /\ UNCHANGED <<pc, pi, received, sendIdx, pieceData, outstanding>>
        /\ ExpectedExchange => (pc = "begin" => sendIdx = 0)
    BY PeerLeavesClient DEF PeerControl, ExpectedExchange
  <1>3. [type |-> c] \in Messages /\ c # "piece"
    BY TransferAssumption DEF Messages, SkippedKinds, UnknownKinds
  <1>4. /\ Len(inbox) \in Nat
        /\ DOMAIN inbox = 1 .. Len(inbox) /\ DOMAIN inbox' = 1 .. Len(inbox) + 1
        /\ \A k \in 1 .. Len(inbox) : inbox'[k] = inbox[k]
        /\ inbox'[Len(inbox) + 1] = [type |-> c]
    BY <1>1, <1>3, DeliverEffect DEF TypeOK
  <1>5. \A k \in DOMAIN inbox' : k \in Nat /\
          (IsPiece(k)' => k + 0 \in DOMAIN inbox /\ inbox'[k] = inbox[k + 0])
    BY <1>3, <1>4 DEF IsPiece
  <1>6. 0 \in Nat /\ (Active' => Active)
    BY <1>2 DEF Active
  <1> QED
    BY <1>2, <1>5, <1>6, ExchangeShrink

----------------------------------------------------------------------------
(* The client's steps *)

\* Blocks that were requested are blocks of the piece.
LEMMA RequestedBlocks ==
  ASSUME TypeOK, Active, NEW i \in 0 .. sendIdx - 1
  PROVE  i \in Blocks(pi) /\ i \in Nat
  <1>1. sendIdx \in Nat /\ NumBlocks(pi) \in Nat /\ sendIdx <= NumBlocks(pi)
    BY TypeNumbers, ReceivedFinite DEF TypeOK
  <1> QED BY <1>1 DEF Blocks

\* A piece on its way has the begin of a block that was requested.
LEMMA AnswerBegin ==
  ASSUME ExpectedExchange, NEW k \in DOMAIN inbox, IsPiece(k)
  PROVE  \E i \in 0 .. sendIdx - 1 : inbox[k].begin = BlockBegin(i)
  <1>1. ExpectedAnswer(inbox[k])
    BY DEF ExpectedExchange
  <1>2. PICK i \in 0 .. sendIdx - 1 :
          inbox[k] = PieceMsg(RequestFor(pi, i), Requested(RequestFor(pi, i)))
    BY <1>1 DEF ExpectedAnswer
  <1>3. inbox[k].begin = RequestFor(pi, i).begin
    BY <1>2 DEF PieceMsg
  <1> QED
    BY <1>3 DEF RequestFor

\* A new request is for the block sendIdx, which none asked for before.
LEMMA ExchangeFill ==
  ASSUME TypeOK, ExpectedExchange, FillPipeline
  PROVE  ExpectedExchange'
  <1>1. /\ pc = "fill" /\ sendIdx' = sendIdx + 1
        /\ UNCHANGED <<pi, received, pieceData, inbox>>
        /\ Send(RequestFor(pi, sendIdx), "fill") /\ Active
    BY DEF FillPipeline, worker, Active
  <1>2. /\ outstanding' \subseteq outstanding \cup {RequestFor(pi, sendIdx)}
        /\ pc' \in {"fill", "failed", "killed"}
    BY <1>1, SendEffect
  <1>3. sendIdx \in Nat
    BY TypeNumbers
  <1>4. \A i \in 0 .. sendIdx - 1 : i \in 0 .. sendIdx' - 1
    BY <1>1, <1>3
  <1>5. sendIdx \in 0 .. sendIdx' - 1 /\ sendIdx \notin 0 .. sendIdx - 1
    BY <1>1, <1>3
  <1>6. received \subseteq 0 .. sendIdx - 1
    BY DEF ExpectedExchange
  <1>7. \A r \in outstanding' : ExpectedRequest(r)'
    BY <1>1, <1>2, <1>4, <1>5, <1>6 DEF ExpectedExchange, ExpectedRequest
  <1>8. \A k \in DOMAIN inbox' : IsPiece(k)' => ExpectedAnswer(inbox[k])'
    BY <1>1, <1>4 DEF ExpectedExchange, ExpectedAnswer, IsPiece
  <1>9. ASSUME NEW r \in outstanding', NEW k \in DOMAIN inbox', IsPiece(k)'
        PROVE  inbox'[k].begin # r.begin
    <2>1. CASE r \in outstanding
      BY <1>1, <1>9, <2>1 DEF ExpectedExchange, IsPiece
    <2>2. CASE r = RequestFor(pi, sendIdx)
      <3>1. PICK i \in 0 .. sendIdx - 1 : inbox[k].begin = BlockBegin(i)
        BY <1>1, <1>9, AnswerBegin DEF IsPiece
      <3>2. i # sendIdx /\ i \in Nat
        BY <1>3
      <3>3. BlockBegin(i) # BlockBegin(sendIdx)
        BY <1>3, <3>2, BlockBeginInjective
      <3> QED
        BY <1>1, <2>2, <3>1, <3>3 DEF RequestFor
    <2> QED BY <1>2, <2>1, <2>2
  <1>10. Active' => BufferRight'
    BY <1>1 DEF ExpectedExchange, BufferRight
  <1>11. received' \subseteq 0 .. sendIdx' - 1 /\ (pc' = "begin" => sendIdx' = 0)
    BY <1>1, <1>2, <1>4, <1>6
  <1>12. \A j, k \in DOMAIN inbox' :
           j # k /\ IsPiece(j)' /\ IsPiece(k)' => inbox'[j].begin # inbox'[k].begin
    BY <1>1 DEF ExpectedExchange, IsPiece
  <1> QED
    BY <1>7, <1>8, <1>9, <1>10, <1>11, <1>12 DEF ExpectedExchange

\* The block at the head of an expected exchange is a missing one, and its
\* bytes are the torrent's and fit the buffer.
LEMMA ExpectedHead ==
  ASSUME TypeOK, ExpectedExchange, Receiving, inbox # << >>,
         Head(inbox).type = "piece"
  PROVE  \E i \in 0 .. sendIdx - 1 :
           /\ i \notin received /\ i \in Blocks(pi) /\ i \in Nat
           /\ Matching(Head(inbox)) = {i}
           /\ Head(inbox).begin = BlockBegin(i)
           /\ Head(inbox).block = Requested(RequestFor(pi, i))
           /\ \A o \in 0 .. BlockLength(pi, i) - 1 :
                /\ BlockBegin(i) + o \in DOMAIN pieceData
                /\ CopyBlock(pieceData, Head(inbox))[BlockBegin(i) + o]
                     = PieceOffset(pi) + BlockBegin(i) + o
           /\ DOMAIN Head(inbox).block = 0 .. BlockLength(pi, i) - 1
  <1> DEFINE m == Head(inbox)
  <1>0. Active /\ pi \in Pieces
    BY RangePieces DEF Receiving, Active, TypeOK
  <1>1. m = inbox[1] /\ 1 \in DOMAIN inbox
    <2>1. inbox \in Seq(Messages)
      BY DEF TypeOK
    <2>2. Head(inbox) = inbox[1] /\ Len(inbox) \in Nat \ {0}
      BY <2>1, InboxHead
    <2>3. DOMAIN inbox = 1 .. Len(inbox)
      BY <2>1, LenProperties
    <2> QED BY <2>2, <2>3
  <1>2. PICK i \in 0 .. sendIdx - 1 :
          i \notin received /\ m = PieceMsg(RequestFor(pi, i), Requested(RequestFor(pi, i)))
    BY <1>1 DEF ExpectedExchange, ExpectedAnswer, IsPiece
  <1>3. i \in Blocks(pi) /\ i \in Nat
    BY <1>0, RequestedBlocks
  <1>4. /\ m.begin = BlockBegin(i)
        /\ m.block = Requested(RequestFor(pi, i))
        /\ RequestFor(pi, i).index = pi /\ RequestFor(pi, i).begin = BlockBegin(i)
        /\ RequestFor(pi, i).length = BlockLength(pi, i)
    BY <1>2 DEF PieceMsg, RequestFor
  <1> HIDE DEF m
  <1>5. DOMAIN m.block = 0 .. BlockLength(pi, i) - 1
    BY <1>4 DEF Requested
  <1>6. Matching(m) = {i}
    <2>1. Matching(m) # {}
      BY <1>2, <1>3, <1>4 DEF Matching
    <2>2. PICK j \in Blocks(pi) : BlockBegin(j) = m.begin /\ Matching(m) = {j}
      BY <1>0, <2>1, MatchingSingle
    <2>3. i \in Matching(m)
      BY <1>2, <1>3, <1>4 DEF Matching
    <2> QED BY <2>2, <2>3
  <1>7. /\ BlockBegin(i) \in Nat /\ BlockLength(pi, i) \in 1 .. BlockSize
        /\ BlockBegin(i) + BlockLength(pi, i) <= ActualPieceLen(pi)
        /\ ActualPieceLen(pi) \in Nat
    BY <1>0, <1>3, BlockBounds, PieceLenBounds, LayoutAssumption
  <1>8. DOMAIN pieceData = Offsets(pi)
    BY <1>0 DEF TypeOK
  <1>9. ASSUME NEW o \in 0 .. BlockLength(pi, i) - 1
        PROVE  /\ BlockBegin(i) + o \in DOMAIN pieceData
               /\ CopyBlock(pieceData, m)[BlockBegin(i) + o] = PieceOffset(pi) + BlockBegin(i) + o
    <2>1. BlockBegin(i) + o \in Offsets(pi)
      BY <1>7 DEF Offsets
    <2>2. (BlockBegin(i) + o) - m.begin = o
      BY <1>4, <1>7
    <2>3. m.block[o] = PieceOffset(pi) + BlockBegin(i) + o
      BY <1>4 DEF Requested
    <2> QED
      BY <1>5, <1>8, <2>1, <2>2, <2>3 DEF CopyBlock
  <1> QED
    BY <1>2, <1>3, <1>4, <1>5, <1>6, <1>9 DEF m

\* A block received: it leaves the queue, the buffer gets its bytes, and a
\* new request may follow.
LEMMA ExchangeReceive ==
  ASSUME TypeOK, ExpectedExchange, ReceivePiece
  PROVE  ExpectedExchange'
  <1> DEFINE m == Head(inbox)
  <1>0. /\ Receiving /\ inbox # << >> /\ m.type = "piece"
        /\ inbox' = Tail(inbox) /\ pi' = pi /\ Active
    BY DEF ReceivePiece, worker, Receiving, Active
  <1>1. PICK i \in 0 .. sendIdx - 1 :
           /\ i \notin received /\ i \in Blocks(pi) /\ i \in Nat
           /\ Matching(m) = {i}
           /\ m.begin = BlockBegin(i)
           /\ \A o \in 0 .. BlockLength(pi, i) - 1 :
                CopyBlock(pieceData, m)[BlockBegin(i) + o]
                  = PieceOffset(pi) + BlockBegin(i) + o
           /\ DOMAIN m.block = 0 .. BlockLength(pi, i) - 1
    BY <1>0, ExpectedHead
  <1>2. /\ received' = received \cup {i}
        /\ pieceData' = CopyBlock(pieceData, m)
        /\ FollowUp(pending - 1)
    BY <1>1 DEF ReceivePiece
  <1>3. sendIdx \in Nat /\ received \subseteq 0 .. sendIdx - 1
    BY TypeNumbers DEF ExpectedExchange
  <1>4. /\ sendIdx' = sendIdx \/ sendIdx' = sendIdx + 1
        /\ sendIdx' = sendIdx => outstanding' = outstanding
        /\ outstanding' \subseteq outstanding \cup {RequestFor(pi, sendIdx)}
        /\ pc' # "begin"
    <2>1. CASE CanSend(pending - 1)
      <3>1. Send(RequestFor(pi, sendIdx), "recv") /\ sendIdx' = sendIdx + 1
        BY <1>2, <2>1 DEF FollowUp
      <3>2. /\ outstanding' \subseteq outstanding \cup {RequestFor(pi, sendIdx)}
            /\ pc' \in {"recv", "failed", "killed"}
        BY <3>1, SendEffect
      <3> QED BY <1>3, <3>1, <3>2
    <2>2. CASE ~CanSend(pending - 1)
      BY <1>0, <1>2, <2>2 DEF FollowUp, Receiving
    <2> QED BY <2>1, <2>2
  <1>5. /\ sendIdx' \in Nat
        /\ \A j \in 0 .. sendIdx - 1 : j \in 0 .. sendIdx' - 1
    BY <1>3, <1>4
  <1>6. /\ Len(inbox) \in Nat \ {0} /\ DOMAIN inbox = 1 .. Len(inbox)
        /\ DOMAIN inbox' = 1 .. Len(inbox) - 1
        /\ \A k \in DOMAIN inbox' : k + 1 \in DOMAIN inbox /\ inbox'[k] = inbox[k + 1]
        /\ 1 \in DOMAIN inbox /\ m = inbox[1]
    <2>1. inbox \in Seq(Messages)
      BY DEF TypeOK
    <2>2. /\ Len(inbox) \in Nat \ {0} /\ m = inbox[1]
          /\ Tail(inbox) \in Seq(Messages) /\ Len(Tail(inbox)) = Len(inbox) - 1
          /\ \A k \in 1 .. Len(inbox) - 1 : Tail(inbox)[k] = inbox[k + 1]
      BY <1>0, <2>1, InboxHead
    <2>3. DOMAIN inbox = 1 .. Len(inbox) /\ DOMAIN Tail(inbox) = 1 .. Len(inbox) - 1
      BY <2>1, <2>2, LenProperties
    <2> QED BY <1>0, <2>2, <2>3
  <1> HIDE DEF m
  \* Neither a request nor another message is for the block just received.
  <1>7. ASSUME NEW k \in DOMAIN inbox', IsPiece(k)'
        PROVE  inbox[k + 1].begin # BlockBegin(i) /\ IsPiece(k + 1)
    <2>1. k + 1 # 1 /\ k + 1 \in DOMAIN inbox /\ inbox'[k] = inbox[k + 1]
      BY <1>6
    <2> QED
      BY <1>0, <1>1, <1>6, <1>7, <2>1 DEF ExpectedExchange, IsPiece
  <1>8. \A r \in outstanding : r.begin # BlockBegin(i)
    BY <1>0, <1>1, <1>6 DEF ExpectedExchange, IsPiece
  <1>9. ASSUME NEW r \in outstanding'
        PROVE  ExpectedRequest(r)'
    <2>1. CASE r \in outstanding
      <3>1. PICK j \in 0 .. sendIdx - 1 : j \notin received /\ r = RequestFor(pi, j)
        BY <2>1 DEF ExpectedExchange, ExpectedRequest
      <3>2. j # i
        BY <1>8, <2>1, <3>1 DEF RequestFor
      <3> QED
        BY <1>0, <1>2, <1>5, <3>1, <3>2 DEF ExpectedRequest
    <2>2. CASE r = RequestFor(pi, sendIdx) /\ sendIdx' = sendIdx + 1
      <3>1. sendIdx \in 0 .. sendIdx' - 1 /\ sendIdx \notin received'
        BY <1>1, <1>2, <1>3, <2>2
      <3> QED BY <1>0, <2>2, <3>1 DEF ExpectedRequest
    <2> QED BY <1>4, <2>1, <2>2
  <1>10. ASSUME NEW k \in DOMAIN inbox', IsPiece(k)'
         PROVE  ExpectedAnswer(inbox[k])'
    <2>1. PICK j \in 0 .. sendIdx - 1 :
            j \notin received
              /\ inbox[k + 1] = PieceMsg(RequestFor(pi, j), Requested(RequestFor(pi, j)))
      BY <1>6, <1>7, <1>10 DEF ExpectedExchange, ExpectedAnswer, IsPiece
    <2>2. j # i
      BY <1>7, <1>10, <2>1 DEF PieceMsg, RequestFor
    <2> QED
      BY <1>0, <1>2, <1>5, <1>6, <2>1, <2>2 DEF ExpectedAnswer
  <1>11. ASSUME NEW j \in DOMAIN inbox', NEW k \in DOMAIN inbox', j # k,
                IsPiece(j)', IsPiece(k)'
         PROVE  inbox'[j].begin # inbox'[k].begin
    <2>1. /\ j + 1 \in DOMAIN inbox /\ k + 1 \in DOMAIN inbox /\ j + 1 # k + 1
          /\ IsPiece(j + 1) /\ IsPiece(k + 1)
          /\ inbox'[j] = inbox[j + 1] /\ inbox'[k] = inbox[k + 1]
      BY <1>6, <1>7, <1>11
    <2> QED BY <2>1 DEF ExpectedExchange
  <1>12. ASSUME NEW r \in outstanding', NEW k \in DOMAIN inbox', IsPiece(k)'
         PROVE  inbox'[k].begin # r.begin
    <2>0. /\ k + 1 \in DOMAIN inbox /\ inbox'[k] = inbox[k + 1] /\ IsPiece(k + 1)
      BY <1>6, <1>7, <1>12
    <2>1. CASE r \in outstanding
      BY <2>0, <2>1 DEF ExpectedExchange
    <2>2. CASE r = RequestFor(pi, sendIdx)
      <3>1. PICK j \in 0 .. sendIdx - 1 : inbox[k + 1].begin = BlockBegin(j)
        BY <2>0, AnswerBegin
      <3>2. j # sendIdx /\ j \in Nat
        BY <1>3
      <3>3. BlockBegin(j) # BlockBegin(sendIdx)
        BY <1>3, <3>2, BlockBeginInjective
      <3> QED
        BY <2>0, <2>2, <3>1, <3>3 DEF RequestFor
    <2> QED BY <1>4, <2>1, <2>2
  <1>13. BufferRight'
    <2> SUFFICES ASSUME NEW j \in received', NEW o \in 0 .. BlockLength(pi, j) - 1
                 PROVE  pieceData'[BlockBegin(j) + o] = PieceOffset(pi) + BlockBegin(j) + o
      BY <1>0 DEF BufferRight
    <2>1. CASE j = i
      BY <1>1, <1>2, <2>1
    <2>2. CASE j \in received
      <3>1. pi \in Pieces /\ j \in Blocks(pi) /\ j # i
        BY <1>0, <1>1, <2>2, RangePieces DEF TypeOK
      <3>2. BlockBegin(j) \in Nat /\ BlockLength(pi, j) \in Nat
        BY <3>1, BlockBounds, LayoutAssumption
      <3>3. BlockBegin(j) + o \in BlockBegin(j) .. BlockBegin(j) + BlockLength(pi, j) - 1
        BY <3>2
      <3>4. m \in Messages
        BY <1>0, InboxHead DEF TypeOK, m
      <3>5. BlockLength(pi, i) \in 1 .. BlockSize
        BY <1>1, <3>1, BlockBounds
      <3>6. pieceData'[BlockBegin(j) + o] = pieceData[BlockBegin(j) + o]
        <4>1. SUFFICES ASSUME CopyBlock(pieceData, m)[BlockBegin(j) + o]
                                # pieceData[BlockBegin(j) + o]
                       PROVE  FALSE
          BY <1>2
        <4>2. PICK y : y = BlockBegin(j) + o
          OBVIOUS
        <4>3. y - m.begin \in DOMAIN m.block /\ y - m.begin >= BlockSize
          <5>1. y \in BlockBegin(j) .. BlockBegin(j) + BlockLength(pi, j) - 1
            BY <3>3, <4>2
          <5>2. CopyBlock(pieceData, m)[y] # pieceData[y]
            BY <4>1, <4>2
          <5>3. i # j /\ i \in Blocks(pi) /\ m.begin = BlockBegin(i) /\ m.type = "piece" /\ Active
            BY <1>0, <1>1, <3>1
          <5> HIDE DEF m
          <5> QED
            BY <3>1, <3>4, <5>1, <5>2, <5>3, CopyElsewhere
        <4>4. y - m.begin \in 0 .. BlockLength(pi, i) - 1
          BY <1>1, <4>3
        <4>5. PICK x : x = y - m.begin
          OBVIOUS
        <4> QED
          BY <3>5, <4>3, <4>4, <4>5, LayoutAssumption
      <3> QED
        BY <1>0, <2>2, <3>6 DEF ExpectedExchange, BufferRight
    <2> QED BY <1>2, <2>1, <2>2
  <1>14. received' \subseteq 0 .. sendIdx' - 1
    BY <1>2, <1>3, <1>5
  <1> QED
    BY <1>4, <1>9, <1>10, <1>11, <1>12, <1>13, <1>14 DEF ExpectedExchange

\* A piece begins with nothing requested.
LEMMA ExchangeBegin ==
  ASSUME TypeOK, ExpectedExchange, BeginPiece
  PROVE  ExpectedExchange'
  <1>1. /\ sendIdx = 0 /\ pc = "begin"
        /\ received' = {} /\ sendIdx' = 0 /\ pc' = "fill"
        /\ UNCHANGED <<pi, outstanding, inbox>>
    BY DEF BeginPiece, ExpectedExchange, worker, net
  <1>2. \A r \in outstanding : FALSE
    BY <1>1 DEF ExpectedExchange, ExpectedRequest
  <1>3. \A k \in DOMAIN inbox : ~IsPiece(k)
    BY <1>1, AnswerBegin
  <1> QED
    BY <1>1, <1>2, <1>3 DEF ExpectedExchange, BufferRight, IsPiece

\* With every block received nothing is outstanding and no piece on its way.
LEMMA AllReceived ==
  ASSUME WindowInv, ExpectedExchange, Complete
  PROVE  /\ received = Blocks(pi) /\ pi \in Pieces
         /\ outstanding = {}
         /\ \A k \in DOMAIN inbox : ~IsPiece(k)
  <1>1. TypeOK /\ Active /\ blocksReceived = Cardinality(received)
        /\ blocksReceived >= NumBlocks(pi)
    BY DEF WindowInv, WindowAccounting, Complete, Active
  <1>2. /\ pi \in Pieces /\ received \subseteq Blocks(pi)
        /\ NumBlocks(pi) \in Nat /\ Cardinality(received) \in Nat
        /\ IsFiniteSet(Blocks(pi)) /\ Cardinality(Blocks(pi)) = NumBlocks(pi)
        /\ Cardinality(received) <= NumBlocks(pi)
    BY <1>1, RangePieces, ReceivedFinite DEF TypeOK
  <1>3. received = Blocks(pi)
    <2>1. Cardinality(received) = Cardinality(Blocks(pi))
      BY <1>1, <1>2
    <2> QED
      BY <1>2, <2>1, FS_Subset
  <1>4. \A i \in 0 .. sendIdx - 1 : i \in received
    BY <1>1, <1>3, RequestedBlocks
  <1>5. \A r \in outstanding : FALSE
    BY <1>4 DEF ExpectedExchange, ExpectedRequest
  <1>6. \A k \in DOMAIN inbox : ~IsPiece(k)
    BY <1>4 DEF ExpectedExchange, ExpectedAnswer
  <1> QED
    BY <1>2, <1>3, <1>5, <1>6

\* Once a piece is complete nothing of it is under way, so verifying it leaves the
\* exchange as expected.
LEMMA ExchangeVerify ==
  ASSUME WindowInv, ExpectedExchange, VerifyPiece
  PROVE  ExpectedExchange'
  <1>1. /\ Complete /\ received' = {} /\ sendIdx' = 0 /\ pc' = "begin"
        /\ UNCHANGED <<outstanding, inbox>>
    BY DEF VerifyPiece, net
  <1> QED
    BY <1>1, AllReceived DEF ExpectedExchange, IsPiece, Active

\* A whole piece from an expected exchange has the right bytes.
LEMMA ExpectedMatches ==
  ASSUME WindowInv, ExpectedExchange, Complete
  PROVE  HashMatches
  <1>1. /\ received = Blocks(pi) /\ pi \in Pieces
        /\ pieceData \in [Offsets(pi) -> Bytes]
        /\ BufferRight
    BY AllReceived DEF ExpectedExchange, WindowInv, TypeOK, Complete, Active
  <1>2. ASSUME NEW o \in Offsets(pi)
        PROVE  pieceData[o] = PieceOffset(pi) + o
    <2>1. PICK i \in Blocks(pi) : o - BlockBegin(i) \in 0 .. BlockLength(pi, i) - 1
      BY <1>1, BlocksCover
    <2>2. /\ BlockBegin(i) \in Nat /\ PieceOffset(pi) \in Nat
          /\ ActualPieceLen(pi) \in Nat
      BY <1>1, BlockBounds, PieceLenBounds, LayoutAssumption
    <2>3. o \in Int /\ BlockBegin(i) + (o - BlockBegin(i)) = o
          /\ PieceOffset(pi) + BlockBegin(i) + (o - BlockBegin(i)) = PieceOffset(pi) + o
      BY <2>2 DEF Offsets
    <2>4. pieceData[BlockBegin(i) + (o - BlockBegin(i))]
            = PieceOffset(pi) + BlockBegin(i) + (o - BlockBegin(i))
      BY <1>1, <2>1 DEF BufferRight
    <2> QED BY <2>3, <2>4
  <1> QED
    BY <1>1, <1>2 DEF HashMatches, Content

\* The messages at the head that are no pieces leave the queue.
LEMMA ExchangeTail ==
  ASSUME TypeOK, ExpectedExchange, inbox # << >>, inbox' = Tail(inbox),
         UNCHANGED <<pi, received, sendIdx, pieceData, outstanding>>,
         pc' # "begin", Active' => Active
  PROVE  ExpectedExchange'
  <1>1. inbox \in Seq(Messages)
    BY DEF TypeOK
  <1>2. /\ Len(inbox) \in Nat \ {0} /\ Tail(inbox) \in Seq(Messages)
        /\ Len(Tail(inbox)) = Len(inbox) - 1
        /\ \A k \in 1 .. Len(inbox) - 1 : Tail(inbox)[k] = inbox[k + 1]
    BY <1>1, InboxHead
  <1>3. DOMAIN inbox = 1 .. Len(inbox) /\ DOMAIN inbox' = 1 .. Len(inbox) - 1
    BY <1>1, <1>2, LenProperties
  <1>4. \A k \in DOMAIN inbox' : k \in Nat /\
          (IsPiece(k)' => k + 1 \in DOMAIN inbox /\ inbox'[k] = inbox[k + 1])
    BY <1>2, <1>3
  <1> QED
    BY <1>4, ExchangeShrink

\* Steps that do not touch the queue, nor the locals.
LEMMA ExchangeStill ==
  ASSUME TypeOK, ExpectedExchange,
         UNCHANGED <<pi, received, sendIdx, pieceData, outstanding, inbox>>,
         pc' = "begin" => pc = "begin", Active' => Active
  PROVE  ExpectedExchange'
  <1>1. \A k \in DOMAIN inbox' : k \in Nat /\
          (IsPiece(k)' => k + 0 \in DOMAIN inbox /\ inbox'[k] = inbox[k + 0])
    <2>1. DOMAIN inbox = 1 .. Len(inbox)
      BY LenProperties DEF TypeOK
    <2> QED BY <2>1
  <1>2. pc' = "begin" => sendIdx = 0
    BY DEF ExpectedExchange
  <1> QED
    BY <1>1, <1>2, ExchangeShrink

\* An abortive reset loses the end of the queue.
LEMMA ExchangeReset ==
  ASSUME TypeOK, ExpectedExchange, Peer, PeerReset
  PROVE  ExpectedExchange'
  <1>1. PICK n \in 0 .. Len(inbox) : inbox' = SubSeq(inbox, 1, n)
    BY DEF PeerReset
  <1>2. UNCHANGED <<pc, pi, received, sendIdx, pieceData, outstanding>>
    BY PeerLeavesClient DEF PeerReset
  <1>3. DOMAIN inbox = 1 .. Len(inbox) /\ Len(inbox) \in Nat /\ inbox \in Seq(Messages)
    BY LenProperties DEF TypeOK
  <1>4. DOMAIN inbox' = 1 .. n /\ \A k \in 1 .. n : inbox'[k] = inbox[k]
    BY <1>1, <1>3 DEF SubSeq
  <1>5. \A k \in DOMAIN inbox' : k \in Nat /\
          (IsPiece(k)' => k + 0 \in DOMAIN inbox /\ inbox'[k] = inbox[k + 0])
    BY <1>3, <1>4
  <1>6. (pc' = "begin" => sendIdx = 0) /\ (Active' => Active)
    BY <1>2 DEF ExpectedExchange, Active
  <1> QED
    BY <1>2, <1>5, <1>6, ExchangeShrink

\* No block of an expected exchange runs past the end of the buffer.
LEMMA NoOverrun ==
  ASSUME TypeOK, ExpectedExchange, CrashOnOverrun
  PROVE  FALSE
  <1>1. /\ Receiving /\ inbox # << >> /\ Head(inbox).type = "piece"
        /\ \E o \in DOMAIN Head(inbox).block :
             Head(inbox).begin + o \notin DOMAIN pieceData
    BY DEF CrashOnOverrun
  <1> QED
    BY <1>1, ExpectedHead

\* The steps of the client preserve the exchange with a conforming peer.
LEMMA ExchangeClient ==
  ASSUME WindowInv, ExpectedExchange, Client
  PROVE  ExpectedExchange'
  <1>0. TypeOK
    BY DEF WindowInv
  <1>1. CASE BeginPiece
    BY <1>0, <1>1, ExchangeBegin
  <1>2. CASE RejectPiece \/ FinishRange \/ StartReceiving \/ ReceiveFails \/ HashMismatch
    <2>1. /\ UNCHANGED <<pi, received, sendIdx, pieceData, outstanding, inbox>>
          /\ pc' # "begin" /\ (Active' => Active)
      BY <1>2
         DEF RejectPiece, FinishRange, StartReceiving, ReceiveFails, HashMismatch, Throw,
             worker, net, locals, Active
    <2> QED BY <1>0, <2>1, ExchangeStill
  <1>3. CASE FillPipeline
    BY <1>0, <1>3, ExchangeFill
  <1>4. CASE ReceivePiece
    BY <1>0, <1>4, ExchangeReceive
  <1>5. CASE CrashOnOverrun
    BY <1>0, <1>5, NoOverrun
  <1>6. CASE SkipMessage \/ RejectMessage
    <2>1. /\ UNCHANGED <<pi, received, sendIdx, pieceData, outstanding>>
          /\ inbox # << >> /\ inbox' = Tail(inbox)
          /\ pc' # "begin" /\ (Active' => Active)
      BY <1>6
         DEF SkipMessage, RejectMessage, Receiving, Throw, worker, locals, Active
    <2> QED BY <1>0, <2>1, ExchangeTail
  <1>7. CASE VerifyPiece
    BY <1>7, ExchangeVerify
  <1> QED
    BY <1>1, <1>2, <1>3, <1>4, <1>5, <1>6, <1>7 DEF Client

\* A step of the peer that is no deviation preserves it.
LEMMA ExchangePeer ==
  ASSUME TypeOK, ExpectedExchange, Peer, deviations' = 0
  PROVE  ExpectedExchange'
  <1>1. UNCHANGED <<pc, pi, received, sendIdx, pieceData>>
    BY PeerLeavesClient
  <1>2. CASE PeerAnswer
    BY <1>2, ExchangeAnswer
  <1>3. CASE PeerCorrupt \/ PeerShort \/ PeerOversize \/ PeerUnsolicited
    <2>1. deviations' = deviations + 1 /\ deviations \in Nat
      BY <1>3, TypeNumbers DEF PeerCorrupt, PeerShort, PeerOversize, PeerUnsolicited, Deviate
    <2> QED BY <2>1
  <1>4. CASE PeerControl
    BY <1>4, ExchangeControl
  <1>5. CASE PeerClose \/ RstArrives
    BY <1>1, <1>5, ExchangeStill DEF PeerClose, RstArrives, Active
  <1>6. CASE PeerReset
    BY <1>6, ExchangeReset
  <1> QED
    BY <1>2, <1>3, <1>4, <1>5, <1>6 DEF Peer

----------------------------------------------------------------------------
(* The theorem *)

PeerInv == ConformingExchange /\ FailureBlamesPeer

\* The client's steps blame no peer that conforms.
LEMMA BlameClient ==
  ASSUME WindowInv, PeerInv, Client
  PROVE  FailureBlamesPeer'
  <1> SUFFICES ASSUME deviations' = 0
               PROVE  /\ error' # "piece hash mismatch"
                      /\ conn' = "open" => error' \notin {"send", "recv"} /\ pc' # "killed"
    BY DEF FailureBlamesPeer
  <1>0. TypeOK
    BY DEF WindowInv
  <1>1. deviations' = deviations
    BY DEF Client, budget, BeginPiece, RejectPiece, FinishRange, FillPipeline,
           StartReceiving, ReceivePiece, CrashOnOverrun, SkipMessage, RejectMessage,
           ReceiveFails, VerifyPiece, HashMismatch
  <1>2. /\ ExpectedExchange
        /\ error # "piece hash mismatch"
        /\ conn = "open" => error \notin {"send", "recv"} /\ pc # "killed"
    BY <1>1 DEF PeerInv, ConformingExchange, FailureBlamesPeer
  <1>3. CASE FillPipeline
    <2>1. Send(RequestFor(pi, sendIdx), "fill")
      BY <1>3 DEF FillPipeline
    <2> QED BY <1>2, <2>1 DEF Send, Throw
  <1>4. CASE ReceivePiece
    <2>1. pc = "recv" /\ \E p \in {pending - 1, pending} : FollowUp(p)
      BY <1>4 DEF ReceivePiece, Receiving
    <2>2. PICK p \in {pending - 1, pending} : FollowUp(p)
      BY <2>1
    <2>3. \/ Send(RequestFor(pi, sendIdx), "recv")
          \/ UNCHANGED <<pc, error, conn>>
      BY <2>2 DEF FollowUp
    <2>4. CASE Send(RequestFor(pi, sendIdx), "recv")
      BY <1>2, <2>4 DEF Send, Throw
    <2>5. CASE UNCHANGED <<pc, error, conn>>
      BY <1>2, <2>5
    <2> QED BY <2>3, <2>4, <2>5
  <1>5. CASE CrashOnOverrun
    BY <1>0, <1>2, <1>5, NoOverrun
  <1>6. CASE HashMismatch
    <2>1. Complete /\ ~HashMatches
      BY <1>6 DEF HashMismatch
    <2> QED BY <1>2, <2>1, ExpectedMatches
  <1>7. CASE ReceiveFails
    BY <1>2, <1>7 DEF ReceiveFails, net, Throw
  <1>8. CASE \/ BeginPiece \/ RejectPiece \/ FinishRange \/ StartReceiving
             \/ SkipMessage \/ RejectMessage \/ VerifyPiece
    BY <1>2, <1>8
       DEF BeginPiece, RejectPiece, FinishRange, StartReceiving, SkipMessage,
           RejectMessage, VerifyPiece, Throw, net
  <1> QED
    BY <1>3, <1>4, <1>5, <1>6, <1>7, <1>8 DEF Client

\* What the peer has used up never comes back.
LEMMA DeviationsGrow ==
  ASSUME TypeOK, Peer, deviations' = 0
  PROVE  deviations = 0
  <1>1. deviations \in Nat
    BY TypeNumbers
  <1>2. deviations' = deviations \/ deviations' = deviations + 1
    BY DEF Peer, budget, PeerAnswer, PeerCorrupt, PeerShort, PeerOversize, PeerUnsolicited,
           PeerControl, PeerClose, PeerReset, RstArrives, Deviate
  <1> QED BY <1>1, <1>2

\* Nor do the peer's own: they leave the client's state alone, and an open
\* connection was open before.
LEMMA BlamePeer ==
  ASSUME TypeOK, PeerInv, Peer
  PROVE  FailureBlamesPeer'
  <1>1. UNCHANGED <<pc, error>>
    BY PeerLeavesClient
  <1>2. deviations' = 0 => deviations = 0
    BY DeviationsGrow
  <1>3. conn' = "open" => conn = "open"
    BY DEF Peer, PeerAnswer, PeerCorrupt, PeerShort, PeerOversize, PeerUnsolicited,
           PeerControl, PeerClose, PeerReset, RstArrives
  <1> QED
    BY <1>1, <1>2, <1>3 DEF PeerInv, FailureBlamesPeer

\* As long as the peer has answered each request once with the right bytes,
\* in whatever order and with whatever messages in between, no piece fails
\* its hash, no block overruns the buffer, and a send or a receive fails only
\* when the connection went away (FailureBlamesPeer).
THEOREM ConformingPeer == Spec => []FailureBlamesPeer
  <1>1. Init => PeerInv
    BY DEF Init, PeerInv, ConformingExchange, FailureBlamesPeer, ExpectedExchange, Active
  <1>2. WindowInv /\ TypeOK' /\ PeerInv /\ [Next]_vars => PeerInv'
    <2> SUFFICES ASSUME WindowInv, TypeOK', PeerInv, [Next]_vars PROVE PeerInv'
      OBVIOUS
    <2>0. TypeOK
      BY DEF WindowInv
    <2>1. CASE Client
      <3>1. ConformingExchange'
        <4>1. deviations' = deviations
          BY <2>1 DEF Client, budget, BeginPiece, RejectPiece, FinishRange, FillPipeline,
             StartReceiving, ReceivePiece, CrashOnOverrun, SkipMessage, RejectMessage,
             ReceiveFails, VerifyPiece, HashMismatch
        <4> QED
          BY <2>1, <4>1, ExchangeClient DEF PeerInv, ConformingExchange
      <3> QED BY <2>1, <3>1, BlameClient DEF PeerInv
    <2>2. CASE Peer
      <3>1. ConformingExchange'
        <4>1. deviations' = 0 => deviations = 0
          BY <2>0, <2>2, DeviationsGrow
        <4> QED
          BY <2>0, <2>2, <4>1, ExchangePeer DEF PeerInv, ConformingExchange
      <3> QED BY <2>0, <2>2, <3>1, BlamePeer DEF PeerInv
    <2>3. CASE UNCHANGED vars
      BY <2>3
         DEF PeerInv, ConformingExchange, FailureBlamesPeer, ExpectedExchange,
             ExpectedRequest, ExpectedAnswer, BufferRight, IsPiece, Active,
             vars, locals, worker, net, budget
    <2> QED
      BY <2>1, <2>2, <2>3 DEF Next, Stopped
  <1>3. PeerInv => FailureBlamesPeer
    BY DEF PeerInv
  <1> QED
    BY <1>1, <1>2, <1>3, WindowInvariant, TypeCorrect, PTL DEF Spec

----------------------------------------------------------------------------
(* What is in flight *)

\* The messages of a queue that are pieces, and how the queue's operations
\* change their number.
Answers(s) == {k \in DOMAIN s : s[k].type = "piece"}

LEMMA AnswersFinite ==
  ASSUME NEW S, NEW s \in Seq(S)
  PROVE  IsFiniteSet(Answers(s)) /\ Cardinality(Answers(s)) \in Nat
  <1>1. DOMAIN s = 1 .. Len(s) /\ Len(s) \in Nat
    OBVIOUS
  <1>2. IsFiniteSet(1 .. Len(s))
    BY <1>1, FS_Interval
  <1>3. Answers(s) \in SUBSET (1 .. Len(s))
    BY <1>1 DEF Answers
  <1> QED
    BY <1>2, <1>3, FS_Subset, FS_CardinalityType

LEMMA AnswersAppend ==
  ASSUME NEW S, NEW s \in Seq(S), NEW m
  PROVE  Cardinality(Answers(Append(s, m)))
           <= Cardinality(Answers(s)) + (IF m.type = "piece" THEN 1 ELSE 0)
  <1> DEFINE t == Append(s, m)
             n == Len(s)
  <1>1. /\ n \in Nat /\ DOMAIN s = 1 .. n /\ DOMAIN t = 1 .. n + 1
        /\ \A k \in 1 .. n : t[k] = s[k]
        /\ t[n + 1] = m
    <2>1. s \in Seq(S \cup {m}) /\ m \in S \cup {m}
      BY SeqMonotonic
    <2> QED BY <2>1, AppendProperties, LenProperties
  <1> HIDE DEF t, n
  <1>2. IsFiniteSet(Answers(s)) /\ Cardinality(Answers(s)) \in Nat
    BY AnswersFinite
  <1>3. CASE m.type = "piece"
    <2>1. Answers(t) = Answers(s) \cup {n + 1}
      BY <1>1, <1>3 DEF Answers
    <2>2. n + 1 \notin Answers(s)
      BY <1>1 DEF Answers
    <2>3. Cardinality(Answers(s) \cup {n + 1}) = Cardinality(Answers(s)) + 1
      BY <1>2, <2>2, FS_AddElement
    <2> QED BY <1>2, <1>3, <2>1, <2>3 DEF t
  <1>4. CASE m.type # "piece"
    <2>1. Answers(t) = Answers(s)
      BY <1>1, <1>4 DEF Answers
    <2> QED BY <1>2, <1>4, <2>1 DEF t
  <1> QED BY <1>3, <1>4

LEMMA AnswersTail ==
  ASSUME NEW S, NEW s \in Seq(S), s # << >>
  PROVE  Cardinality(Answers(Tail(s)))
           <= Cardinality(Answers(s)) - (IF Head(s).type = "piece" THEN 1 ELSE 0)
  <1> DEFINE t == Tail(s)
             n == Len(s)
             Rest == Answers(s) \ {1}
             back == [k \in Rest |-> k - 1]
  <1>1. /\ n \in Nat /\ n >= 1 /\ DOMAIN s = 1 .. n /\ DOMAIN t = 1 .. n - 1
        /\ \A k \in 1 .. n - 1 : t[k] = s[k + 1]
        /\ Head(s) = s[1]
    BY HeadTailProperties, EmptySeq, LenProperties
  <1> HIDE DEF t, n
  <1>2. IsFiniteSet(Answers(s)) /\ Cardinality(Answers(s)) \in Nat
    BY AnswersFinite
  <1>3. IsFiniteSet(Rest)
         /\ Cardinality(Rest) = Cardinality(Answers(s)) - (IF Head(s).type = "piece" THEN 1 ELSE 0)
    <2>1. 1 \in Answers(s) <=> Head(s).type = "piece"
      BY <1>1 DEF Answers
    <2>2. /\ IsFiniteSet(Answers(s) \ {1})
          /\ 1 \in Answers(s) => Cardinality(Answers(s) \ {1}) = Cardinality(Answers(s)) - 1
          /\ 1 \notin Answers(s) => Cardinality(Answers(s) \ {1}) = Cardinality(Answers(s))
      BY <1>2, FS_RemoveElement
    <2> QED BY <1>2, <2>1, <2>2
  <1>4. \A k \in Rest : k - 1 \in Answers(t)
    <2> TAKE k \in Rest
    <2>1. k \in 1 .. n /\ k # 1 /\ s[k].type = "piece"
      BY <1>1 DEF Answers
    <2>2. k - 1 \in 1 .. n - 1 /\ (k - 1) + 1 = k
      BY <1>1, <2>1
    <2>3. t[k - 1] = s[k]
      BY <1>1, <2>2
    <2> QED BY <1>1, <2>1, <2>2, <2>3 DEF Answers
  <1>5. \A k \in Answers(t) : k + 1 \in Rest /\ (k + 1) - 1 = k
    <2> TAKE k \in Answers(t)
    <2>1. k \in 1 .. n - 1 /\ t[k].type = "piece"
      BY <1>1 DEF Answers
    <2>2. k + 1 \in 1 .. n /\ k + 1 # 1 /\ (k + 1) - 1 = k
      BY <1>1, <2>1
    <2> QED BY <1>1, <2>1, <2>2 DEF Answers
  <1> HIDE DEF Rest
  <1>6. back \in Surjection(Rest, Answers(t))
    BY <1>4, <1>5, Fun_IsSurj
  <1> QED
    BY <1>2, <1>3, <1>6, FS_Surjection DEF t

LEMMA AnswersCut ==
  ASSUME NEW S, NEW s \in Seq(S), NEW n \in 0 .. Len(s)
  PROVE  Cardinality(Answers(SubSeq(s, 1, n))) <= Cardinality(Answers(s))
  <1>1. DOMAIN s = 1 .. Len(s) /\ Len(s) \in Nat
    OBVIOUS
  <1>2. DOMAIN SubSeq(s, 1, n) = 1 .. n /\ \A k \in 1 .. n : SubSeq(s, 1, n)[k] = s[k]
    BY <1>1
  <1>3. Answers(SubSeq(s, 1, n)) \subseteq Answers(s)
    BY <1>1, <1>2 DEF Answers
  <1> QED
    BY <1>3, AnswersFinite, FS_Subset

\* Requests at the peer and answers on their way are together no more than the
\* window counts, but for one for each deviation: an answer takes the place of
\* its request, and the window counts one less only when an answer was taken.
\* The bound alone is not inductive, since an answer on its way frees a place.
InFlightInv ==
  /\ IsFiniteSet(outstanding)
  /\ Cardinality(outstanding) + Cardinality(Answers(inbox)) <= pending + deviations
  /\ pending <= PipelineDepth
  /\ pc = "begin" => pending = 0

\* Sending a request adds no more than one to what is under way.
LEMMA InFlightSend ==
  ASSUME IsFiniteSet(outstanding), NEW r, NEW next, Send(r, next)
  PROVE  /\ IsFiniteSet(outstanding')
         /\ Cardinality(outstanding') \in Nat /\ Cardinality(outstanding) \in Nat
         /\ Cardinality(outstanding') <= Cardinality(outstanding) + 1
         /\ pc' # "begin" \/ next = "begin"
  <1>1. outstanding' = outstanding \cup {r} \/ outstanding' = outstanding
    BY DEF Send
  <1>2. Cardinality(outstanding) \in Nat
    BY FS_CardinalityType
  <1>3. pc' # "begin" \/ next = "begin"
    BY DEF Send, Throw
  <1> QED
    BY <1>1, <1>2, <1>3, FS_AddElement

LEMMA InFlightClient ==
  ASSUME WindowInv, InFlightInv, TypeOK', Client
  PROVE  InFlightInv'
  <1>1. deviations' = deviations /\ deviations \in Nat
    <2>1. deviations' = deviations
      BY DEF Client, budget, BeginPiece, RejectPiece, FinishRange,
         FillPipeline, StartReceiving, ReceivePiece, CrashOnOverrun, SkipMessage, RejectMessage,
         ReceiveFails, VerifyPiece, HashMismatch
    <2>2. TypeOK
      BY DEF WindowInv
    <2>3. deviations \in Nat
      BY <2>2, TypeNumbers
    <2> QED BY <2>1, <2>3
  <1>2. /\ inbox \in Seq(Messages) /\ pending \in Int /\ PipelineDepth \in Nat
        /\ sendIdx \in Nat /\ blocksReceived \in Nat
    BY TransferAssumption DEF WindowInv, TypeOK
  <1>3. Cardinality(Answers(inbox)) \in Nat /\ Cardinality(outstanding) \in Nat
    BY <1>2, AnswersFinite, FS_CardinalityType DEF InFlightInv
  <1>4. CASE BeginPiece \/ RejectPiece \/ FinishRange \/ StartReceiving \/ ReceiveFails \/ HashMismatch
    BY <1>1, <1>4 DEF BeginPiece, RejectPiece, FinishRange, StartReceiving, ReceiveFails,
       HashMismatch, Throw, InFlightInv, locals, net, Complete, Receiving
  <1>5. CASE FillPipeline
    <2>1. /\ Send(RequestFor(pi, sendIdx), "fill") /\ pending' = pending + 1
          /\ pending < PipelineDepth /\ inbox' = inbox
      BY <1>5 DEF FillPipeline, CanSend
    <2>2. /\ IsFiniteSet(outstanding') /\ Cardinality(outstanding') \in Nat
          /\ Cardinality(outstanding') <= Cardinality(outstanding) + 1 /\ pc' # "begin"
      BY <2>1, InFlightSend DEF InFlightInv
    <2>3. pending' <= PipelineDepth
      BY <1>2, <2>1
    <2> QED BY <1>1, <1>2, <1>3, <2>1, <2>2, <2>3 DEF InFlightInv
  <1>6. CASE ReceivePiece
    <2>1. /\ inbox # << >> /\ Head(inbox).type = "piece" /\ inbox' = Tail(inbox) /\ pc = "recv"
          /\ \E p \in {pending - 1, pending} : FollowUp(p)
      BY <1>6 DEF ReceivePiece, Receiving
    <2>2. PICK p \in {pending - 1, pending} : FollowUp(p)
      BY <2>1
    <2>3. Cardinality(Answers(inbox')) <= Cardinality(Answers(inbox)) - 1
      BY <1>2, <2>1, AnswersTail
    <2>4. Cardinality(Answers(inbox')) \in Nat
      BY AnswersFinite DEF TypeOK
    <2>5. CASE CanSend(p)
      <3>1. /\ Send(RequestFor(pi, sendIdx), "recv") /\ pending' = p + 1 /\ p < PipelineDepth
        BY <2>2, <2>5 DEF FollowUp, CanSend
      <3>2. /\ IsFiniteSet(outstanding') /\ Cardinality(outstanding') \in Nat
            /\ Cardinality(outstanding') <= Cardinality(outstanding) + 1 /\ pc' # "begin"
        BY <3>1, InFlightSend DEF InFlightInv
      <3>3. /\ pending' <= PipelineDepth /\ pending' >= pending
        BY <1>2, <2>2, <3>1
      <3> QED BY <1>1, <1>2, <1>3, <2>3, <2>4, <3>1, <3>2, <3>3 DEF InFlightInv
    <2>6. CASE ~CanSend(p)
      <3>1. pending' = p /\ UNCHANGED <<pc, outstanding>>
        BY <2>2, <2>6 DEF FollowUp
      <3>2. pending' <= PipelineDepth /\ pending' >= pending - 1
        BY <1>2, <2>2, <3>1 DEF InFlightInv
      <3> QED BY <1>1, <1>2, <1>3, <2>1, <2>3, <2>4, <3>1, <3>2 DEF InFlightInv
    <2> QED BY <2>5, <2>6
  <1>7. CASE CrashOnOverrun \/ SkipMessage \/ RejectMessage
    <2>1. /\ inbox # << >> /\ inbox' = Tail(inbox) /\ UNCHANGED <<pending, outstanding>>
          /\ pc' # "begin"
      BY <1>7 DEF CrashOnOverrun, SkipMessage, RejectMessage, Receiving, Throw, locals
    <2>2. Cardinality(Answers(inbox')) <= Cardinality(Answers(inbox))
      <3>1. Cardinality(Answers(Tail(inbox)))
              <= Cardinality(Answers(inbox)) - (IF Head(inbox).type = "piece" THEN 1 ELSE 0)
        BY <1>2, <2>1, AnswersTail
      <3>2. Cardinality(Answers(inbox')) \in Nat
        BY AnswersFinite DEF TypeOK
      <3> QED BY <1>3, <2>1, <3>1, <3>2
    <2>3. Cardinality(Answers(inbox')) \in Nat
      BY AnswersFinite DEF TypeOK
    <2> QED BY <1>1, <1>2, <1>3, <2>1, <2>2, <2>3 DEF InFlightInv
  <1>8. CASE VerifyPiece
    <2>1. /\ Active /\ blocksReceived >= NumBlocks(pi) /\ pending' = 0
          /\ UNCHANGED <<outstanding, inbox>>
      BY <1>8 DEF VerifyPiece, Complete, Active, net
    <2>2. sendIdx <= NumBlocks(pi) /\ pending = sendIdx - blocksReceived /\ pending >= 0
      BY <2>1 DEF WindowInv, TypeOK, WindowAccounting
    <2>3. NumBlocks(pi) \in Nat
      BY <2>1, ReceivedFinite DEF WindowInv
    <2>4. pending = 0
      BY <1>2, <2>1, <2>2, <2>3
    <2> QED BY <1>1, <2>1, <2>4 DEF InFlightInv
  <1> QED
    BY <1>4, <1>5, <1>6, <1>7, <1>8 DEF Client

LEMMA InFlightPeer ==
  ASSUME TypeOK, InFlightInv, TypeOK', Peer
  PROVE  InFlightInv'
  <1>1. UNCHANGED <<pc, pending>>
    BY PeerLeavesClient
  <1>2. inbox \in Seq(Messages) /\ pending \in Int /\ deviations \in Nat
    <2>1. pending \in Int /\ deviations \in Nat
      BY TypeNumbers
    <2> QED BY <2>1 DEF TypeOK
  <1>3. /\ Cardinality(Answers(inbox)) \in Nat /\ Cardinality(outstanding) \in Nat
        /\ Cardinality(Answers(inbox')) \in Nat
    BY <1>2, AnswersFinite, FS_CardinalityType DEF InFlightInv, TypeOK
  <1>4. ASSUME NEW r \in outstanding, NEW m, outstanding' = outstanding \ {r}, Deliver(m),
               deviations' \in {deviations, deviations + 1}
        PROVE  InFlightInv'
    <2>1. IsFiniteSet(outstanding') /\ Cardinality(outstanding') = Cardinality(outstanding) - 1
      BY <1>4, FS_RemoveElement DEF InFlightInv
    <2>2. Cardinality(Answers(inbox')) <= Cardinality(Answers(inbox)) + 1
      <3>1. Cardinality(Answers(inbox'))
              <= Cardinality(Answers(inbox)) + (IF m.type = "piece" THEN 1 ELSE 0)
        BY <1>2, <1>4, AnswersAppend DEF Deliver
      <3> QED BY <1>3, <3>1
    <2> QED BY <1>1, <1>2, <1>3, <1>4, <2>1, <2>2 DEF InFlightInv
  <1>5. CASE PeerAnswer
    <2>1. deviations' = deviations
      BY <1>5 DEF PeerAnswer, budget
    <2>2. PICK r \in outstanding :
            outstanding' = outstanding \ {r} /\ Deliver(PieceMsg(r, Requested(r)))
      BY <1>5 DEF PeerAnswer
    <2> QED BY <1>4, <2>1, <2>2
  <1>6. CASE PeerCorrupt
    <2>1. deviations' = deviations + 1
      BY <1>6 DEF PeerCorrupt, Deviate
    <2>2. \E r \in outstanding : \E m : outstanding' = outstanding \ {r} /\ Deliver(m)
      BY <1>6 DEF PeerCorrupt
    <2> QED BY <1>4, <2>1, <2>2
  <1>7. CASE PeerShort
    <2>1. deviations' = deviations + 1
      BY <1>7 DEF PeerShort, Deviate
    <2>2. \E r \in outstanding : \E m : outstanding' = outstanding \ {r} /\ Deliver(m)
      BY <1>7 DEF PeerShort
    <2> QED BY <1>4, <2>1, <2>2
  <1>12. CASE PeerOversize
    <2>1. deviations' = deviations + 1
      BY <1>12 DEF PeerOversize, Deviate
    <2>2. \E r \in outstanding : \E m : outstanding' = outstanding \ {r} /\ Deliver(m)
      BY <1>12 DEF PeerOversize
    <2> QED BY <1>4, <2>1, <2>2
  <1>8. CASE PeerUnsolicited
    <2>1. deviations' = deviations + 1 /\ UNCHANGED outstanding
      BY <1>8 DEF PeerUnsolicited, Deviate
    <2>2. PICK m : Deliver(m)
      BY <1>8 DEF PeerUnsolicited
    <2>3. Cardinality(Answers(inbox')) <= Cardinality(Answers(inbox)) + 1
      <3>1. Cardinality(Answers(inbox'))
              <= Cardinality(Answers(inbox)) + (IF m.type = "piece" THEN 1 ELSE 0)
        BY <1>2, <2>2, AnswersAppend DEF Deliver
      <3> QED BY <1>3, <3>1
    <2> QED BY <1>1, <1>2, <1>3, <2>1, <2>3 DEF InFlightInv
  <1>9. CASE PeerControl
    <2>1. UNCHANGED <<outstanding, deviations>>
      BY <1>9 DEF PeerControl
    <2>2. PICK k \in ControlKinds : Deliver([type |-> k])
      BY <1>9 DEF PeerControl
    <2>3. [type |-> k].type # "piece"
      BY TransferAssumption DEF SkippedKinds, UnknownKinds
    <2>4. Cardinality(Answers(inbox')) <= Cardinality(Answers(inbox)) + 0
      BY <1>2, <2>2, <2>3, AnswersAppend DEF Deliver
    <2> QED BY <1>1, <1>2, <1>3, <2>1, <2>4 DEF InFlightInv
  <1>10. CASE PeerClose \/ RstArrives
    BY <1>1, <1>10 DEF PeerClose, RstArrives, budget, InFlightInv
  <1>11. CASE PeerReset
    <2>1. UNCHANGED <<outstanding, deviations>> /\ \E n \in 0 .. Len(inbox) : inbox' = SubSeq(inbox, 1, n)
      BY <1>11 DEF PeerReset, budget
    <2>2. Cardinality(Answers(inbox')) <= Cardinality(Answers(inbox))
      BY <1>2, <2>1, AnswersCut
    <2> QED BY <1>1, <1>2, <1>3, <2>1, <2>2 DEF InFlightInv
  <1> QED
    BY <1>5, <1>6, <1>7, <1>8, <1>9, <1>10, <1>11, <1>12 DEF Peer

\* The peer never holds more requests than the window is deep, but for one for
\* each block that it sent without being asked or not as it was asked.
THEOREM RequestsAreBounded == Spec => []InFlightBound
  <1>1. Init => InFlightInv
    <2> SUFFICES ASSUME Init PROVE InFlightInv
      OBVIOUS
    <2>1. outstanding = {} /\ inbox = << >> /\ pending = 0 /\ deviations = 0
      BY DEF Init
    <2>2. Answers(inbox) = {}
      BY <2>1 DEF Answers
    <2>3. PipelineDepth \in Nat
      BY TransferAssumption
    <2> QED BY <2>1, <2>2, <2>3, FS_EmptySet DEF InFlightInv
  <1>2. WindowInv /\ TypeOK' /\ InFlightInv /\ [Next]_vars => InFlightInv'
    <2> SUFFICES ASSUME WindowInv, TypeOK', InFlightInv, [Next]_vars PROVE InFlightInv'
      OBVIOUS
    <2>1. CASE Client
      BY <2>1, InFlightClient
    <2>2. CASE Peer
      BY <2>2, InFlightPeer DEF WindowInv
    <2>3. CASE UNCHANGED vars
      BY <2>3 DEF InFlightInv, vars, locals, net, budget
    <2> QED BY <2>1, <2>2, <2>3 DEF Next, Stopped
  <1>3. TypeOK /\ InFlightInv => InFlightBound
    <2> SUFFICES ASSUME TypeOK, InFlightInv PROVE InFlightBound
      OBVIOUS
    <2>1. Cardinality(Answers(inbox)) \in Nat /\ Cardinality(outstanding) \in Nat
      BY AnswersFinite, FS_CardinalityType DEF InFlightInv, TypeOK
    <2>2. pending \in Int /\ deviations \in Nat /\ PipelineDepth \in Nat
      BY TypeNumbers
    <2> QED BY <2>1, <2>2 DEF InFlightInv, InFlightBound
  <1> QED
    BY <1>1, <1>2, <1>3, WindowInvariant, TypeCorrect, PTL DEF Spec

=============================================================================
