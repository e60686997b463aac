--------------------------- MODULE PieceTransfer ---------------------------
(***************************************************************************)
(* One peer connection of a download: a worker takes the pieces            *)
(* Start .. End-1 one after the other over it, each by                     *)
(* peer::download_piece_on_connection, which keeps up to PipelineDepth     *)
(* block requests in flight, copies the blocks as they come and verifies   *)
(* the hash of the whole piece.                                            *)
(*                                                                         *)
(* The other side of the connection is external.  A conforming peer        *)
(* answers every request once, in any order, and may send other messages   *)
(* of the protocol in between; PeerEvents says which deviations and        *)
(* failures an instance adds.                                              *)
(***************************************************************************)
EXTENDS PieceLayout, Sequences, FiniteSets

CONSTANTS
  Start, End,       \* the worker's pieces are Start .. End-1
  Bitfields,        \* the sets of pieces the peer may have
  PipelineDepth,    \* message::kPipelineDepth
  HandedOver,       \* the states it may be handed over in, of AllHandovers
  PeerEvents,       \* subset of AllPeerEvents
  ControlKinds,     \* messages other than Piece the peer may send
  MaxBlock,         \* bound on the bytes of a block the peer sends
  MaxDeviations,    \* bound on unsolicited, corrupt, short and oversize blocks
  MaxControls       \* bound on control messages

AllPeerEvents ==
  {"unsolicited", "corrupt", "short", "oversize", "close", "reset"}

\* The connection is as establish_connection leaves it: a peer that sent its
\* unchoke unasked and closed has answered "interested" by a reset, which is on
\* its way or has come.
AllHandovers == {"open", "rst pending", "broken"}

\* Messages the receive loop skips: those decode knows and the loop ignores,
\* and the keep-alive, which recv_message swallows.
SkippedKinds ==
  {"keep-alive", "unchoke", "interested", "bitfield", "request", "extended"}

\* Messages of the protocol decode has no case for.
UnknownKinds == {"choke", "not interested", "have", "cancel"}

ASSUME TransferAssumption ==
  /\ Start \in Nat /\ End \in Nat
  /\ Start <= End /\ End <= NumPieces
  /\ Bitfields \subseteq SUBSET Pieces
  /\ PipelineDepth \in Nat \ {0}
  /\ HandedOver \subseteq AllHandovers
  /\ PeerEvents \subseteq AllPeerEvents
  /\ ControlKinds \subseteq SkippedKinds \cup UnknownKinds
  /\ MaxBlock \in Nat /\ MaxBlock >= BlockSize
  /\ MaxDeviations \in Nat /\ MaxControls \in Nat

VARIABLES
  pc,               \* "begin", "fill", "recv", "done", "failed" or "killed"
  pi,               \* piece_index
  received,         \* the blocks i with received[i]
  blocksReceived,   \* blocks_received
  sendIdx,          \* send_idx
  pending,          \* pending
  pieceData,        \* piece_data
  delivered,        \* the pieces returned to the worker
  bitfield,         \* the pieces set in the bitfield of the connection
  error,            \* what was thrown, "none" before
  outstanding,      \* requests the peer has and has not answered
  inbox,            \* messages on their way to the client
  conn,             \* state of the TCP connection, see Send
  deviations, controls   \* how many the peer has used up

locals == <<received, blocksReceived, sendIdx, pending, pieceData>>
worker == <<pi, delivered, bitfield>>
net    == <<outstanding, inbox, conn>>
budget == <<deviations, controls>>
vars   == <<pc, error, locals, worker, net, budget>>

Terminal == {"done", "failed", "killed"}

Init ==
  /\ pc = "begin" /\ pi = Start /\ error = "none"
  /\ received = {} /\ blocksReceived = 0 /\ sendIdx = 0 /\ pending = 0
  /\ pieceData = << >>
  /\ delivered = << >> /\ bitfield \in Bitfields
  /\ outstanding = {} /\ inbox = << >> /\ conn \in HandedOver
  /\ deviations = 0 /\ controls = 0

----------------------------------------------------------------------------
(* Messages *)

RequestFor(p, i) ==
  [index |-> p, begin |-> BlockBegin(i), length |-> BlockLength(p, i)]

\* The bytes a request asks for; Junk is a byte that is not the file's.
Junk == -2
Requested(r) == [o \in 0 .. r.length - 1 |-> PieceOffset(r.index) + r.begin + o]

PieceMsg(r, bytes) ==
  [type |-> "piece", index |-> r.index, begin |-> r.begin, block |-> bytes]

----------------------------------------------------------------------------
(* The client *)

Throw(e) == pc' = "failed" /\ error' = e

(***************************************************************************)
(* util::send_all of one request.  While the connection is open the peer   *)
(* gets it.  After the peer has closed, the first send succeeds and is     *)
(* answered by a reset; a send after that reset raises SIGPIPE, because    *)
(* ::send is called without MSG_NOSIGNAL.  After an abortive reset the     *)
(* send fails and send_all throws.                                         *)
(***************************************************************************)
Send(r, next) ==
  \/ /\ conn = "open"
     /\ outstanding' = outstanding \cup {r}
     /\ pc' = next
     /\ UNCHANGED <<conn, error>>
  \/ /\ conn \in {"finished", "rst pending"}
     /\ conn' = "rst pending"
     /\ pc' = next
     /\ UNCHANGED <<outstanding, error>>
  \/ /\ conn = "reset"
     /\ Throw("send")
     /\ UNCHANGED <<outstanding, conn>>
  \/ /\ conn = "broken"
     /\ pc' = "killed"
     /\ UNCHANGED <<outstanding, conn, error>>

\* The call for the next piece of the range, up to the first request.
BeginPiece ==
  /\ pc = "begin" /\ pi < End
  /\ pi \in bitfield
  /\ pc' = "fill"
  /\ received' = {} /\ blocksReceived' = 0 /\ sendIdx' = 0 /\ pending' = 0
  /\ pieceData' = EmptyBuffer(pi)
  /\ UNCHANGED <<error, worker, net, budget>>

RejectPiece ==
  /\ pc = "begin" /\ pi < End
  /\ pi \notin bitfield
  /\ Throw("no piece")
  /\ UNCHANGED <<locals, worker, net, budget>>

\* Fault: the loop over the range stops one piece early.
FinishRangeEarly ==
  /\ pc = "begin" /\ pi >= End - 1
  /\ pc' = "done"
  /\ UNCHANGED <<error, locals, worker, net, budget>>

FinishRange ==
  /\ pc = "begin" /\ pi >= End
  /\ pc' = "done"
  /\ UNCHANGED <<error, locals, worker, net, budget>>

\* Faults: the bound on the blocks forgotten; the depth exceeded by one.
CanSendUnbounded(p) == p < PipelineDepth
CanSendOneMore(p)   == p <= PipelineDepth /\ sendIdx < NumBlocks(pi)

CanSend(p) == p < PipelineDepth /\ sendIdx < NumBlocks(pi)

FillPipeline ==
  /\ pc = "fill"
  /\ CanSend(pending)
  /\ Send(RequestFor(pi, sendIdx), "fill")
  /\ sendIdx' = sendIdx + 1
  /\ pending' = pending + 1
  /\ UNCHANGED <<received, blocksReceived, pieceData, worker, inbox, budget>>

StartReceiving ==
  /\ pc = "fill"
  /\ ~CanSend(pending)
  /\ pc' = "recv"
  /\ UNCHANGED <<error, locals, worker, net, budget>>

Receiving == pc = "recv" /\ blocksReceived < NumBlocks(pi)

\* Fault: the flag of the block is not looked at.
MatchingAnyBlock(m) == {i \in Blocks(pi) : BlockBegin(i) = m.begin}

\* The block the search loop finds: by its begin alone, among the missing.
Matching(m) == {i \in Blocks(pi) \ received : BlockBegin(i) = m.begin}

\* Fault: every block is copied to the start of the buffer.
CopyBlockToStart(data, m) ==
  [o \in DOMAIN data |-> IF o \in DOMAIN m.block THEN m.block[o] ELSE data[o]]

\* std::ranges::copy of the bytes that came, as many as came.
CopyBlock(data, m) ==
  [o \in DOMAIN data |->
     IF o - m.begin \in DOMAIN m.block THEN m.block[o - m.begin] ELSE data[o]]

\* Fault: the window is not refilled.
FollowUpNever(p) ==
  /\ pending' = p
  /\ UNCHANGED <<pc, error, sendIdx, outstanding, conn>>

\* The next request, when the window has room after a message is handled.
FollowUp(p) ==
  IF CanSend(p)
  THEN /\ Send(RequestFor(pi, sendIdx), "recv")
       /\ sendIdx' = sendIdx + 1
       /\ pending' = p + 1
  ELSE /\ pending' = p
       /\ UNCHANGED <<pc, error, sendIdx, outstanding, conn>>

ReceivePiece ==
  /\ Receiving
  /\ inbox # << >> /\ Head(inbox).type = "piece"
  /\ LET m == Head(inbox)
     IN  \/ /\ Matching(m) # {}
            /\ received' = received \cup Matching(m)
            /\ blocksReceived' = blocksReceived + 1
            /\ pieceData' = CopyBlock(pieceData, m)
            /\ FollowUp(pending - 1)
         \/ /\ Matching(m) = {}
            /\ FollowUp(pending)
            /\ UNCHANGED <<received, blocksReceived, pieceData>>
  /\ inbox' = Tail(inbox)
  /\ UNCHANGED <<worker, budget>>

\* A block longer than what is left of the buffer is copied past its end:
\* undefined, either nothing more happens or the corrupted heap aborts.
CrashOnOverrun ==
  /\ Receiving
  /\ inbox # << >> /\ Head(inbox).type = "piece"
  /\ Matching(Head(inbox)) # {}
  /\ \E o \in DOMAIN Head(inbox).block :
       Head(inbox).begin + o \notin DOMAIN pieceData
  /\ inbox' = Tail(inbox)
  /\ pc' = "killed"
  /\ UNCHANGED <<error, locals, worker, outstanding, conn, budget>>

SkipMessage ==
  /\ Receiving
  /\ inbox # << >> /\ Head(inbox).type \in SkippedKinds
  /\ inbox' = Tail(inbox)
  /\ UNCHANGED <<pc, error, locals, worker, outstanding, conn, budget>>

RejectMessage ==
  /\ Receiving
  /\ inbox # << >> /\ Head(inbox).type \in UnknownKinds
  /\ inbox' = Tail(inbox)
  /\ Throw("unknown message id")
  /\ UNCHANGED <<locals, worker, outstanding, conn, budget>>

\* recv_all gets 0 or an error once what was received has been read.
ReceiveFails ==
  /\ Receiving
  /\ inbox = << >> /\ conn # "open"
  /\ Throw("recv")
  /\ UNCHANGED <<locals, worker, net, budget>>

\* Fault: the hash is not compared.
HashMatchesAlways == TRUE

\* util::sha1_hex(piece_data) against piece_hashes_[piece_index].
HashMatches == pieceData = Content(pi)

Complete == pc = "recv" /\ blocksReceived >= NumBlocks(pi)

VerifyPiece ==
  /\ Complete
  /\ HashMatches
  /\ delivered' = Append(delivered, pieceData)
  /\ pi' = pi + 1
  /\ pc' = "begin"
  /\ received' = {} /\ blocksReceived' = 0 /\ sendIdx' = 0 /\ pending' = 0
  /\ pieceData' = << >>
  /\ UNCHANGED <<error, bitfield, net, budget>>

HashMismatch ==
  /\ Complete
  /\ ~HashMatches
  /\ Throw("piece hash mismatch")
  /\ UNCHANGED <<locals, worker, net, budget>>

Client ==
  \/ BeginPiece \/ RejectPiece \/ FinishRange
  \/ FillPipeline \/ StartReceiving
  \/ ReceivePiece \/ CrashOnOverrun \/ SkipMessage \/ RejectMessage \/ ReceiveFails
  \/ VerifyPiece \/ HashMismatch

----------------------------------------------------------------------------
(* The peer and the network *)

Deliver(m) == inbox' = Append(inbox, m)

Deviate(kind) ==
  /\ kind \in PeerEvents
  /\ deviations < MaxDeviations
  /\ deviations' = deviations + 1

PeerAnswer ==
  /\ conn = "open"
  /\ \E r \in outstanding :
       /\ outstanding' = outstanding \ {r}
       /\ Deliver(PieceMsg(r, Requested(r)))
  /\ UNCHANGED <<pc, error, locals, worker, conn, budget>>

PeerCorrupt ==
  /\ conn = "open"
  /\ Deviate("corrupt")
  /\ \E r \in outstanding :
       /\ outstanding' = outstanding \ {r}
       /\ Deliver(PieceMsg(r, [o \in 0 .. r.length - 1 |-> Junk]))
  /\ UNCHANGED <<pc, error, locals, worker, conn, controls>>

PeerShort ==
  /\ conn = "open"
  /\ Deviate("short")
  /\ \E r \in outstanding : \E n \in 0 .. r.length - 1 :
       /\ outstanding' = outstanding \ {r}
       /\ Deliver(PieceMsg(r, [o \in 0 .. n - 1 |-> Requested(r)[o]]))
  /\ UNCHANGED <<pc, error, locals, worker, conn, controls>>

\* A block longer than was asked for: the bytes of the request, then others.
\* message::decode takes the length of the block from that of the frame.
PeerOversize ==
  /\ conn = "open"
  /\ Deviate("oversize")
  /\ \E r \in outstanding : \E n \in r.length + 1 .. MaxBlock :
       /\ outstanding' = outstanding \ {r}
       /\ Deliver(PieceMsg(r, [o \in 0 .. n - 1 |->
                                IF o < r.length THEN Requested(r)[o] ELSE Junk]))
  /\ UNCHANGED <<pc, error, locals, worker, conn, controls>>

\* A block nobody asked for, or one that was already sent: of this piece, of
\* an earlier or of a later one.
PeerUnsolicited ==
  /\ conn = "open"
  /\ Deviate("unsolicited")
  /\ \E p \in bitfield : \E i \in Blocks(p) :
       Deliver(PieceMsg(RequestFor(p, i), Requested(RequestFor(p, i))))
  /\ UNCHANGED <<pc, error, locals, worker, outstanding, conn, controls>>

PeerControl ==
  /\ conn = "open"
  /\ controls < MaxControls
  /\ \E k \in ControlKinds : Deliver([type |-> k])
  /\ controls' = controls + 1
  /\ UNCHANGED <<pc, error, locals, worker, outstanding, conn, deviations>>

\* An orderly close: what was sent before it still arrives.
PeerClose ==
  /\ conn = "open" /\ "close" \in PeerEvents
  /\ conn' = "finished"
  /\ UNCHANGED <<pc, error, locals, worker, outstanding, inbox, budget>>

\* An abortive one: what is still on its way may be lost.
PeerReset ==
  /\ conn = "open" /\ "reset" \in PeerEvents
  /\ conn' = "reset"
  /\ \E n \in 0 .. Len(inbox) : inbox' = SubSeq(inbox, 1, n)
  /\ UNCHANGED <<pc, error, locals, worker, outstanding, budget>>

RstArrives ==
  /\ conn = "rst pending"
  /\ conn' = "broken"
  /\ UNCHANGED <<pc, error, locals, worker, outstanding, inbox, budget>>

Peer ==
  /\ pc \notin Terminal
  /\ \/ PeerAnswer \/ PeerCorrupt \/ PeerShort \/ PeerOversize
     \/ PeerUnsolicited \/ PeerControl \/ PeerClose \/ PeerReset \/ RstArrives

\* The worker has left its loop: nothing more happens on this connection.
Stopped == pc \in Terminal /\ UNCHANGED vars

Next == Client \/ Peer \/ Stopped

Spec == Init /\ [][Next]_vars

\* The client's thread keeps running; a conforming peer keeps answering.
Fairness == WF_vars(Client) /\ WF_vars(Peer /\ PeerAnswer)

LiveSpec == Spec /\ Fairness

----------------------------------------------------------------------------
(* Properties *)

Bytes     == {Zero, Junk} \cup 0 .. Length - 1
BlockData == UNION {[0 .. n - 1 -> Bytes] : n \in 0 .. MaxBlock}

Messages ==
  [type : SkippedKinds \cup UnknownKinds]
    \cup [type : {"piece"}, index : Pieces, begin : Nat, block : BlockData]

Active == pc \in {"fill", "recv"}

\* Every variable keeps to its set; the locals of a call are alive while the
\* call runs.
TypeOK ==
  /\ pc \in {"begin", "fill", "recv"} \cup Terminal
  /\ pi \in Start .. End
  /\ received \subseteq Nat
  /\ blocksReceived \in Nat /\ sendIdx \in Nat /\ pending \in Int
  /\ Active =>
       /\ pi < End
       /\ received \subseteq Blocks(pi)
       /\ sendIdx <= NumBlocks(pi)
       /\ pieceData \in [Offsets(pi) -> Bytes]
  /\ delivered \in Seq({Content(p) : p \in Pieces}) /\ bitfield \subseteq Pieces
  /\ error \in {"none", "no piece", "send", "recv", "unknown message id",
                "piece hash mismatch"}
  /\ \A r \in outstanding :
       \E p \in Pieces : \E i \in Blocks(p) : r = RequestFor(p, i)
  /\ inbox \in Seq(Messages)
  /\ conn \in {"open", "finished", "rst pending", "broken", "reset"}
  /\ deviations \in 0 .. MaxDeviations /\ controls \in 0 .. MaxControls

\* The counters of the loop agree with each other and with the flags: the
\* window never exceeds its depth and never goes negative, whatever order or
\* however often blocks come.
WindowAccounting ==
  Active =>
    /\ blocksReceived = Cardinality(received)
    /\ pending = sendIdx - blocksReceived
    /\ 0 <= pending /\ pending <= PipelineDepth

\* The code counts a request as answered when any block with its begin
\* comes, so the requests the peer still holds can exceed the depth, but
\* only by the blocks the peer sent unasked (README: "up to 5 block
\* requests in-flight per piece").
InFlightBound ==
  Cardinality(outstanding) <= PipelineDepth + deviations

\* Every request of this piece sent so far was answered, waits at the peer,
\* or has its answer on the way.
RequestsInPlay ==
  Active /\ conn = "open" =>
    \A i \in 0 .. sendIdx - 1 :
      \/ i \in received
      \/ RequestFor(pi, i) \in outstanding
      \/ \E k \in DOMAIN inbox :
           inbox[k].type = "piece" /\ inbox[k].begin = BlockBegin(i)

\* While receiving, the window is full or everything has been requested.
WindowFull ==
  pc = "recv" => pending = PipelineDepth \/ sendIdx = NumBlocks(pi)

\* A request, or an answer, for a block of the piece being fetched that was
\* requested and is missing.
ExpectedRequest(r) ==
  \E i \in 0 .. sendIdx - 1 : i \notin received /\ r = RequestFor(pi, i)

ExpectedAnswer(m) ==
  \E i \in 0 .. sendIdx - 1 :
    /\ i \notin received
    /\ m = PieceMsg(RequestFor(pi, i), Requested(RequestFor(pi, i)))

\* The blocks that were received hold the bytes of the torrent.
BufferRight ==
  \A i \in received : \A o \in 0 .. BlockLength(pi, i) - 1 :
    pieceData[BlockBegin(i) + o] = PieceOffset(pi) + BlockBegin(i) + o

IsPiece(k) == inbox[k].type = "piece"

\* Everything on the connection is expected, and each block once.
ExpectedExchange ==
  /\ received \subseteq 0 .. sendIdx - 1
  /\ \A r \in outstanding : ExpectedRequest(r)
  /\ \A k \in DOMAIN inbox : IsPiece(k) => ExpectedAnswer(inbox[k])
  /\ \A j, k \in DOMAIN inbox :
       j # k /\ IsPiece(j) /\ IsPiece(k) => inbox[j].begin # inbox[k].begin
  /\ \A r \in outstanding : \A k \in DOMAIN inbox :
       IsPiece(k) => inbox[k].begin # r.begin
  /\ pc = "begin" => sendIdx = 0
  /\ Active => BufferRight

\* So it is as long as the peer conforms.
ConformingExchange == deviations = 0 => ExpectedExchange

Waiting == Receiving /\ inbox = << >> /\ conn = "open"

\* When the client blocks in recv_message for a block, the peer holds a
\* request for a block that is still missing: the two never wait for each
\* other.
NoStall ==
  Waiting => \E i \in Blocks(pi) \ received : RequestFor(pi, i) \in outstanding

\* What the worker gets is the torrent's pieces, in order, whatever came.
VerifiedDelivery ==
  /\ Len(delivered) = pi - Start
  /\ \A k \in 1 .. Len(delivered) : delivered[k] = Content(Start + k - 1)

\* A peer that answers each request once with the right bytes, in any order
\* and with any message in between, never makes a piece fail its hash; and
\* while its connection is up no send or receive fails.
FailureBlamesPeer ==
  deviations = 0 =>
    /\ error # "piece hash mismatch"
    /\ conn = "open" => error \notin {"send", "recv"} /\ pc # "killed"

\* The message read next holds byte o of the piece, beyond the BlockSize
\* bytes a block can have.
Overlong(o) ==
  /\ inbox # << >> /\ Head(inbox).type = "piece"
  /\ o - Head(inbox).begin \in DOMAIN Head(inbox).block
  /\ o - Head(inbox).begin >= BlockSize

\* A block that was accepted stays accepted, and a later message changes a
\* byte of it only where a block longer than BlockSize runs into it: the copy
\* looks at no length.  Neither a repeated block nor one of another piece, a
\* short or a wrong one touches it, nor does the part of an overlong block
\* that has a right to be there.
AcceptedBlocksStable ==
  [][\A i \in received :
       pc = "recv" /\ pc' = "recv" =>
         /\ i \in received'
         /\ \A o \in BlockBegin(i) .. BlockBegin(i) + BlockLength(pi, i) - 1 :
              pieceData'[o] # pieceData[o] => Overlong(o)]_vars

\* The pieces a peer can provide before the first one it lacks.
Provided == {p \in Start .. End - 1 : Start .. p \subseteq bitfield}

\* With a peer that answers, the worker's loop comes to an end; and unless the
\* peer deviates, goes away or sends a message the client does not know, it
\* ends with every piece the peer has, up to the first it lacks.
Completes ==
  <>(/\ pc \in Terminal
     /\ deviations = 0 /\ conn = "open" /\ error # "unknown message id" =>
          /\ delivered = [k \in 1 .. Cardinality(Provided) |-> Content(Start + k - 1)]
          /\ pc = "done" <=> Provided = Start .. End - 1)

Service == INSTANCE PieceService WITH
  served <- delivered,
  status <- IF pc \in Terminal THEN pc ELSE "running"

\* The transfer is an implementation of the service the download relies on.
ImplementsService == Service!Spec

(* What the repository's documentation says *)

\* README: "interest/choke state machine".
ChokeIsNotAnError == error # "unknown message id"

\* socket.cpp: send_all throws "send failed"; main.cpp catches and reports.
SendFailureThrows == pc # "killed"

=============================================================================
