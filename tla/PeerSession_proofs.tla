-------------------------- MODULE PeerSession_proofs --------------------------
(***************************************************************************)
(* Theorems about PeerSession, for every set of modes, peers and messages. *)
(*                                                                         *)
(* SessionInv says which messages can be on their way, and in which order  *)
(* the first of them come: from it follow what the peer can understand,    *)
(* and what the client has been told when it goes on.  TurnsInv says who   *)
(* has sent what by when, WaitInv that nothing sent is lost while the      *)
(* connection is open: what a waiting client asked for is on its way, or   *)
(* the peer is still to say it.                                            *)
(***************************************************************************)
EXTENDS PeerSession, SequenceTheorems, TLAPS

----------------------------------------------------------------------------
(* The invariant *)

Labels ==
  {"handshake", "interested", "negotiate", "request"} \cup Awaits \cup Terminal

\* What the client may send: extension messages only once both have agreed on
\* them, one of them under the id of the peer.
Greeting == [type |-> "handshake"]
Requests ==
  IF Agreed
  THEN {[type |-> "extended", id |-> 0], [type |-> "extended", id |-> ToByte(peer.metadataId)]}
  ELSE {}
Outgoing == {Greeting, [type |-> "interested"]} \cup Requests

\* What the peer may send.
Reply == [type |-> "handshake", protocol |-> peer.protocol, extensions |-> peer.extensions]
PeerHello ==
  [type |-> "extended", id |-> 0, metadataId |-> peer.metadataId,
   payload |-> IF peer.metadata = "not offered" THEN "bare handshake" ELSE "handshake"]
Metadata == [type |-> "extended", id |-> OurExtId, payload |-> peer.metadata]
Answers ==
  {Reply, PeerHello, Metadata, [type |-> "bitfield"], [type |-> "unchoke"]}
    \cup {[type |-> k] : k \in ControlKinds}

TypeOK ==
  /\ mode \in Modes /\ peer \in PeerKinds
  /\ pc \in Labels
  /\ hasExt \in BOOLEAN
  /\ peerExtId \in {NoId, ToByte(peer.metadataId)}
  /\ toPeer \in Seq(Outgoing) /\ toClient \in Seq(Answers)
  /\ conn \in {"open", "finished", "rst pending", "broken", "reset"}
  /\ heard \subseteq {Meaning(m) : m \in Outgoing}
  /\ sent \subseteq {"handshake", "bitfield", "extended", "unchoke", "metadata"}

\* The reply to the handshake comes before everything else: the client has
\* sent nothing but its handshake before, and what it reads first is the reply.
ReplyFirst ==
  /\ "handshake" \notin sent =>
       sent = {} /\ toClient = << >> /\ toPeer \in Seq({Greeting}) /\ heard \subseteq {"handshake"}
  /\ "handshake" \in sent => "handshake" \in heard
  /\ pc = "handshake" => toPeer = << >> /\ heard = {} /\ "handshake" \notin sent
  /\ pc = "reply" /\ "handshake" \in sent =>
       /\ conn = "open" => toClient # << >>
       /\ toClient # << >> => Head(toClient) = Reply
  /\ pc \notin {"handshake", "reply"} \cup Terminal => "handshake" \in sent

\* Which function gets where, and what it knows there.
ModeInv ==
  /\ pc \in {"bitfield", "interested", "unchoke"} => mode \in {"establish", "magnet_download"}
  /\ pc = "first" => mode \in {"magnet_handshake", "magnet_info"}
  /\ pc \in {"negotiate", "extended", "request", "metadata"} =>
       mode \in {"magnet_handshake", "magnet_info", "magnet_download"}
  /\ pc \in {"extended", "request", "metadata"} => hasExt
  /\ pc \in {"request", "metadata"} => peerExtId # NoId
  /\ hasExt => peer.extensions

\* The peer has said what the client has read, or is about to read.
Told ==
  /\ \A k \in DOMAIN toClient :
       toClient[k].type \in {"bitfield", "unchoke"} => toClient[k].type \in sent
  /\ pc \in {"interested", "unchoke"} => "bitfield" \in sent
  /\ mode \in {"establish", "magnet_download"}
       /\ pc \in {"done", "negotiate", "extended", "request", "metadata"}
     => {"bitfield", "unchoke"} \subseteq sent
  /\ pc = "done" /\ mode \in {"magnet_info", "magnet_download"} => metainfo = "right"

SessionInv == TypeOK /\ ReplyFirst /\ ModeInv /\ Told

----------------------------------------------------------------------------
(* Lemmas about the operators *)

\* A queue of members of S: what is left of it when its first is taken, when
\* one is added, and when its end is lost.
LEMMA Queues ==
  ASSUME NEW S, NEW q \in Seq(S)
  PROVE  /\ q # << >> => Head(q) \in S /\ Tail(q) \in Seq(S)
         /\ \A m \in S : Append(q, m) \in Seq(S)
         /\ \A n \in 0 .. Len(q) : SubSeq(q, 1, n) \in Seq(S)
  BY HeadTailProperties, AppendProperties, EmptySeq

\* Which message is where in what is left.
LEMMA QueuePlaces ==
  ASSUME NEW S, NEW q \in Seq(S)
  PROVE  /\ Len(q) \in Nat /\ DOMAIN q = 1 .. Len(q)
         /\ q # << >> =>
              /\ Head(q) = q[1] /\ 1 \in DOMAIN q
              /\ \A k \in DOMAIN Tail(q) : k + 1 \in DOMAIN q /\ Tail(q)[k] = q[k + 1]
         /\ \A m : \A k \in DOMAIN Append(q, m) :
              (k \in DOMAIN q /\ Append(q, m)[k] = q[k]) \/ Append(q, m)[k] = m
         /\ \A m : q # << >> => Head(Append(q, m)) = Head(q)
         /\ \A m : Head(Append(<< >>, m)) = m /\ Append(q, m) # << >>
         /\ \A n \in 0 .. Len(q) :
              /\ \A k \in DOMAIN SubSeq(q, 1, n) : k \in DOMAIN q /\ SubSeq(q, 1, n)[k] = q[k]
              /\ SubSeq(q, 1, n) # << >> => q # << >> /\ Head(SubSeq(q, 1, n)) = Head(q)
  OBVIOUS

\* The peers of an instance are peers.
LEMMA PeerType ==
  ASSUME TypeOK
  PROVE  /\ peer.protocol \in {"BitTorrent", "other"}
         /\ peer.extensions \in BOOLEAN /\ peer.metadataId \in Nat
         /\ peer.metadata \in {"right", "wrong", "junk", "cut", "rejected", "not offered"}
         /\ mode \in AllModes
  BY SessionAssumption DEF TypeOK, AllPeers

\* Neither the function called nor the peer changes, nor what they may send.
LEMMA SameChoice ==
  ASSUME UNCHANGED choice
  PROVE  /\ UNCHANGED <<mode, peer, Agreed, Outgoing, Answers, Reply>>
         /\ {Meaning(m) : m \in Outgoing}' = {Meaning(m) : m \in Outgoing}
  BY DEF choice, Agreed, Reserves, Outgoing, Requests, Answers, Reply, PeerHello, Metadata, Meaning

\* util::send_all of one message.
LEMMA SendEffect ==
  ASSUME TypeOK, NEW m, NEW next, Send(m, next)
  PROVE  /\ UNCHANGED <<choice, toClient, remote>>
         /\ pc' \in {next, "failed", "killed"}
         /\ toPeer' \in {toPeer, Append(toPeer, m)}
         /\ conn' \in {"open", "finished", "rst pending", "broken", "reset"}
         /\ conn' = "open" => conn = "open"
  BY DEF Send, Throw, TypeOK

----------------------------------------------------------------------------
(* Type correctness *)

\* The initial states are well typed, and nothing is on its way.
LEMMA InitInv == Init => SessionInv
  <1> SUFFICES ASSUME Init PROVE SessionInv
    OBVIOUS
  <1>1. toPeer \in Seq(Outgoing) /\ toClient \in Seq(Answers) /\ toPeer \in Seq({Greeting})
    BY DEF Init
  <1>2. TypeOK
    BY <1>1 DEF Init, TypeOK, Labels
  <1>3. ReplyFirst
    BY <1>1 DEF Init, ReplyFirst, Terminal
  <1>4. ModeInv
    BY DEF Init, ModeInv
  <1>5. Told
    BY DEF Init, Told
  <1> QED
    BY <1>2, <1>3, <1>4, <1>5 DEF SessionInv

\* A message the client sends is one it may send.
LEMMA TypeSend ==
  ASSUME TypeOK, NEW m \in Outgoing, NEW next \in Labels, Send(m, next),
         UNCHANGED <<hasExt, peerExtId>>
  PROVE  TypeOK'
  <1>1. toPeer' \in Seq(Outgoing)
    <2>1. toPeer' \in {toPeer, Append(toPeer, m)}
      BY SendEffect
    <2>2. toPeer \in Seq(Outgoing)
      BY DEF TypeOK
    <2>3. Append(toPeer, m) \in Seq(Outgoing)
      BY <2>2, Queues
    <2> QED
      BY <2>1, <2>2, <2>3
  <1>2. pc' \in Labels
    BY SendEffect DEF Labels, Terminal
  <1> QED
    BY <1>1, <1>2, SendEffect, SameChoice DEF TypeOK, choice, remote

\* What the client receives was sent by the peer.
LEMMA TypeReceive ==
  ASSUME TypeOK, Receive
  PROVE  /\ Incoming \in Answers /\ toClient' \in Seq(Answers)
         /\ UNCHANGED <<mode, peer, toPeer, conn, heard, sent, Outgoing, Answers>>
         /\ {Meaning(m) : m \in Outgoing}' = {Meaning(m) : m \in Outgoing}
  BY SameChoice, Queues DEF TypeOK, Receive, Incoming, choice, remote

\* The only extension handshake on its way is the peer's, with its id.
LEMMA HelloId ==
  ASSUME TypeOK, Receive, IsExtHandshake
  PROVE  Incoming = PeerHello /\ Incoming.metadataId = peer.metadataId
  <1>1. Incoming \in Answers
    BY TypeReceive
  <1>2. Incoming.type = "extended" /\ Incoming.payload = "handshake"
    BY DEF IsExtHandshake
  <1>3. \A k \in ControlKinds : k # "extended"
    BY SessionAssumption DEF UnknownKinds
  <1>4. ~ \E k \in ControlKinds : Incoming = [type |-> k]
    BY <1>2, <1>3
  <1>5. Incoming # Reply /\ Incoming # [type |-> "bitfield"] /\ Incoming # [type |-> "unchoke"]
    BY <1>2 DEF Reply
  <1>6. Incoming # Metadata
    <2>1. peer.metadata # "handshake"
      BY PeerType
    <2>2. Metadata.payload = peer.metadata
      BY DEF Metadata
    <2> QED
      BY <1>2, <2>1, <2>2
  <1>7. Incoming = PeerHello
    BY <1>1, <1>4, <1>5, <1>6 DEF Answers
  <1> QED
    BY <1>7 DEF PeerHello

\* Where the client goes after the handshake.
LEMMA HandshakenLabel ==
  ASSUME TypeOK
  PROVE  /\ Handshaken \in {"done", "first", "bitfield"}
         /\ Handshaken = "done" => mode = "handshake"
         /\ Handshaken = "first" => mode \in {"magnet_handshake", "magnet_info"}
         /\ Handshaken = "bitfield" => mode \in {"establish", "magnet_download"}
  BY PeerType DEF Handshaken, AllModes

\* The step that takes the reply learns the peer's extension bit, or that it
\* speaks another protocol.
LEMMA ReplyBit ==
  ASSUME ReplyFirst, TakeHandshake
  PROVE  /\ "handshake" \in sent /\ Receive /\ Incoming = Reply
         /\ pc = "reply" /\ peerExtId' = peerExtId /\ metainfo' = metainfo
         /\ \/ hasExt' = peer.extensions /\ peer.protocol = "BitTorrent"
                 /\ pc' = Handshaken /\ error' = error
            \/ hasExt' = hasExt /\ peer.protocol # "BitTorrent" /\ pc' = "failed"
  <1>1. Receive /\ pc = "reply" /\ peerExtId' = peerExtId /\ metainfo' = metainfo
    BY DEF TakeHandshake
  <1>2. "handshake" \in sent /\ Incoming = Reply
    BY <1>1 DEF ReplyFirst, Incoming, Receive
  <1>3. Incoming.protocol = peer.protocol /\ Incoming.extensions = peer.extensions
    BY <1>2 DEF Reply
  <1> QED
    BY <1>1, <1>2, <1>3 DEF TakeHandshake, Throw

\* A step that receives keeps the types if it goes to a label.
LEMMA TypeTake ==
  ASSUME TypeOK, Receive, pc' \in Labels, hasExt' \in BOOLEAN, peerExtId' \in {peerExtId, ToByte(peer.metadataId)}
  PROVE  TypeOK'
  <1>1. /\ toClient' \in Seq(Answers)
        /\ UNCHANGED <<mode, peer, toPeer, conn, heard, sent, Outgoing, Answers>>
        /\ {Meaning(m) : m \in Outgoing}' = {Meaning(m) : m \in Outgoing}
    BY TypeReceive
  <1>2. Labels' = Labels
    BY DEF Labels
  <1> QED
    BY <1>1 DEF TypeOK

\* Every step of the client keeps the types.
LEMMA TypeClient ==
  ASSUME TypeOK, ReplyFirst, ModeInv, Client
  PROVE  TypeOK'
  <1> USE DEF Labels, Awaits, AwaitsMessage, Terminal
  <1>1. CASE SendHandshake
    BY <1>1, TypeSend DEF SendHandshake, Outgoing, Greeting, client
  <1>2. CASE TakeHandshake
    <2>1. /\ Receive /\ peerExtId' = peerExtId
          /\ pc' \in {Handshaken, "failed"} /\ hasExt' \in {hasExt, peer.extensions}
      BY <1>2, ReplyBit
    <2>2. pc' \in Labels
      BY <2>1, HandshakenLabel
    <2>3. hasExt' \in BOOLEAN
      BY <2>1, PeerType DEF TypeOK
    <2> QED
      BY <2>1, <2>2, <2>3, TypeTake
  <1>3. CASE TakeFirst \/ TakeBitfield \/ TakeUnchoke \/ SkipKeepAlive \/ RejectMessage \/ TakeMetadata
    <2>1. pc' \in Labels /\ Receive /\ peerExtId' = peerExtId /\ hasExt' = hasExt
      BY <1>3 DEF TakeFirst, TakeBitfield, TakeUnchoke, SkipKeepAlive, RejectMessage, TakeMetadata,
                  Message, Unchoked, Throw, client, TypeOK
    <2> QED
      BY <2>1, TypeTake DEF TypeOK
  <1>4. CASE SendInterested
    BY <1>4, TypeSend DEF SendInterested, Outgoing, client
  <1>5. CASE Negotiate
    <2>1. [type |-> "extended", id |-> 0] \in Outgoing
      BY <1>5 DEF Negotiate, ModeInv, Outgoing, Requests, Agreed, Reserves
    <2> QED
      BY <1>5, <2>1, TypeSend DEF Negotiate, client
  <1>6. CASE TakeExtended
    <2>1. pc' \in Labels /\ Receive /\ hasExt' = hasExt
      BY <1>6 DEF TakeExtended, Message, Throw
    <2>2. peerExtId' \in {peerExtId, ToByte(peer.metadataId)}
      BY <1>6, <2>1, HelloId DEF TakeExtended
    <2> QED
      BY <2>1, <2>2, TypeTake DEF TypeOK
  <1>7. CASE RequestMetadata
    <2>1. [type |-> "extended", id |-> peerExtId] \in Outgoing
      BY <1>7 DEF RequestMetadata, ModeInv, Outgoing, Requests, Agreed, Reserves, TypeOK
    <2> QED
      BY <1>7, <2>1, TypeSend DEF RequestMetadata, client
  <1>8. CASE NoExtensions \/ ReceiveFails
    <2>1. /\ pc' \in Labels
          /\ UNCHANGED <<choice, client, wires, remote>>
      BY <1>8 DEF NoExtensions, ReceiveFails, Throw
    <2> QED
      BY <2>1, SameChoice DEF TypeOK, choice, client, wires, remote
  <1> QED
    BY <1>1, <1>2, <1>3, <1>4, <1>5, <1>6, <1>7, <1>8 DEF Client

\* A message the peer adds to those on their way keeps the types.
LEMMA TypeDeliver ==
  ASSUME TypeOK, NEW kind, NEW m \in Answers, Deliver(kind, m),
         kind \in {"handshake", "bitfield", "extended", "unchoke", "metadata"}
  PROVE  TypeOK'
  <1>1. toClient' \in Seq(Answers)
    BY Queues DEF Deliver, TypeOK
  <1>2. UNCHANGED choice
    BY DEF Deliver
  <1> QED
    BY <1>1, <1>2, SameChoice DEF Deliver, TypeOK, client, Labels

\* Every step of the peer and the network keeps the types.
LEMMA TypePeer ==
  ASSUME TypeOK, Peer
  PROVE  TypeOK'
  <1>1. CASE PeerReads
    <2>1. Head(toPeer) \in Outgoing /\ toPeer' \in Seq(Outgoing)
      BY <1>1, Queues DEF PeerReads, TypeOK
    <2>2. UNCHANGED choice
      BY <1>1 DEF PeerReads
    <2>3. heard' \subseteq {Meaning(m) : m \in Outgoing}
      BY <1>1, <2>1 DEF PeerReads, TypeOK
    <2> QED
      BY <1>1, <2>1, <2>2, <2>3, SameChoice DEF PeerReads, TypeOK, client, Labels
  <1>2. CASE PeerHandshake
    BY <1>2, TypeDeliver DEF PeerHandshake, Answers, Reply
  <1>3. CASE PeerBitfield
    BY <1>3, TypeDeliver DEF PeerBitfield, Answers
  <1>4. CASE PeerExtended
    BY <1>4, TypeDeliver DEF PeerExtended, Answers, PeerHello
  <1>5. CASE PeerUnchoke
    BY <1>5, TypeDeliver DEF PeerUnchoke, Answers
  <1>6. CASE PeerMetadata
    BY <1>6, TypeDeliver DEF PeerMetadata, Answers, Metadata
  <1>7. CASE PeerControl
    <2>1. PICK k \in ControlKinds : toClient' = Append(toClient, [type |-> k])
      BY <1>7 DEF PeerControl
    <2>2. toClient' \in Seq(Answers)
      BY <2>1, Queues DEF TypeOK, Answers
    <2>3. UNCHANGED choice
      BY <1>7 DEF PeerControl
    <2> QED
      BY <1>7, <2>2, <2>3, SameChoice DEF PeerControl, TypeOK, client, Labels
  <1>8. CASE PeerReset
    <2>1. PICK n \in 0 .. Len(toClient) : toClient' = SubSeq(toClient, 1, n)
      BY <1>8 DEF PeerReset
    <2>2. toClient' \in Seq(Answers)
      BY <2>1, Queues DEF TypeOK
    <2>3. UNCHANGED choice
      BY <1>8 DEF PeerReset
    <2> QED
      BY <1>8, <2>2, <2>3, SameChoice DEF PeerReset, TypeOK, client, remote, Labels
  <1>9. CASE PeerClose \/ RstArrives
    BY <1>9, SameChoice DEF PeerClose, RstArrives, TypeOK, client, remote, choice, Labels
  <1> QED
    BY <1>1, <1>2, <1>3, <1>4, <1>5, <1>6, <1>7, <1>8, <1>9 DEF Peer, PeerSays

----------------------------------------------------------------------------
(* What comes first, and who gets where *)

\* The peer's and the network's steps leave the client alone.
LEMMA PeerFrame ==
  ASSUME Peer
  PROVE  UNCHANGED <<mode, peer, pc, hasExt, peerExtId, metainfo, error>> /\ pc \notin Terminal
  BY DEF Peer, PeerSays, PeerReads, PeerHandshake, PeerBitfield, PeerExtended, PeerUnchoke, PeerMetadata,
         PeerControl, PeerClose, PeerReset, RstArrives, Deliver, choice, client

\* A byte is a byte.
LEMMA ByteRange == \A n \in Nat : ToByte(n) \in 0 .. 255 /\ (n \in 1 .. 255 => ToByte(n) = n)
  BY DEF ToByte

\* A step along the path of the function, which learns nothing.
LEMMA ModeMove ==
  ASSUME ModeInv, UNCHANGED <<mode, peer, hasExt, peerExtId>>,
         \/ pc' \in {pc, "reply"} \cup Terminal
         \/ pc = "first" /\ pc' = "negotiate"
         \/ pc = "bitfield" /\ pc' = "interested"
         \/ pc = "interested" /\ pc' = "unchoke"
         \/ pc = "unchoke" /\ pc' = Unchoked
         \/ pc = "negotiate" /\ hasExt /\ pc' = "extended"
         \/ pc = "request" /\ pc' = "metadata"
  PROVE  ModeInv'
  BY DEF ModeInv, Terminal, Unchoked

\* Every function keeps to its own path.
LEMMA ModeStep ==
  ASSUME TypeOK, ReplyFirst, ModeInv, [Next]_vars
  PROVE  ModeInv'
  <1> USE DEF Terminal
  <1>1. CASE SendHandshake
    <2>1. UNCHANGED <<mode, peer, hasExt, peerExtId>> /\ pc' \in {"reply", "failed", "killed"}
      BY <1>1, SendEffect DEF SendHandshake, client, choice
    <2> QED
      BY <2>1, ModeMove
  <1>2. CASE TakeHandshake
    <2>1. /\ mode' = mode /\ peer' = peer /\ peerExtId' = peerExtId
          /\ pc' \in {Handshaken, "failed"}
          /\ hasExt' = peer.extensions \/ hasExt' = hasExt
      BY <1>2, ReplyBit DEF Receive, choice
    <2> QED
      BY <2>1, HandshakenLabel DEF ModeInv
  <1>3. CASE TakeFirst \/ TakeBitfield \/ TakeUnchoke \/ SkipKeepAlive \/ RejectMessage \/ TakeMetadata
    <2>1. /\ UNCHANGED <<mode, peer, hasExt, peerExtId>>
          /\ \/ pc' \in {pc, "done", "failed"}
             \/ pc = "first" /\ pc' = "negotiate"
             \/ pc = "bitfield" /\ pc' = "interested"
             \/ pc = "unchoke" /\ pc' = Unchoked
      BY <1>3 DEF TakeFirst, TakeBitfield, TakeUnchoke, SkipKeepAlive, RejectMessage, TakeMetadata,
                  Message, Receive, Throw, client, choice
    <2> QED
      BY <2>1, ModeMove
  <1>4. CASE SendInterested
    <2>1. UNCHANGED <<mode, peer, hasExt, peerExtId>> /\ pc = "interested" /\ pc' \in {"unchoke", "failed", "killed"}
      BY <1>4, SendEffect DEF SendInterested, client, choice
    <2> QED
      BY <2>1, ModeMove
  <1>5. CASE Negotiate
    <2>1. /\ UNCHANGED <<mode, peer, hasExt, peerExtId>>
          /\ pc = "negotiate" /\ hasExt /\ pc' \in {"extended", "failed", "killed"}
      BY <1>5, SendEffect DEF Negotiate, client, choice
    <2> QED
      BY <2>1, ModeMove
  <1>6. CASE TakeExtended
    <2>1. ToByte(peer.metadataId) # NoId
      <3>1. peer.metadataId \in Nat
        BY PeerType
      <3>2. ToByte(peer.metadataId) \in 0 .. 255
        BY <3>1, ByteRange
      <3> QED
        BY <3>2 DEF NoId
    <2>2. IsExtHandshake => peerExtId' # NoId
      BY <1>6, <2>1, HelloId DEF TakeExtended, Message
    <2>3. /\ pc = "extended" /\ pc' \in {"done", "request", "failed"} /\ (pc' = "request" => IsExtHandshake)
          /\ UNCHANGED <<mode, peer, hasExt>>
      BY <1>6 DEF TakeExtended, Throw, Message, Receive, choice
    <2> QED
      BY <2>2, <2>3 DEF ModeInv
  <1>7. CASE RequestMetadata
    <2>1. UNCHANGED <<mode, peer, hasExt, peerExtId>> /\ pc = "request" /\ pc' \in {"metadata", "failed", "killed"}
      BY <1>7, SendEffect DEF RequestMetadata, client, choice
    <2> QED
      BY <2>1, ModeMove
  <1>8. CASE NoExtensions \/ ReceiveFails
    <2>1. UNCHANGED <<mode, peer, hasExt, peerExtId>> /\ pc' \in Terminal
      BY <1>8 DEF NoExtensions, ReceiveFails, Throw, client, choice
    <2> QED
      BY <2>1, ModeMove
  <1>9. CASE Peer
    BY <1>9, PeerFrame, ModeMove
  <1>10. CASE Stopped \/ UNCHANGED vars
    BY <1>10, ModeMove DEF Stopped, vars, client, choice
  <1> QED
    BY <1>1, <1>2, <1>3, <1>4, <1>5, <1>6, <1>7, <1>8, <1>9, <1>10 DEF Next, Client

\* The client's steps keep the reply first.
LEMMA ReplyFirstClient ==
  ASSUME TypeOK, ReplyFirst, Client
  PROVE  ReplyFirst'
  <1> USE DEF ReplyFirst, Terminal
  <1>1. CASE SendHandshake
    <2>1. /\ pc = "handshake" /\ pc' \in {"reply", "failed", "killed"}
          /\ UNCHANGED <<mode, peer, toClient, heard, sent>>
          /\ toPeer' \in {toPeer, Append(toPeer, Greeting)}
      BY <1>1, SendEffect DEF SendHandshake, Greeting, choice, remote
    <2>2. toPeer' \in Seq({Greeting}) /\ Greeting' = Greeting
      <3>1. Greeting' = Greeting
        BY <2>1 DEF Greeting
      <3>2. toPeer \in Seq({Greeting})
        BY <2>1
      <3>3. Append(toPeer, Greeting) \in Seq({Greeting})
        BY <3>2, Queues
      <3> QED BY ONLY <2>1, <3>1, <3>2, <3>3
    <2> QED
      BY <2>1, <2>2
  <1>2. CASE TakeHandshake
    <2>1. /\ "handshake" \in sent /\ UNCHANGED <<heard, sent>>
          /\ pc' \in {Handshaken, "failed"}
      BY <1>2, ReplyBit DEF Receive, remote
    <2>2. pc' \notin {"handshake", "reply"}
      BY <2>1, HandshakenLabel
    <2> QED
      BY <2>1, <2>2
  <1>3. CASE TakeFirst \/ TakeBitfield \/ TakeUnchoke \/ TakeExtended \/ SkipKeepAlive \/ RejectMessage
               \/ TakeMetadata
    <2>1. /\ pc \in AwaitsMessage /\ pc' \notin {"handshake", "reply"}
          /\ UNCHANGED <<heard, sent, toPeer>>
      BY <1>3 DEF TakeFirst, TakeBitfield, TakeUnchoke, TakeExtended, SkipKeepAlive, RejectMessage, TakeMetadata,
                  Message, Receive, Unchoked, Throw, AwaitsMessage, remote
    <2> QED
      BY <2>1 DEF AwaitsMessage
  <1>4. CASE SendInterested \/ Negotiate \/ RequestMetadata
    <2>1. PICK next \in {"unchoke", "extended", "metadata"} : \E m : Send(m, next)
      BY <1>4 DEF SendInterested, Negotiate, RequestMetadata
    <2>2. pc' \notin {"handshake", "reply"} /\ UNCHANGED <<heard, sent>>
      BY <2>1, SendEffect DEF remote
    <2>3. pc \in {"interested", "negotiate", "request"}
      BY <1>4 DEF SendInterested, Negotiate, RequestMetadata
    <2> QED
      BY <2>2, <2>3
  <1>5. CASE NoExtensions \/ ReceiveFails
    <2>1. pc # "handshake" /\ pc' \in Terminal /\ UNCHANGED <<toPeer, toClient, conn, heard, sent, peer>>
      BY <1>5 DEF NoExtensions, ReceiveFails, Awaits, AwaitsMessage, Throw, wires, remote, choice
    <2> QED
      BY <2>1 DEF Greeting
  <1> QED
    BY <1>1, <1>2, <1>3, <1>4, <1>5 DEF Client

\* And so do those of the peer: it says nothing before its reply.
LEMMA ReplyFirstPeer ==
  ASSUME TypeOK, ReplyFirst, Peer
  PROVE  ReplyFirst'
  <1> USE DEF ReplyFirst, Terminal
  <1>1. UNCHANGED <<mode, peer, pc, Reply, Greeting>>
    BY PeerFrame DEF Reply, Greeting
  <1>2. CASE PeerReads
    <2>1. /\ toPeer # << >> /\ toPeer' = Tail(toPeer) /\ heard' = heard \cup {Meaning(Head(toPeer))}
          /\ UNCHANGED <<toClient, conn, sent>>
      BY <1>2 DEF PeerReads
    <2>2. ASSUME "handshake" \notin sent
          PROVE  toPeer' \in Seq({Greeting}) /\ heard' \subseteq {"handshake"}
      BY <2>1, <2>2, Queues DEF Meaning, Greeting
    <2> QED
      BY <1>1, <2>1, <2>2
  <1>3. CASE PeerHandshake
    <2>1. /\ "handshake" \in heard /\ "handshake" \notin sent /\ toClient' = Append(toClient, Reply)
          /\ sent' = sent \cup {"handshake"} /\ UNCHANGED <<toPeer, conn, heard>>
      BY <1>3 DEF PeerHandshake, HandshakeDue, Due, Deliver, Reply
    <2>2. toClient' # << >> /\ Head(toClient') = Reply
      BY <2>1, QueuePlaces DEF TypeOK
    <2> QED
      BY <1>1, <2>1, <2>2
  <1>4. CASE conn = "open" /\ (PeerBitfield \/ PeerExtended \/ PeerUnchoke \/ PeerMetadata \/ PeerControl)
    <2>1. PICK m : /\ toClient' = Append(toClient, m) /\ sent \subseteq sent'
                   /\ UNCHANGED <<toPeer, conn, heard>>
                   /\ "handshake" \in sent \/ heard \cap {"interested", "request"} # {}
      BY <1>4
        DEF PeerBitfield, PeerExtended, PeerUnchoke, PeerMetadata, PeerControl,
            BitfieldDue, ExtendedDue, UnchokeDue, MetadataDue, Due, Deliver
    <2>2. "handshake" \in sent
      BY <2>1
    <2>3. pc = "reply" /\ conn = "open" => Head(toClient') = Reply /\ toClient' # << >>
      BY <2>1, <2>2, QueuePlaces DEF TypeOK
    <2> QED
      BY <1>1, <1>4, <2>1, <2>2, <2>3
  <1>5. CASE PeerReset
    <2>1. PICK n \in 0 .. Len(toClient) : toClient' = SubSeq(toClient, 1, n)
      BY <1>5 DEF PeerReset
    <2>2. toClient' # << >> => toClient # << >> /\ Head(toClient') = Head(toClient)
      BY <2>1, QueuePlaces DEF TypeOK
    <2>3. conn' # "open" /\ UNCHANGED <<toPeer, heard, sent>>
      BY <1>5 DEF PeerReset, remote
    <2> QED
      BY <1>1, <2>2, <2>3
  <1>6. CASE PeerClose \/ RstArrives
    BY <1>1, <1>6 DEF PeerClose, RstArrives, remote
  <1> QED
    BY <1>2, <1>3, <1>4, <1>5, <1>6 DEF Peer, PeerSays, PeerControl

----------------------------------------------------------------------------
(* What the peer has said *)

\* Taking a message tells the client what the peer has sent.
LEMMA ToldReceive ==
  ASSUME TypeOK, Told, Receive
  PROVE  /\ Incoming.type \in {"bitfield", "unchoke"} => Incoming.type \in sent
         /\ \A k \in DOMAIN toClient' :
              toClient'[k].type \in {"bitfield", "unchoke"} => toClient'[k].type \in sent'
         /\ UNCHANGED <<mode, peer, heard, sent>>
  <1>1. toClient # << >> /\ toClient' = Tail(toClient) /\ UNCHANGED <<mode, peer, heard, sent>>
    BY DEF Receive, remote, choice
  <1>2. toClient \in Seq(Answers)
    BY DEF TypeOK
  <1> QED
    BY <1>1, <1>2, QueuePlaces DEF Told, Incoming

\* A step of the client that has been told enough to take it.
LEMMA ToldMove ==
  ASSUME Told, UNCHANGED <<mode, heard, sent>>,
         \A k \in DOMAIN toClient' :
           toClient'[k].type \in {"bitfield", "unchoke"} => toClient'[k].type \in sent,
         \/ pc' \in {"reply", "first", "bitfield", "failed", "killed"}
         \/ pc' = pc /\ metainfo' = metainfo
         \/ pc' = "interested" /\ "bitfield" \in sent
         \/ pc = "interested" /\ pc' = "unchoke"
         \/ pc' \in {"done", "negotiate"} /\ {"bitfield", "unchoke"} \subseteq sent
              /\ (pc' = "done" => mode \notin {"magnet_info", "magnet_download"})
         \/ pc' \in {"done", "negotiate"} /\ mode \notin {"establish", "magnet_download"}
              /\ (pc' = "done" => mode # "magnet_info")
         \/ pc \in {"negotiate", "extended", "request"} /\ pc' \in {"extended", "request", "metadata"}
         \/ pc = "metadata" /\ pc' = "done" /\ metainfo' = "right"
  PROVE  Told'
  BY DEF Told

\* The client's steps: it goes on only when it has been told to.
LEMMA ToldClient ==
  ASSUME TypeOK, ModeInv, Told, Client
  PROVE  Told'
  <1>1. CASE SendHandshake \/ SendInterested \/ Negotiate \/ RequestMetadata
    <2>1. PICK next \in {"reply", "unchoke", "extended", "metadata"} :
            /\ \E m : Send(m, next)
            /\ \/ next = "reply"
               \/ pc = "interested" /\ next = "unchoke"
               \/ pc \in {"negotiate", "request"} /\ next \in {"extended", "metadata"}
      BY <1>1 DEF SendHandshake, SendInterested, Negotiate, RequestMetadata
    <2>2. pc' \in {next, "failed", "killed"} /\ UNCHANGED <<mode, toClient, heard, sent>>
      BY <2>1, SendEffect DEF remote, choice
    <2>3. \A k \in DOMAIN toClient' :
            toClient'[k].type \in {"bitfield", "unchoke"} => toClient'[k].type \in sent
      BY <2>2 DEF Told
    <2> QED
      BY <2>1, <2>2, <2>3, ToldMove
  <1>2. CASE TakeHandshake \/ TakeFirst \/ TakeExtended
    <2>1. Receive
      BY <1>2 DEF TakeHandshake, TakeFirst, TakeExtended, Message
    <2>2. \/ pc' \in {"first", "bitfield", "failed"}
          \/ pc' \in {"done", "negotiate"} /\ mode \in {"handshake", "magnet_handshake", "magnet_info"}
               /\ (pc' = "done" => mode # "magnet_info")
          \/ pc = "extended" /\ pc' = "request"
      <3>1. CASE TakeHandshake
        <4>1. pc' \in {Handshaken, "failed"}
          BY <3>1 DEF TakeHandshake, Throw
        <4> QED
          BY <4>1, HandshakenLabel
      <3>2. CASE TakeFirst
        BY <3>2 DEF TakeFirst, ModeInv
      <3>3. CASE TakeExtended
        BY <3>3 DEF TakeExtended, Throw
      <3> QED
        BY <1>2, <3>1, <3>2, <3>3
    <2> QED
      BY <2>1, <2>2, ToldReceive, ToldMove
  <1>3. CASE TakeBitfield \/ TakeUnchoke
    <2>1. Receive
      BY <1>3 DEF TakeBitfield, TakeUnchoke, Message
    <2>2. \/ pc' = "failed"
          \/ pc' = "interested" /\ Incoming.type = "bitfield"
          \/ pc = "unchoke" /\ pc' = Unchoked /\ Incoming.type = "unchoke"
      BY <1>3 DEF TakeBitfield, TakeUnchoke, Throw
    <2>3. CASE pc = "unchoke" /\ pc' = Unchoked /\ Incoming.type = "unchoke"
      <3>1. {"bitfield", "unchoke"} \subseteq sent
        BY <2>1, <2>3, ToldReceive DEF Told
      <3>2. pc' \in {"done", "negotiate"} /\ (pc' = "done" => mode \notin {"magnet_info", "magnet_download"})
        BY <2>3 DEF Unchoked, ModeInv
      <3> QED
        BY <2>1, <3>1, <3>2, ToldReceive, ToldMove
    <2> QED
      BY <2>1, <2>2, <2>3, ToldReceive, ToldMove
  <1>4. CASE TakeMetadata \/ SkipKeepAlive \/ RejectMessage
    <2>1. Receive
      BY <1>4 DEF TakeMetadata, SkipKeepAlive, RejectMessage, Message
    <2>2. \/ pc' = "failed"
          \/ pc' = pc /\ metainfo' = metainfo
          \/ pc = "metadata" /\ pc' = "done" /\ metainfo' = "right"
      BY <1>4 DEF TakeMetadata, SkipKeepAlive, RejectMessage, Throw, IsMetadata, Verified, client
    <2> QED
      BY <2>1, <2>2, ToldReceive, ToldMove
  <1>5. CASE NoExtensions \/ ReceiveFails
    <2>1. UNCHANGED <<mode, toClient, heard, sent>>
      BY <1>5 DEF NoExtensions, ReceiveFails, wires, remote, choice
    <2>2. pc' = "failed" \/ (pc' = "done" /\ mode = "magnet_handshake")
      BY <1>5 DEF NoExtensions, ReceiveFails, Throw
    <2>3. \A k \in DOMAIN toClient' :
            toClient'[k].type \in {"bitfield", "unchoke"} => toClient'[k].type \in sent
      BY <2>1 DEF Told
    <2> QED
      BY <2>1, <2>2, <2>3, ToldMove
  <1> QED
    BY <1>1, <1>2, <1>3, <1>4, <1>5 DEF Client

\* The peer's steps: what it adds it has sent.
LEMMA ToldPeer ==
  ASSUME TypeOK, Told, Peer
  PROVE  Told'
  <1>1. UNCHANGED <<mode, pc, metainfo>>
    BY PeerFrame
  <1>2. CASE PeerReads
    BY <1>1, <1>2 DEF PeerReads, Told
  <1>3. CASE PeerHandshake \/ PeerBitfield \/ PeerExtended \/ PeerUnchoke \/ PeerMetadata \/ PeerControl
    <2>1. PICK m : /\ toClient' = Append(toClient, m)
                   /\ m.type \in {"bitfield", "unchoke"} => m.type \in sent'
                   /\ sent \subseteq sent' /\ heard' = heard
      <3>1. CASE PeerHandshake \/ PeerBitfield \/ PeerExtended \/ PeerUnchoke \/ PeerMetadata
        BY <3>1
          DEF PeerHandshake, PeerBitfield, PeerExtended, PeerUnchoke, PeerMetadata,
              HandshakeDue, BitfieldDue, ExtendedDue, UnchokeDue, MetadataDue, Due, Deliver
      <3>2. CASE PeerControl
        BY <3>2, SessionAssumption DEF PeerControl, UnknownKinds
      <3> QED
        BY <1>3, <3>1, <3>2
    <2>2. \A k \in DOMAIN toClient' :
            toClient'[k].type \in {"bitfield", "unchoke"} => toClient'[k].type \in sent'
      <3>1. toClient \in Seq(Answers)
        BY DEF TypeOK
      <3>2. \A k \in DOMAIN Append(toClient, m) :
              \/ k \in DOMAIN toClient /\ Append(toClient, m)[k] = toClient[k]
              \/ Append(toClient, m)[k] = m
        BY <3>1, QueuePlaces
      <3> QED
        BY <2>1, <3>2 DEF Told
    <2> QED
      BY <1>1, <2>1, <2>2 DEF Told
  <1>4. CASE PeerReset
    <2>1. PICK n \in 0 .. Len(toClient) : toClient' = SubSeq(toClient, 1, n)
      BY <1>4 DEF PeerReset
    <2>2. \A k \in DOMAIN toClient' :
            toClient'[k].type \in {"bitfield", "unchoke"} => toClient'[k].type \in sent
      <3>1. toClient \in Seq(Answers)
        BY DEF TypeOK
      <3>2. \A k \in DOMAIN SubSeq(toClient, 1, n) :
              k \in DOMAIN toClient /\ SubSeq(toClient, 1, n)[k] = toClient[k]
        BY <3>1, QueuePlaces
      <3> QED
        BY <2>1, <3>2 DEF Told
    <2> QED
      BY <1>1, <1>4, <2>2 DEF PeerReset, remote, Told
  <1>5. CASE PeerClose \/ RstArrives
    BY <1>1, <1>5 DEF PeerClose, RstArrives, remote, Told
  <1> QED
    BY <1>2, <1>3, <1>4, <1>5 DEF Peer, PeerSays

----------------------------------------------------------------------------
(* The theorems *)

\* The invariant holds in every state that is reached.
THEOREM Invariant == Spec => []SessionInv
  <1>1. SessionInv /\ [Next]_vars => SessionInv'
    <2> SUFFICES ASSUME SessionInv, [Next]_vars PROVE SessionInv'
      OBVIOUS
    <2> USE DEF SessionInv
    <2>1. CASE Client
      BY <2>1, TypeClient, ReplyFirstClient, ModeStep, ToldClient
    <2>2. CASE Peer
      BY <2>2, TypePeer, ReplyFirstPeer, ModeStep, ToldPeer
    <2>3. CASE UNCHANGED vars
      <3>1. UNCHANGED <<choice, mode, peer, pc, hasExt, peerExtId, metainfo, toPeer, toClient, conn, heard, sent>>
        BY <2>3 DEF vars, choice, client, wires, remote
      <3>2. TypeOK'
        BY <3>1, SameChoice DEF TypeOK, Labels
      <3>3. ReplyFirst' /\ Told'
        BY <3>1, SameChoice DEF ReplyFirst, Told, Greeting
      <3> QED
        BY <3>2, <3>3, ModeStep
    <2> QED
      BY <2>1, <2>2, <2>3 DEF Next, Stopped
  <1> QED
    BY <1>1, InitInv, PTL DEF Spec

\* Type correctness, messages on their way included: the peer is sent only what
\* both sides agreed on, under the ids they agreed on.
THEOREM TypeCorrect == Spec => []TypeOK
  <1>1. SessionInv => TypeOK
    BY DEF SessionInv
  <1> QED
    BY <1>1, Invariant, PTL

\* ext_handshake and send_metadata_request: extension messages go only to peers
\* that announced extensions, and are understood if the id fits a byte.
THEOREM Agreement == Spec => []ExtensionsAgreed
  <1>1. SessionInv => ExtensionsAgreed
    <2> SUFFICES ASSUME TypeOK PROVE ExtensionsAgreed
      BY DEF SessionInv
    <2>1. \A m \in Outgoing : m.type = "extended" => Agreed
      BY DEF Outgoing, Requests, Greeting
    <2>2. \A m \in Outgoing : Meaning(m) \in {"extended", "request", "unknown"} => Agreed
      <3> SUFFICES ASSUME NEW m \in Outgoing, Meaning(m) \in {"extended", "request", "unknown"}
                   PROVE  Agreed
        OBVIOUS
      <3>1. CASE m.type = "extended"
        BY <2>1, <3>1
      <3>2. CASE m.type # "extended"
        <4>1. Meaning(m) = m.type
          BY <3>2 DEF Meaning
        <4>2. m = Greeting \/ m = [type |-> "interested"]
          BY <3>2 DEF Outgoing, Requests
        <4>3. m.type = "handshake" \/ m.type = "interested"
          BY <4>2 DEF Greeting
        <4> QED
          BY <4>1, <4>3
      <3> QED
        BY <3>1, <3>2
    <2>3. ASSUME peer.metadataId \in 1 .. 255, NEW m \in Outgoing
          PROVE  Meaning(m) # "unknown"
      <3>1. ToByte(peer.metadataId) = peer.metadataId
        BY <2>3, ByteRange
      <3> QED
        BY <2>3, <3>1 DEF Outgoing, Requests, Greeting, Meaning
    <2>4. \A k \in DOMAIN toPeer : toPeer[k] \in Outgoing
      <3>1. toPeer \in Seq(Outgoing)
        BY DEF TypeOK
      <3> QED
        BY <3>1, ElementOfSeq, LenProperties
    <2> QED
      BY <2>1, <2>2, <2>3, <2>4 DEF TypeOK, ExtensionsAgreed
  <1> QED
    BY <1>1, Invariant, PTL

----------------------------------------------------------------------------
(* Whose turn it is *)

\* The connection was closed before the client's last send.
Late == conn \in {"rst pending", "broken"}

\* What a message is, by its type, and by its id if it is of an extension; the
\* control messages are none of these.
Plain(m) == m.type \notin UnknownKinds \cup {"keep-alive"}
Kind(m)  == IF m.type # "extended" THEN m.type ELSE IF m.id = 0 THEN "extended" ELSE "metadata"

\* The peer was, or will be, sent this.
Asks(w) == w \in heard \/ \E k \in DOMAIN toPeer : Meaning(toPeer[k]) = w

\* The client asks for something when it waits for that, not before.
Asked ==
  /\ Asks("interested") => /\ mode \in {"establish", "magnet_download"}
                           /\ pc \notin {"handshake", "reply", "first", "bitfield", "interested"}
  /\ Asks("extended") => pc \in {"extended", "request", "metadata"} \cup Terminal
  /\ Asks("request") => pc \in {"metadata"} \cup Terminal

\* No message is sent twice.
SaidOnce ==
  /\ \A k \in DOMAIN toClient : Plain(toClient[k]) => Kind(toClient[k]) \in sent
  /\ \A j, k \in DOMAIN toClient :
       j # k /\ Plain(toClient[j]) /\ Plain(toClient[k]) => Kind(toClient[j]) # Kind(toClient[k])

\* Only some peers unchoke, or send their extension handshake, unasked, and the
\* client knows the peer's extension bit from its handshake on.
Said ==
  /\ SaidOnce
  /\ "extended" \in sent => "extended" \in heard \/ peer.eager
  /\ "unchoke" \in sent => "interested" \in heard \/ peer.unasked
  /\ pc \notin {"handshake", "reply"} \cup Terminal => hasExt = peer.extensions

\* Between two sends is a receive, whose message a peer that has closed before
\* the first send can have sent only unasked.
LateInv ==
  /\ Late => pc \notin {"handshake", "first", "bitfield", "interested"}
  /\ Late /\ pc = "reply" => "handshake" \notin sent
  /\ Late /\ pc = "unchoke" => "unchoke" \notin sent \/ peer.unasked
  /\ Late /\ pc = "negotiate" => mode = "magnet_download" /\ peer.unasked
  /\ Late /\ pc = "extended" => "extended" \notin sent \/ peer.eager
  /\ Late /\ pc = "request" => peer.eager
  /\ pc \in {"request", "metadata"} => mode \in {"magnet_info", "magnet_download"}
  /\ pc = "killed" =>
       \/ mode \in {"magnet_info", "magnet_download"} /\ peer.eager
       \/ mode = "magnet_download" /\ peer.unasked

Patient ==
  /\ peer.protocol = "BitTorrent"
  /\ peer.extensions /\ peer.bitfield /\ ~peer.eager /\ ~peer.unasked
  /\ peer.metadataId \in 1 .. 255 /\ peer.metadata = "right"

Expected ==
  CASE pc = "reply"                  -> {"handshake", "bitfield"}
    [] pc \in {"first", "bitfield"}  -> {"bitfield"}
    [] pc = "unchoke"                -> {"unchoke"}
    [] pc = "extended"               -> {"extended"}
    [] pc = "metadata"               -> {"metadata"}
    [] OTHER                         -> {}

\* Nothing plain is on its way but what is expected.
OnlyExpected == \A k \in DOMAIN toClient : Plain(toClient[k]) => Kind(toClient[k]) \in Expected

\* A patient peer waits its turn, so the client fails only with the connection.
Orderly ==
  Patient =>
    /\ pc \notin Terminal => OnlyExpected
    /\ pc \in {"interested", "unchoke", "negotiate", "extended", "request", "metadata"} =>
         "bitfield" \in sent
    /\ pc \in {"request", "metadata"} => "extended" \in sent
    /\ conn = "open" /\ error # "unknown message id" => pc # "failed"

TurnsInv == Asked /\ Said /\ LateInv /\ Orderly

\* How the client gets from label to label.
LEMMA ClientMoves ==
  ASSUME TypeOK, Client
  PROVE  /\ UNCHANGED <<mode, peer, heard, sent>> /\ pc \notin Terminal
         /\ \/ pc' = pc \/ pc' \in {"failed", "killed"}
            \/ pc = "handshake" /\ pc' = "reply"
            \/ pc = "reply" /\ pc' \in {"done", "first", "bitfield"}
            \/ pc = "first" /\ pc' = "negotiate"
            \/ pc = "bitfield" /\ pc' = "interested"
            \/ pc = "interested" /\ pc' = "unchoke"
            \/ pc = "unchoke" /\ pc' \in {"negotiate", "done"}
            \/ pc = "negotiate" /\ pc' \in {"extended", "done"}
            \/ pc = "extended" /\ pc' \in {"request", "done"}
            \/ pc = "request" /\ pc' = "metadata"
            \/ pc = "metadata" /\ pc' = "done"
  <1> USE DEF Terminal
  <1>1. CASE SendHandshake \/ SendInterested \/ Negotiate \/ RequestMetadata
    <2>1. PICK next : /\ \E m : Send(m, next)
                      /\ \/ pc = "handshake" /\ next = "reply"
                         \/ pc = "interested" /\ next = "unchoke"
                         \/ pc = "negotiate" /\ next = "extended"
                         \/ pc = "request" /\ next = "metadata"
      BY <1>1 DEF SendHandshake, SendInterested, Negotiate, RequestMetadata
    <2>2. pc' \in {next, "failed", "killed"} /\ UNCHANGED <<mode, peer, heard, sent>>
      BY <2>1, SendEffect DEF choice, remote
    <2> QED BY <2>1, <2>2
  <1>2. CASE TakeHandshake
    <2>1. pc = "reply" /\ pc' \in {Handshaken, "failed"} /\ UNCHANGED <<mode, peer, heard, sent>>
      BY <1>2 DEF TakeHandshake, Receive, Throw, choice, remote
    <2> QED BY <2>1, HandshakenLabel
  <1>3. CASE TakeFirst \/ TakeBitfield \/ TakeUnchoke \/ TakeExtended
    BY <1>3 DEF TakeFirst, TakeBitfield, TakeUnchoke, TakeExtended, Message, Receive, Unchoked, Throw,
                choice, remote
  <1>4. CASE TakeMetadata \/ SkipKeepAlive \/ RejectMessage
    BY <1>4 DEF TakeMetadata, SkipKeepAlive, RejectMessage, Message, Receive, Throw, AwaitsMessage,
                choice, remote
  <1>5. CASE NoExtensions \/ ReceiveFails
    BY <1>5 DEF NoExtensions, ReceiveFails, Throw, Awaits, AwaitsMessage, choice, remote
  <1> QED BY <1>1, <1>2, <1>3, <1>4, <1>5 DEF Client

\* What is asked stays so, when nothing is sent or read.
LEMMA AsksKept ==
  ASSUME UNCHANGED <<peer, toPeer, heard>>
  PROVE  \A w : Asks(w)' = Asks(w)
  BY DEF Asks, Meaning

\* util::send_all asks for what its message means.
LEMMA AsksSend ==
  ASSUME TypeOK, NEW m, NEW next, Send(m, next)
  PROVE  \A w : Asks(w)' => Asks(w) \/ (w = Meaning(m) /\ pc' = next)
  <1>1. UNCHANGED <<peer, heard>>
    BY SendEffect DEF choice, remote
  <1>2. toPeer' = toPeer \/ (toPeer' = Append(toPeer, m) /\ pc' = next)
    BY DEF Send
  <1>3. CASE toPeer' = toPeer
    BY <1>1, <1>3, AsksKept
  <1>4. CASE toPeer' = Append(toPeer, m) /\ pc' = next
    <2>1. toPeer \in Seq(Outgoing)
      BY DEF TypeOK
    <2>2. \A k \in DOMAIN toPeer' : (k \in DOMAIN toPeer /\ toPeer'[k] = toPeer[k]) \/ toPeer'[k] = m
      BY <1>4, <2>1, QueuePlaces
    <2>3. \A q : Meaning(q)' = Meaning(q)
      BY <1>1 DEF Meaning
    <2>4. ASSUME NEW w, Asks(w)' PROVE Asks(w) \/ w = Meaning(m)
      <3>1. w \in heard \/ \E k \in DOMAIN toPeer' : Meaning(toPeer'[k]) = w
        BY <1>1, <2>4 DEF Asks, Meaning
      <3> QED BY <2>2, <3>1 DEF Asks
    <2> QED BY <1>4, <2>4
  <1> QED BY <1>2, <1>3, <1>4

\* What each step of the client may newly ask for.
LEMMA AsksClient ==
  ASSUME TypeOK, Client
  PROVE  \A w : Asks(w)' =>
           \/ Asks(w)
           \/ pc = "handshake" /\ w = "handshake"
           \/ pc = "interested" /\ w = "interested" /\ pc' = "unchoke"
           \/ pc = "negotiate" /\ w = "extended" /\ pc' = "extended"
           \/ pc = "request" /\ w \in {"extended", "request", "unknown"} /\ pc' = "metadata"
  <1>1. CASE SendHandshake
    <2>1. pc = "handshake" /\ Send([type |-> "handshake"], "reply")
      BY <1>1 DEF SendHandshake
    <2>2. Meaning([type |-> "handshake"]) = "handshake"
      BY DEF Meaning
    <2> QED BY <2>1, <2>2, AsksSend
  <1>2. CASE SendInterested
    <2>1. pc = "interested" /\ Send([type |-> "interested"], "unchoke")
      BY <1>2 DEF SendInterested
    <2>2. Meaning([type |-> "interested"]) = "interested"
      BY DEF Meaning
    <2> QED BY <2>1, <2>2, AsksSend
  <1>3. CASE Negotiate
    <2>1. pc = "negotiate" /\ Send([type |-> "extended", id |-> 0], "extended")
      BY <1>3 DEF Negotiate
    <2>2. Meaning([type |-> "extended", id |-> 0]) = "extended"
      BY DEF Meaning
    <2> QED BY <2>1, <2>2, AsksSend
  <1>4. CASE RequestMetadata
    <2>1. pc = "request" /\ Send([type |-> "extended", id |-> peerExtId], "metadata")
      BY <1>4 DEF RequestMetadata
    <2>2. Meaning([type |-> "extended", id |-> peerExtId]) \in {"extended", "request", "unknown"}
      BY DEF Meaning
    <2> QED BY <2>1, <2>2, AsksSend
  <1>5. CASE TakeHandshake \/ TakeFirst \/ TakeBitfield \/ TakeUnchoke \/ TakeExtended \/ TakeMetadata
               \/ SkipKeepAlive \/ RejectMessage
    BY <1>5, AsksKept DEF TakeHandshake, TakeFirst, TakeBitfield, TakeUnchoke, TakeExtended,
       TakeMetadata, SkipKeepAlive, RejectMessage, Message, Receive, choice, remote
  <1>6. CASE NoExtensions \/ ReceiveFails
    BY <1>6, AsksKept DEF NoExtensions, ReceiveFails, choice, wires, remote
  <1> QED BY <1>1, <1>2, <1>3, <1>4, <1>5, <1>6 DEF Client

\* The peer reads what it was sent, and nothing else.
LEMMA AsksPeer ==
  ASSUME TypeOK, Peer
  PROVE  \A w : Asks(w)' => Asks(w)
  <1>1. CASE PeerReads
    <2>1. /\ toPeer # << >> /\ heard' = heard \cup {Meaning(Head(toPeer))} /\ toPeer' = Tail(toPeer)
          /\ peer' = peer
      BY <1>1 DEF PeerReads, choice
    <2>2. toPeer \in Seq(Outgoing)
      BY DEF TypeOK
    <2>3. /\ Head(toPeer) = toPeer[1] /\ 1 \in DOMAIN toPeer
          /\ \A k \in DOMAIN toPeer' : k + 1 \in DOMAIN toPeer /\ toPeer'[k] = toPeer[k + 1]
      BY <2>1, <2>2, QueuePlaces
    <2>4. ASSUME NEW w, Asks(w)' PROVE Asks(w)
      <3>1. w \in heard' \/ \E k \in DOMAIN toPeer' : Meaning(toPeer'[k]) = w
        BY <2>1, <2>4 DEF Asks, Meaning
      <3> QED BY <2>1, <2>3, <3>1 DEF Asks
    <2> QED BY <2>4
  <1>2. CASE PeerHandshake \/ PeerBitfield \/ PeerExtended \/ PeerUnchoke \/ PeerMetadata
    BY <1>2, AsksKept DEF PeerHandshake, PeerBitfield, PeerExtended, PeerUnchoke, PeerMetadata, Deliver,
       choice
  <1>3. CASE PeerControl \/ PeerClose \/ PeerReset \/ RstArrives
    BY <1>3, AsksKept DEF PeerControl, PeerClose, PeerReset, RstArrives, choice, remote
  <1> QED BY <1>1, <1>2, <1>3 DEF Peer, PeerSays

LEMMA AskedStep ==
  ASSUME SessionInv, Asked, Client \/ Peer
  PROVE  Asked'
  <1>1. TypeOK /\ ModeInv
    BY DEF SessionInv
  <1>2. CASE Client
    <2>1. pc = "interested" => mode \in {"establish", "magnet_download"}
      BY <1>1 DEF ModeInv
    <2> QED BY <1>1, <1>2, <2>1, ClientMoves, AsksClient DEF Asked, Terminal
  <1>3. CASE Peer
    <2>1. UNCHANGED <<mode, pc>> /\ \A w : Asks(w)' => Asks(w)
      BY <1>1, <1>3, PeerFrame, AsksPeer
    <2> QED BY <2>1 DEF Asked, Terminal
  <1> QED BY <1>2, <1>3


\* The messages on their way that are not control messages.
LEMMA PlainAnswers ==
  ASSUME TypeOK, NEW m \in Answers, Plain(m)
  PROVE  \/ m = Reply /\ Kind(m) = "handshake"
         \/ m = [type |-> "bitfield"] /\ Kind(m) = "bitfield"
         \/ m = [type |-> "unchoke"] /\ Kind(m) = "unchoke"
         \/ m = PeerHello /\ Kind(m) = "extended"
         \/ m = Metadata /\ Kind(m) = "metadata"
  <1>1. ~ \E k \in ControlKinds : m = [type |-> k]
    BY SessionAssumption DEF Plain
  <1>2. m \in {Reply, PeerHello, Metadata, [type |-> "bitfield"], [type |-> "unchoke"]}
    BY <1>1 DEF Answers
  <1>3. Kind(Reply) = "handshake"
    BY DEF Kind, Reply
  <1>4. Kind(PeerHello) = "extended"
    BY DEF Kind, PeerHello
  <1>5. Kind(Metadata) = "metadata"
    BY DEF Kind, Metadata, OurExtId
  <1>6. Kind([type |-> "bitfield"]) = "bitfield" /\ Kind([type |-> "unchoke"]) = "unchoke"
    BY DEF Kind
  <1> QED BY <1>2, <1>3, <1>4, <1>5, <1>6

\* The messages on their way are answers.
LEMMA QueuedAnswers ==
  ASSUME TypeOK
  PROVE  /\ toClient \in Seq(Answers)
         /\ \A k \in DOMAIN toClient : k \in Nat /\ toClient[k] \in Answers
  <1>1. toClient \in Seq(Answers)
    BY DEF TypeOK
  <1> QED BY <1>1

\* Messages stay single when some of them are taken or lost.
LEMMA SaidShift ==
  ASSUME SaidOnce, sent' = sent, NEW d \in 0 .. 1, DOMAIN toClient' \subseteq Nat,
         \A k \in DOMAIN toClient' : k + d \in DOMAIN toClient /\ toClient'[k] = toClient[k + d]
  PROVE  SaidOnce'
  <1>1. ASSUME NEW k \in DOMAIN toClient', Plain(toClient'[k]) PROVE Kind(toClient'[k]) \in sent'
    BY <1>1 DEF SaidOnce
  <1>2. ASSUME NEW j \in DOMAIN toClient', NEW k \in DOMAIN toClient', j # k,
               Plain(toClient'[j]), Plain(toClient'[k])
        PROVE  Kind(toClient'[j]) # Kind(toClient'[k])
    <2>1. j + d # k + d
      BY <1>2
    <2>2. j + d \in DOMAIN toClient /\ toClient'[j] = toClient[j + d]
          /\ k + d \in DOMAIN toClient /\ toClient'[k] = toClient[k + d]
      BY <1>2
    <2> QED BY <1>2, <2>1, <2>2 DEF SaidOnce
  <1> QED BY <1>1, <1>2 DEF SaidOnce, Plain, Kind

\* What is left when the client receives.
LEMMA Rest ==
  ASSUME TypeOK, Receive
  PROVE  /\ Incoming = toClient[1] /\ 1 \in DOMAIN toClient
         /\ DOMAIN toClient' \subseteq Nat
         /\ \A k \in DOMAIN toClient' :
              k # 0 /\ k + 1 \in DOMAIN toClient /\ toClient'[k] = toClient[k + 1]
  <1>1. toClient \in Seq(Answers) /\ toClient # << >> /\ toClient' = Tail(toClient)
    BY DEF TypeOK, Receive
  <1>2. toClient' \in Seq(Answers)
    BY <1>1, Queues
  <1> QED BY <1>1, <1>2, QueuePlaces DEF Incoming

\* One message more, of a kind not sent yet.
LEMMA SaidDeliver ==
  ASSUME TypeOK, SaidOnce, NEW m, NEW kind, toClient' = Append(toClient, m),
         \/ ~Plain(m) /\ sent' = sent
         \/ Kind(m) = kind /\ kind \notin sent /\ sent' = sent \cup {kind}
  PROVE  SaidOnce'
  <1>1. \A k \in DOMAIN toClient' :
          \/ k \in DOMAIN toClient /\ toClient'[k] = toClient[k]
          \/ k = Len(toClient) + 1 /\ toClient'[k] = m
    <2>1. toClient \in Seq(Answers)
      BY DEF TypeOK
    <2> QED BY <2>1
  <1>2. ASSUME NEW k \in DOMAIN toClient', Plain(toClient'[k]) PROVE Kind(toClient'[k]) \in sent'
    BY <1>1, <1>2 DEF SaidOnce
  <1>3. ASSUME NEW j \in DOMAIN toClient', NEW k \in DOMAIN toClient', j # k,
               Plain(toClient'[j]), Plain(toClient'[k])
        PROVE  Kind(toClient'[j]) # Kind(toClient'[k])
    BY <1>1, <1>3 DEF SaidOnce
  <1> QED BY <1>2, <1>3 DEF SaidOnce, Plain, Kind


LEMMA SaidStep ==
  ASSUME SessionInv, Asked, Said, Client \/ Peer
  PROVE  Said'
  <1>1. TypeOK /\ ReplyFirst /\ ModeInv /\ SaidOnce
    BY DEF SessionInv, Said
  <1>2. CASE Client
    <2>1. UNCHANGED <<mode, peer, heard, sent>>
      BY <1>1, <1>2, ClientMoves
    <2>2. SaidOnce'
      <3>1. CASE Receive
        BY <1>1, <2>1, <3>1, Rest, SaidShift
      <3>2. CASE toClient' = toClient
        BY <1>1, <2>1, <3>2 DEF SaidOnce, Plain, Kind
      <3>3. Receive \/ toClient' = toClient
        <4>1. CASE SendHandshake \/ SendInterested \/ Negotiate \/ RequestMetadata
          BY <4>1 DEF SendHandshake, SendInterested, Negotiate, RequestMetadata, Send
        <4>2. CASE NoExtensions \/ ReceiveFails
          BY <4>2 DEF NoExtensions, ReceiveFails, wires
        <4>3. CASE TakeHandshake \/ TakeFirst \/ TakeBitfield \/ TakeUnchoke \/ TakeExtended
                     \/ TakeMetadata \/ SkipKeepAlive \/ RejectMessage
          BY <4>3 DEF TakeHandshake, TakeFirst, TakeBitfield, TakeUnchoke, TakeExtended,
                      TakeMetadata, SkipKeepAlive, RejectMessage, Message
        <4> QED BY <1>2, <4>1, <4>2, <4>3 DEF Client
      <3> QED BY <3>1, <3>2, <3>3
    <2>3. pc' \notin {"handshake", "reply"} \cup Terminal => hasExt' = peer'.extensions
      <3>1. CASE TakeHandshake
        BY <1>1, <2>1, <3>1, ReplyBit DEF Terminal
      <3>2. CASE ~TakeHandshake
        <4>1. hasExt' = hasExt
          BY <1>2, <3>2 DEF Client, SendHandshake, TakeFirst, TakeBitfield, SendInterested, TakeUnchoke,
             Negotiate, NoExtensions, TakeExtended, RequestMetadata, TakeMetadata, SkipKeepAlive,
             RejectMessage, ReceiveFails, client
        <4>2. pc = "reply" => pc' \in {"reply"} \cup Terminal
          BY <1>2, <3>2 DEF Client, SendHandshake, TakeFirst, TakeBitfield, SendInterested, TakeUnchoke,
             Negotiate, NoExtensions, TakeExtended, RequestMetadata, TakeMetadata, SkipKeepAlive,
             RejectMessage, ReceiveFails, Throw, Terminal, AwaitsMessage
        <4> QED BY <1>1, <1>2, <2>1, <4>1, <4>2, ClientMoves DEF Said, Terminal
      <3> QED BY <3>1, <3>2
    <2> QED BY <2>1, <2>2, <2>3 DEF Said
  <1>3. CASE Peer
    <2>1. UNCHANGED <<peer, pc, hasExt>>
      BY <1>3, PeerFrame
    <2>2. /\ SaidOnce' /\ heard \subseteq heard'
          /\ "extended" \in sent' => "extended" \in sent \/ "extended" \in heard' \/ peer.eager
          /\ "unchoke" \in sent' => "unchoke" \in sent \/ "interested" \in heard' \/ peer.unasked
      <3>1. CASE PeerReads \/ PeerClose \/ RstArrives
        <4>1. UNCHANGED <<sent, toClient>> /\ heard \subseteq heard'
          BY <3>1 DEF PeerReads, PeerClose, RstArrives, remote
        <4>2. SaidOnce'
          BY <1>1, <4>1 DEF SaidOnce, Plain, Kind
        <4> QED BY <4>1, <4>2
      <3>2. CASE PeerHandshake \/ PeerBitfield \/ PeerExtended \/ PeerUnchoke \/ PeerMetadata
        <4>1. PICK kind, m : Due(kind, TRUE) /\ Deliver(kind, m) /\ Kind(m) = kind
                             /\ (kind = "extended" => peer.eager \/ "extended" \in heard)
                             /\ (kind = "unchoke" => peer.unasked \/ "interested" \in heard)
          <5>1. CASE PeerHandshake
            BY <5>1 DEF PeerHandshake, HandshakeDue, Due, Kind
          <5>2. CASE PeerBitfield
            BY <5>2 DEF PeerBitfield, BitfieldDue, Due, Kind
          <5>3. CASE PeerExtended
            <6> DEFINE hello == [type |-> "extended", id |-> 0, metadataId |-> peer.metadataId,
                  payload |-> IF peer.metadata = "not offered" THEN "bare handshake" ELSE "handshake"]
            <6>1. Deliver("extended", hello) /\ Due("extended", TRUE)
                  /\ (peer.eager \/ "extended" \in heard)
              BY <5>3 DEF PeerExtended, ExtendedDue, Due
            <6>2. Kind(hello) = "extended"
              BY DEF Kind
            <6> HIDE DEF hello
            <6> QED BY <6>1, <6>2
          <5>4. CASE PeerUnchoke
            BY <5>4 DEF PeerUnchoke, UnchokeDue, Due, Kind
          <5>5. CASE PeerMetadata
            BY <5>5 DEF PeerMetadata, MetadataDue, Due, Kind, OurExtId
          <5> QED BY <3>2, <5>1, <5>2, <5>3, <5>4, <5>5
        <4>2. toClient' = Append(toClient, m) /\ kind \notin sent /\ sent' = sent \cup {kind} /\ heard' = heard
          BY <4>1 DEF Due, Deliver
        <4> QED BY <1>1, <4>1, <4>2, SaidDeliver
      <3>3. CASE PeerControl
        <4>1. PICK k \in ControlKinds : toClient' = Append(toClient, [type |-> k])
          BY <3>3 DEF PeerControl
        <4>2. ~Plain([type |-> k])
          BY SessionAssumption DEF Plain
        <4>3. sent' = sent /\ heard' = heard
          BY <3>3 DEF PeerControl
        <4> QED BY <1>1, <4>1, <4>2, <4>3, SaidDeliver
      <3>4. CASE PeerReset
        <4>1. PICK n \in 0 .. Len(toClient) : toClient' = SubSeq(toClient, 1, n)
          BY <3>4 DEF PeerReset
        <4>2. sent' = sent /\ heard' = heard
          BY <3>4 DEF PeerReset, remote
        <4>3. toClient \in Seq(Answers)
          BY <1>1, QueuedAnswers
        <4>4. \A k \in DOMAIN toClient' : k \in Nat /\ k + 0 \in DOMAIN toClient /\ toClient'[k] = toClient[k + 0]
          BY <4>1, <4>3
        <4>5. SaidOnce'
          BY <1>1, <4>2, <4>4, SaidShift
        <4> QED BY <4>2, <4>5
      <3> QED BY <1>3, <3>1, <3>2, <3>3, <3>4 DEF Peer, PeerSays
    <2> QED BY <2>1, <2>2 DEF Said, Terminal
  <1> QED BY <1>2, <1>3

----------------------------------------------------------------------------
(* The signal *)

\* The connection, when the client has sent.
LEMMA SendLate ==
  ASSUME TypeOK, NEW m, NEW next \in {"reply", "unchoke", "extended", "metadata"}, Send(m, next)
  PROVE  /\ UNCHANGED <<mode, peer, sent, heard>>
         /\ \/ pc' = next
            \/ pc' = "failed"
            \/ pc' = "killed" /\ conn = "broken"
  BY DEF Send, Throw, choice, remote

\* No step of the client but a send changes the connection, and only a send is
\* ended by the signal.
LEMMA OtherLate ==
  ASSUME Client, ~SendHandshake, ~SendInterested, ~Negotiate, ~RequestMetadata, TypeOK
  PROVE  UNCHANGED <<mode, peer, conn, sent, heard>> /\ pc' # "killed"
  <1>1. CASE TakeHandshake
    <2>1. pc' \in {Handshaken, "failed"} /\ UNCHANGED <<mode, peer, conn, sent, heard>>
      BY <1>1 DEF TakeHandshake, Receive, Throw, choice, remote
    <2> QED BY <2>1, HandshakenLabel
  <1>2. CASE TakeFirst \/ TakeBitfield \/ TakeUnchoke \/ TakeExtended
    BY <1>2 DEF TakeFirst, TakeBitfield, TakeUnchoke, TakeExtended, Message, Receive, Unchoked, Throw,
                choice, remote
  <1>3. CASE TakeMetadata \/ SkipKeepAlive \/ RejectMessage
    BY <1>3 DEF TakeMetadata, SkipKeepAlive, RejectMessage, Message, Receive, Throw, AwaitsMessage,
                choice, remote
  <1>4. CASE NoExtensions \/ ReceiveFails
    BY <1>4 DEF NoExtensions, ReceiveFails, Throw, Awaits, AwaitsMessage, choice, remote, wires
  <1> QED BY <1>1, <1>2, <1>3, <1>4 DEF Client

LEMMA LateClient ==
  ASSUME SessionInv, Asked, Said, LateInv, Client
  PROVE  LateInv'
  <1>1. TypeOK /\ ReplyFirst /\ ModeInv /\ Told
    BY DEF SessionInv
  <1>2. "extended" \in sent => Asks("extended") \/ peer.eager
    BY DEF Said, Asks
  <1>3. "unchoke" \in sent => Asks("interested") \/ peer.unasked
    BY DEF Said, Asks
  <1>4. CASE SendHandshake
    <2>1. pc = "handshake" /\ Send([type |-> "handshake"], "reply")
      BY <1>4 DEF SendHandshake
    <2>2. "handshake" \notin sent /\ ~Late
      BY <1>1, <2>1 DEF ReplyFirst, LateInv
    <2> QED BY <1>1, <2>1, <2>2, SendLate DEF LateInv, Late
  <1>5. CASE SendInterested
    <2>1. pc = "interested" /\ Send([type |-> "interested"], "unchoke")
      BY <1>5 DEF SendInterested
    <2>2. ("unchoke" \notin sent \/ peer.unasked) /\ ~Late
      BY <1>3, <2>1 DEF Asked, LateInv
    <2> QED BY <1>1, <2>1, <2>2, SendLate DEF LateInv, Late
  <1>6. CASE Negotiate
    <2>1. pc = "negotiate" /\ Send([type |-> "extended", id |-> 0], "extended")
      BY <1>6 DEF Negotiate
    <2>2. /\ "extended" \notin sent \/ peer.eager
          /\ Late => mode = "magnet_download" /\ peer.unasked
      BY <1>2, <2>1 DEF Asked, LateInv, Terminal
    <2> QED BY <1>1, <2>1, <2>2, SendLate DEF LateInv, Late
  <1>7. CASE RequestMetadata
    <2>1. pc = "request" /\ Send([type |-> "extended", id |-> peerExtId], "metadata")
      BY <1>7 DEF RequestMetadata
    <2> QED BY <1>1, <2>1, SendLate DEF LateInv, Late
  <1>8. CASE ~SendHandshake /\ ~SendInterested /\ ~Negotiate /\ ~RequestMetadata
    <2>1. UNCHANGED <<mode, peer, conn, sent, heard>> /\ pc' # "killed"
      BY <1>1, <1>8, OtherLate
    <2>2. Late' = Late
      BY <2>1 DEF Late
    <2>3. CASE pc' \in {pc, "failed", "done"}
      BY <2>1, <2>2, <2>3 DEF LateInv
    <2>4. CASE TakeHandshake
      <3>1. "handshake" \in sent /\ pc = "reply"
        BY <1>1, <2>4, ReplyBit DEF TakeHandshake
      <3>2. ~Late' /\ pc' \notin {"request", "metadata"}
        BY <1>1, <2>2, <2>4, <3>1, ClientMoves DEF LateInv
      <3> QED BY <2>1, <3>2 DEF LateInv
    <2>5. CASE TakeFirst \/ TakeBitfield
      <3>1. ~Late' /\ pc' \notin {"request", "metadata"}
        BY <2>2, <2>5 DEF TakeFirst, TakeBitfield, Throw, LateInv
      <3> QED BY <2>1, <3>1 DEF LateInv
    <2>6. CASE TakeUnchoke /\ pc' # "failed"
      <3>1. pc = "unchoke" /\ Incoming.type = "unchoke" /\ Receive /\ pc' \notin {"request", "metadata"}
        BY <2>6 DEF TakeUnchoke, Message, Throw, Unchoked
      <3>2. "unchoke" \in sent
        BY <1>1, <3>1, Rest DEF Told
      <3>3. Late' => peer.unasked
        BY <2>2, <3>1, <3>2 DEF LateInv
      <3>4. pc' = "negotiate" => mode = "magnet_download"
        BY <2>6 DEF TakeUnchoke, Throw, Unchoked
      <3>5. pc' \in {"negotiate", "done"}
        BY <2>6 DEF TakeUnchoke, Throw, Unchoked
      <3> QED BY <2>1, <3>3, <3>4, <3>5 DEF LateInv
    <2>7. CASE TakeExtended /\ pc' \notin {"failed", "done"}
      <3>1. /\ pc = "extended" /\ IsExtHandshake /\ Message
            /\ pc' = "request" /\ mode # "magnet_handshake"
        BY <2>7 DEF TakeExtended, Throw
      <3>2. Receive
        BY <3>1 DEF Message
      <3>3. Incoming = PeerHello
        BY <1>1, <3>1, <3>2, HelloId
      <3>4. Plain(Incoming) /\ Kind(Incoming) = "extended"
        BY <3>3 DEF PeerHello, Plain, Kind, UnknownKinds
      <3>5. "extended" \in sent
        BY <1>1, <3>2, <3>4, Rest DEF Said, SaidOnce
      <3>6. Late => peer.eager
        BY <3>1, <3>5 DEF LateInv
      <3>7. mode \in {"magnet_info", "magnet_download"}
        BY <1>1, <3>1 DEF ModeInv
      <3> QED BY <2>1, <2>2, <3>1, <3>6, <3>7 DEF LateInv
    <2>8. CASE TakeMetadata \/ SkipKeepAlive \/ RejectMessage \/ NoExtensions \/ ReceiveFails
      <3>1. pc' \in {pc, "failed", "done"}
        BY <2>8 DEF TakeMetadata, SkipKeepAlive, RejectMessage, NoExtensions, ReceiveFails, Throw
      <3> QED BY <2>3, <3>1
    <2> QED BY <1>8, <2>3, <2>4, <2>5, <2>6, <2>7, <2>8 DEF Client
  <1> QED BY <1>4, <1>5, <1>6, <1>7, <1>8

LEMMA LatePeer ==
  ASSUME LateInv, Peer
  PROVE  LateInv'
  <1>1. UNCHANGED <<mode, peer, pc>>
    BY PeerFrame
  <1>2. ~Late' \/ (Late /\ sent' = sent)
    <2>1. CASE PeerSays \/ PeerControl
      BY <2>1 DEF PeerSays, PeerReads, PeerHandshake, PeerBitfield, PeerExtended, PeerUnchoke,
                  PeerMetadata, Deliver, PeerControl, Late
    <2>2. CASE PeerClose \/ PeerReset \/ RstArrives
      BY <2>2 DEF PeerClose, PeerReset, RstArrives, Late, remote
    <2> QED BY <2>1, <2>2 DEF Peer
  <1> QED BY <1>1, <1>2 DEF LateInv


----------------------------------------------------------------------------
(* Patient peers *)

\* A message taken from a patient peer is the expected one, and nothing of its
\* kind is left.
LEMMA TakenExpected ==
  ASSUME TypeOK, SaidOnce, OnlyExpected, Receive
  PROVE  /\ Plain(Incoming) => Kind(Incoming) \in Expected /\ Kind(Incoming) \in sent
         /\ \A k \in DOMAIN toClient' : Plain(toClient'[k]) =>
              /\ Kind(toClient'[k]) \in Expected
              /\ Plain(Incoming) => Kind(toClient'[k]) # Kind(Incoming)
  <1>1. Incoming = toClient[1] /\ 1 \in DOMAIN toClient
    BY Rest
  <1>2. ASSUME NEW k \in DOMAIN toClient'
        PROVE  k + 1 # 1 /\ k + 1 \in DOMAIN toClient /\ toClient'[k] = toClient[k + 1]
    BY <1>2, Rest
  <1>3. Plain(Incoming) => Kind(Incoming) \in Expected /\ Kind(Incoming) \in sent
    BY <1>1 DEF SaidOnce, OnlyExpected
  <1>4. ASSUME NEW k \in DOMAIN toClient', Plain(toClient'[k])
        PROVE  /\ Kind(toClient'[k]) \in Expected
               /\ Plain(Incoming) => Kind(toClient'[k]) # Kind(Incoming)
    BY <1>1, <1>2, <1>4 DEF SaidOnce, OnlyExpected
  <1> QED BY <1>3, <1>4

\* What the client takes from a patient peer is what it waits for.
LEMMA OrderlyTake ==
  ASSUME SessionInv, Said, OnlyExpected, Patient,
         TakeHandshake \/ TakeFirst \/ TakeBitfield \/ TakeUnchoke \/ TakeExtended \/ TakeMetadata
  PROVE  /\ pc' # "failed"
         /\ pc' \notin Terminal => OnlyExpected'
         /\ pc \in {"first", "bitfield"} => "bitfield" \in sent
         /\ pc = "extended" => "extended" \in sent
  <1> USE DEF Terminal
  <1>1. TypeOK /\ ReplyFirst /\ SaidOnce
    BY DEF SessionInv, Said
  <1>2. Receive
    BY DEF TakeHandshake, TakeFirst, TakeBitfield, TakeUnchoke, TakeExtended, TakeMetadata, Message
  <1>3. Incoming \in Answers /\ Incoming = toClient[1]
    BY <1>1, <1>2, TypeReceive, Rest
  <1>4. /\ Plain(Incoming) => Kind(Incoming) \in Expected /\ Kind(Incoming) \in sent
        /\ \A k \in DOMAIN toClient' : Plain(toClient'[k]) =>
             /\ Kind(toClient'[k]) \in Expected
             /\ Plain(Incoming) => Kind(toClient'[k]) # Kind(Incoming)
    BY <1>1, <1>2, TakenExpected
  <1>5. ASSUME Plain(Incoming), pc # "reply" PROVE Expected = {Kind(Incoming)} /\ OnlyExpected'
    <2>1. Expected = {Kind(Incoming)}
      BY <1>4, <1>5 DEF Expected
    <2>2. \A k \in DOMAIN toClient' : ~Plain(toClient'[k])
      BY <1>4, <1>5, <2>1
    <2> QED BY <2>1, <2>2 DEF OnlyExpected, Plain
  <1>6. CASE TakeHandshake
    <2>1. pc = "reply" /\ Incoming = Reply /\ "handshake" \in sent
      BY <1>1, <1>6 DEF TakeHandshake, Receive, ReplyFirst, Incoming
    <2>2. Plain(Incoming) /\ Kind(Incoming) = "handshake"
      BY <2>1 DEF Reply, Plain, Kind, UnknownKinds
    <2>3. Expected = {"handshake", "bitfield"}
      BY <2>1 DEF Expected
    <2>4. pc' \in {"done", "first", "bitfield"} /\ pc' # "failed"
      BY <1>1, <1>6, ReplyBit, HandshakenLabel DEF Patient
    <2>5. pc' \in {"first", "bitfield"} => Expected' = {"bitfield"}
      BY DEF Expected
    <2>6. \A k \in DOMAIN toClient' : Plain(toClient'[k]) => Kind(toClient'[k]) = "bitfield"
      BY <1>4, <2>2, <2>3
    <2>7. pc' \notin Terminal => OnlyExpected'
      BY <2>4, <2>5, <2>6 DEF OnlyExpected, Plain, Kind
    <2> QED BY <2>1, <2>4, <2>7
  <1>7. ASSUME Message PROVE Plain(Incoming)
    BY <1>7 DEF Message, Plain
  <1>8. CASE TakeFirst \/ TakeBitfield
    <2>1. Message /\ pc \in {"first", "bitfield"} /\ pc # "reply"
      BY <1>8 DEF TakeFirst, TakeBitfield
    <2>2. Plain(Incoming) /\ Expected = {Kind(Incoming)} /\ OnlyExpected' /\ Kind(Incoming) \in sent
      BY <1>4, <1>5, <1>7, <2>1
    <2>3. Expected = {"bitfield"}
      BY <2>1 DEF Expected
    <2>4. Kind(Incoming) = "bitfield"
      BY <2>2, <2>3
    <2>5. Incoming.type = "bitfield"
      BY <2>4 DEF Kind
    <2>6. pc' # "failed"
      BY <1>8, <2>5 DEF TakeFirst, TakeBitfield
    <2> QED BY <2>1, <2>2, <2>4, <2>6
  <1>9. CASE TakeUnchoke
    <2>1. Message /\ pc = "unchoke"
      BY <1>9 DEF TakeUnchoke
    <2>2. Expected = {Kind(Incoming)} /\ OnlyExpected' /\ Expected = {"unchoke"}
      BY <1>5, <1>7, <2>1 DEF Expected
    <2>3. Incoming.type = "unchoke"
      BY <2>2 DEF Kind
    <2>4. pc' # "failed"
      BY <1>9, <2>3 DEF TakeUnchoke, Unchoked
    <2> QED BY <2>1, <2>2, <2>4
  <1>10. CASE TakeExtended
    <2>1. Message /\ pc = "extended"
      BY <1>10 DEF TakeExtended
    <2>2. /\ Plain(Incoming) /\ Kind(Incoming) \in sent
          /\ Expected = {Kind(Incoming)} /\ OnlyExpected' /\ Expected = {"extended"}
      BY <1>4, <1>5, <1>7, <2>1 DEF Expected
    <2>3. Incoming = PeerHello
      BY <1>1, <1>3, <2>2, PlainAnswers
    <2>4. IsExtHandshake
      BY <2>3 DEF IsExtHandshake, PeerHello, Patient
    <2>5. pc' # "failed"
      BY <1>10, <2>4 DEF TakeExtended
    <2> QED BY <2>1, <2>2, <2>5
  <1>11. CASE TakeMetadata
    <2>1. Message /\ pc = "metadata"
      BY <1>11 DEF TakeMetadata
    <2>2. Plain(Incoming) /\ Expected = {Kind(Incoming)} /\ OnlyExpected' /\ Expected = {"metadata"}
      BY <1>5, <1>7, <2>1 DEF Expected
    <2>3. Incoming = Metadata
      BY <1>1, <1>3, <2>2, PlainAnswers
    <2>4. IsMetadata
      BY <2>3 DEF IsMetadata, Metadata, Patient, Verified
    <2>5. pc' # "failed"
      BY <1>11, <2>4 DEF TakeMetadata
    <2> QED BY <2>1, <2>2, <2>5
  <1> QED BY <1>6, <1>8, <1>9, <1>10, <1>11

LEMMA OrderlyClient ==
  ASSUME SessionInv, Asked, Said, Orderly, Client
  PROVE  Orderly'
  <1> USE DEF Terminal
  <1>1. TypeOK /\ ReplyFirst /\ ModeInv /\ SaidOnce
    BY DEF SessionInv, Said
  <1>2. UNCHANGED <<mode, peer, sent, heard>> /\ pc \notin Terminal
    BY <1>1, ClientMoves
  <1> SUFFICES ASSUME Patient PROVE Orderly'
    BY <1>2 DEF Orderly, Patient
  <1>3. OnlyExpected
    BY <1>2 DEF Orderly
  <1>4. SUFFICES /\ pc' \notin Terminal => OnlyExpected'
                 /\ pc \in {"first", "bitfield"} => "bitfield" \in sent \/ pc' \in {pc, "failed"}
                 /\ pc = "extended" => "extended" \in sent \/ pc' \in {pc, "failed"}
                 /\ conn' = "open" /\ error' # "unknown message id" => pc' # "failed"
    <2>1. pc' \in {"interested", "unchoke", "negotiate", "extended", "request", "metadata"} =>
            "bitfield" \in sent
      BY <1>1, <1>2, <1>4, ClientMoves DEF Orderly
    <2>2. pc' \in {"request", "metadata"} => "extended" \in sent
      BY <1>1, <1>2, <1>4, ClientMoves DEF Orderly
    <2> QED BY <1>2, <1>4, <2>1, <2>2 DEF Orderly
  <1>5. CASE SendHandshake \/ SendInterested \/ Negotiate \/ RequestMetadata
    <2>1. PICK m, next : Send(m, next) /\ next \in {"reply", "unchoke", "extended", "metadata"}
      BY <1>5 DEF SendHandshake, SendInterested, Negotiate, RequestMetadata
    <2>2. toClient' = toClient /\ (pc' = "failed" => conn' # "open")
      BY <2>1 DEF Send
    <2>3. pc \in {"handshake", "interested", "negotiate", "request"}
      BY <1>5 DEF SendHandshake, SendInterested, Negotiate, RequestMetadata
    <2>4. Expected = {}
      BY <2>3 DEF Expected
    <2>5. \A k \in DOMAIN toClient' : ~Plain(toClient'[k])
      BY <1>3, <2>2, <2>4 DEF OnlyExpected
    <2>6. OnlyExpected'
      BY <2>5 DEF OnlyExpected, Plain
    <2> QED BY <2>2, <2>3, <2>6
  <1>6. CASE TakeHandshake \/ TakeFirst \/ TakeBitfield \/ TakeUnchoke \/ TakeExtended \/ TakeMetadata
    BY <1>3, <1>6, OrderlyTake
  <1>7. CASE NoExtensions
    <2>1. hasExt = peer.extensions /\ pc = "negotiate" /\ ~hasExt
      BY <1>7 DEF NoExtensions, Said
    <2> QED BY <2>1 DEF Patient
  <1>8. CASE SkipKeepAlive
    <2>1. Receive /\ pc' = pc /\ pc \notin Terminal
      BY <1>2, <1>8 DEF SkipKeepAlive
    <2>2. Expected' = Expected
      BY <2>1 DEF Expected
    <2>3. \A k \in DOMAIN toClient' : Plain(toClient'[k]) => Kind(toClient'[k]) \in Expected
      BY <1>1, <1>3, <2>1, TakenExpected
    <2>4. OnlyExpected'
      BY <2>2, <2>3 DEF OnlyExpected, Plain, Kind
    <2> QED BY <2>1, <2>4
  <1>9. CASE RejectMessage
    BY <1>9 DEF RejectMessage, Throw
  <1>10. CASE ReceiveFails
    BY <1>10 DEF ReceiveFails, Throw, wires
  <1> QED BY <1>5, <1>6, <1>7, <1>8, <1>9, <1>10 DEF Client

\* A patient peer says what the client waits for.
LEMMA OrderlySays ==
  ASSUME SessionInv, Asked, Said, Orderly, Patient, pc \notin Terminal, NEW kind,
         \/ kind = "handshake" /\ PeerHandshake
         \/ kind = "bitfield" /\ PeerBitfield
         \/ kind = "extended" /\ PeerExtended
         \/ kind = "unchoke" /\ PeerUnchoke
         \/ kind = "metadata" /\ PeerMetadata
  PROVE  kind \in Expected
  <1>1. TypeOK /\ ReplyFirst /\ Told
    BY DEF SessionInv
  <1>2. pc \in Labels
    BY <1>1 DEF TypeOK
  <1>3. CASE PeerHandshake /\ kind = "handshake"
    <2>1. "handshake" \notin sent /\ "handshake" \in heard
      BY <1>3 DEF PeerHandshake, HandshakeDue, Due
    <2>2. pc = "reply"
      BY <1>1, <2>1 DEF ReplyFirst
    <2> QED BY <1>3, <2>2 DEF Expected
  <1>4. CASE PeerBitfield /\ kind = "bitfield"
    <2>1. "bitfield" \notin sent /\ "handshake" \in sent
      BY <1>4 DEF PeerBitfield, BitfieldDue, Due
    <2>2. pc \in {"reply", "first", "bitfield"}
      BY <1>1, <1>2, <2>1 DEF ReplyFirst, Orderly, Labels, Awaits, AwaitsMessage
    <2> QED BY <1>4, <2>2 DEF Expected
  <1>5. CASE PeerExtended /\ kind = "extended"
    <2>1. "extended" \notin sent /\ "extended" \in heard
      BY <1>5 DEF PeerExtended, ExtendedDue, Due, Patient
    <2>2. pc \in {"extended", "request", "metadata"}
      BY <2>1 DEF Asked, Asks
    <2>3. pc = "extended"
      BY <2>1, <2>2 DEF Orderly
    <2> QED BY <1>5, <2>3 DEF Expected
  <1>6. CASE PeerUnchoke /\ kind = "unchoke"
    <2>1. "unchoke" \notin sent /\ "interested" \in heard
      BY <1>6 DEF PeerUnchoke, UnchokeDue, Due, Patient
    <2>2. /\ mode \in {"establish", "magnet_download"}
          /\ pc \notin {"handshake", "reply", "first", "bitfield", "interested"}
      BY <2>1 DEF Asked, Asks
    <2>3. pc = "unchoke"
      BY <1>1, <1>2, <2>1, <2>2 DEF Told, Labels, Awaits, AwaitsMessage, Terminal
    <2> QED BY <1>6, <2>3 DEF Expected
  <1>7. CASE PeerMetadata /\ kind = "metadata"
    <2>1. "request" \in heard
      BY <1>7 DEF PeerMetadata, MetadataDue, Due
    <2>2. pc = "metadata"
      BY <2>1 DEF Asked, Asks
    <2> QED BY <1>7, <2>2 DEF Expected
  <1> QED BY <1>3, <1>4, <1>5, <1>6, <1>7

LEMMA OrderlyPeer ==
  ASSUME SessionInv, Asked, Said, Orderly, Peer
  PROVE  Orderly'
  <1>1. TypeOK
    BY DEF SessionInv
  <1>2. UNCHANGED <<mode, peer, pc, error>> /\ pc \notin Terminal
    BY PeerFrame
  <1>3. Expected' = Expected
    BY <1>2 DEF Expected
  <1> SUFFICES ASSUME Patient PROVE Orderly'
    BY <1>2 DEF Orderly, Patient
  <1>4. OnlyExpected
    BY <1>2 DEF Orderly
  <1>5. sent \subseteq sent' /\ (conn' = "open" => conn = "open")
    <2>1. CASE PeerSays \/ PeerControl
      BY <2>1 DEF PeerSays, PeerReads, PeerHandshake, PeerBitfield, PeerExtended, PeerUnchoke,
                  PeerMetadata, Deliver, PeerControl
    <2>2. CASE PeerClose \/ PeerReset \/ RstArrives
      BY <2>2 DEF PeerClose, PeerReset, RstArrives, remote
    <2> QED BY <2>1, <2>2 DEF Peer
  <1>6. \A k \in DOMAIN toClient' : Plain(toClient'[k]) => Kind(toClient'[k]) \in Expected
    <2>1. CASE PeerReads \/ PeerClose \/ RstArrives
      BY <1>4, <2>1 DEF PeerReads, PeerClose, RstArrives, OnlyExpected
    <2>2. CASE PeerHandshake \/ PeerBitfield \/ PeerExtended \/ PeerUnchoke \/ PeerMetadata
                 \/ PeerControl
      <3>1. PICK m : toClient' = Append(toClient, m) /\ (Plain(m) => Kind(m) \in Expected)
        <4>1. CASE PeerHandshake
          BY <1>2, <4>1, OrderlySays DEF PeerHandshake, Deliver, Kind
        <4>2. CASE PeerBitfield
          BY <1>2, <4>2, OrderlySays DEF PeerBitfield, Deliver, Kind
        <4>3. CASE PeerExtended
          <5>1. "extended" \in Expected
            BY <1>2, <4>3, OrderlySays
          <5>2. toClient' = Append(toClient, PeerHello)
            BY <4>3 DEF PeerExtended, Deliver, PeerHello
          <5>3. Kind(PeerHello) = "extended"
            BY DEF Kind, PeerHello
          <5> QED BY <5>1, <5>2, <5>3
        <4>4. CASE PeerUnchoke
          BY <1>2, <4>4, OrderlySays DEF PeerUnchoke, Deliver, Kind
        <4>5. CASE PeerMetadata
          BY <1>2, <4>5, OrderlySays DEF PeerMetadata, Deliver, Kind, OurExtId
        <4>6. CASE PeerControl
          BY <4>6, SessionAssumption DEF PeerControl, Plain
        <4> QED BY <2>2, <4>1, <4>2, <4>3, <4>4, <4>5, <4>6
      <3>2. \A k \in DOMAIN toClient' :
              (k \in DOMAIN toClient /\ toClient'[k] = toClient[k]) \/ toClient'[k] = m
        BY <1>1, <3>1, QueuedAnswers, QueuePlaces
      <3> QED BY <1>4, <3>1, <3>2 DEF OnlyExpected
    <2>3. CASE PeerReset
      <3>1. PICK n \in 0 .. Len(toClient) : toClient' = SubSeq(toClient, 1, n)
        BY <2>3 DEF PeerReset
      <3>2. \A k \in DOMAIN toClient' : k \in DOMAIN toClient /\ toClient'[k] = toClient[k]
        BY <1>1, <3>1, QueuedAnswers, QueuePlaces
      <3> QED BY <1>4, <3>2 DEF OnlyExpected
    <2> QED BY <2>1, <2>2, <2>3 DEF Peer, PeerSays
  <1>7. OnlyExpected'
    BY <1>3, <1>6 DEF OnlyExpected, Plain, Kind
  <1> QED BY <1>2, <1>5, <1>7 DEF Orderly

----------------------------------------------------------------------------
(* The theorems about turns *)

\* Client and peer take turns, as far as the protocol makes them.
THEOREM TurnsInvariant == Spec => []TurnsInv
  <1>1. Init => TurnsInv
    <2> SUFFICES ASSUME Init PROVE TurnsInv
      OBVIOUS
    <2> USE DEF Init
    <2>1. Asked
      BY DEF Asked, Asks
    <2>2. Said
      BY DEF Said, SaidOnce
    <2>3. LateInv
      BY DEF LateInv, Late
    <2>4. Orderly
      BY DEF Orderly, OnlyExpected
    <2> QED BY <2>1, <2>2, <2>3, <2>4 DEF TurnsInv
  <1>2. SessionInv /\ TurnsInv /\ [Next]_vars => TurnsInv'
    <2> SUFFICES ASSUME SessionInv, TurnsInv, [Next]_vars PROVE TurnsInv'
      OBVIOUS
    <2> USE DEF TurnsInv
    <2>1. CASE Client
      BY <2>1, AskedStep, SaidStep, LateClient, OrderlyClient
    <2>2. CASE Peer
      BY <2>2, AskedStep, SaidStep, LatePeer, OrderlyPeer
    <2>3. CASE UNCHANGED vars
      <3>1. UNCHANGED <<mode, peer, pc, hasExt, error, toPeer, toClient, conn, heard, sent>>
        BY <2>3 DEF vars, choice, client, wires, remote
      <3>2. Asked'
        BY <3>1, AsksKept DEF Asked
      <3>3. Said'
        BY <3>1 DEF Said, SaidOnce, Plain, Kind
      <3>4. LateInv'
        BY <3>1 DEF LateInv, Late
      <3>5. Orderly'
        BY <3>1 DEF Orderly, OnlyExpected, Patient, Expected, Plain, Kind
      <3> QED BY <3>2, <3>3, <3>4, <3>5
    <2> QED BY <2>1, <2>2, <2>3 DEF Next, Stopped
  <1> QED BY <1>1, <1>2, Invariant, PTL DEF Spec

\* util::send_all while a connection is set up: SIGPIPE ends the program only
\* after an extension handshake or an unchoke that was sent unasked, because a
\* receive lies between any two sends.
THEOREM SignalsAreRare == Spec => []SignalNeedsEagerPeer
  <1>1. TurnsInv => SignalNeedsEagerPeer
    BY DEF TurnsInv, LateInv, SignalNeedsEagerPeer
  <1> QED BY <1>1, TurnsInvariant, PTL

\* establish_connection, ext_handshake and magnet_info_on_connection: taking the
\* next message for the expected one refuses no peer that waits its turn.
THEOREM PatientPeersGetThrough == Spec => []PatientPeersAreServed
  <1>1. TurnsInv => PatientPeersAreServed
    BY DEF TurnsInv, Orderly, Patient, PatientPeersAreServed
  <1> QED BY <1>1, TurnsInvariant, PTL

----------------------------------------------------------------------------
(* Waiting *)

\* A message of this kind is on its way to the client.
Underway(w) == \E k \in DOMAIN toClient : Plain(toClient[k]) /\ Kind(toClient[k]) = w

\* What the client waits for it has asked for, and it asks for metadata or for
\* blocks when it has said that it is interested.
Requested ==
  /\ pc \notin {"handshake"} \cup Terminal => Asks("handshake")
  /\ pc = "unchoke" => Asks("interested")
  /\ mode \in {"establish", "magnet_download"}
       /\ pc \in {"done", "negotiate", "extended", "request", "metadata"} => Asks("interested")
  /\ pc = "extended" => Asks("extended")
  /\ pc = "metadata" /\ peer.metadataId \in 1 .. 255 => Asks("request")

\* What the peer has sent, and the client's path has not come by, is still on
\* its way.  Before it reads the extension handshake, a client reads one of the
\* other two at most.
Unread ==
  /\ pc \in {"handshake", "reply"} => \A w \in sent : Underway(w)
  /\ pc \in {"first", "bitfield"} => \A w \in sent \ {"handshake"} : Underway(w)
  /\ pc \in {"interested", "unchoke"} => \A w \in sent \ {"handshake", "bitfield"} : Underway(w)
  /\ pc \in {"negotiate", "extended"} /\ {"bitfield", "extended"} \subseteq sent =>
       Underway("bitfield") \/ Underway("extended")
  /\ pc = "metadata" /\ "metadata" \in sent => Underway("metadata")

WaitInv ==
  /\ "metadata" \in sent => "request" \in heard
  /\ conn = "open" => Requested /\ Unread

\* A message on its way stays so until it is received.
LEMMA UnderwayKept ==
  ASSUME UNCHANGED toClient
  PROVE  \A w : Underway(w) => Underway(w)'
  BY DEF Underway, Plain, Kind

LEMMA UnderwayReceive ==
  ASSUME TypeOK, Receive
  PROVE  \A w : Underway(w) => Underway(w)' \/ (Plain(Incoming) /\ Kind(Incoming) = w)
  <1>1. toClient \in Seq(Answers) /\ toClient # << >> /\ toClient' = Tail(toClient)
    BY DEF TypeOK, Receive
  <1>2. \A k \in DOMAIN toClient :
          \/ toClient[k] = Incoming
          \/ k - 1 \in DOMAIN toClient' /\ toClient'[k - 1] = toClient[k]
    BY <1>1 DEF Incoming
  <1> QED BY <1>2 DEF Underway, Plain, Kind

LEMMA UnderwayDeliver ==
  ASSUME TypeOK, NEW m, toClient' = Append(toClient, m)
  PROVE  /\ \A w : Underway(w) => Underway(w)'
         /\ Plain(m) => Underway(Kind(m))'
  <1>1. toClient \in Seq(Answers)
    BY DEF TypeOK
  <1>2. /\ \A k \in DOMAIN toClient : k \in DOMAIN toClient' /\ toClient'[k] = toClient[k]
        /\ Len(toClient) + 1 \in DOMAIN toClient' /\ toClient'[Len(toClient) + 1] = m
    BY <1>1
  <1> QED BY <1>2 DEF Underway, Plain, Kind

\* util::send_all over an open connection: what is sent is asked for.
LEMMA AsksSent ==
  ASSUME TypeOK, NEW m, NEW next, Send(m, next), conn' = "open"
  PROVE  /\ conn = "open" /\ pc' = next /\ UNCHANGED <<mode, peer, toClient, heard, sent>>
         /\ \A w : w = Meaning(m) \/ Asks(w) => Asks(w)'
  <1>1. /\ conn = "open" /\ pc' = next /\ toPeer' = Append(toPeer, m)
        /\ UNCHANGED <<mode, peer, toClient, heard, sent>>
    BY DEF Send, choice, remote
  <1>2. toPeer \in Seq(Outgoing)
    BY DEF TypeOK
  <1>3. /\ \A k \in DOMAIN toPeer : k \in DOMAIN toPeer' /\ toPeer'[k] = toPeer[k]
        /\ Len(toPeer) + 1 \in DOMAIN toPeer' /\ toPeer'[Len(toPeer) + 1] = m
    BY <1>1, <1>2
  <1>4. \A w : Asks(w)' <=> w \in heard \/ \E k \in DOMAIN toPeer' : Meaning(toPeer'[k]) = w
    BY <1>1 DEF Asks, Meaning
  <1>5. ASSUME NEW w, w = Meaning(m) \/ Asks(w) PROVE Asks(w)'
    BY <1>3, <1>4, <1>5 DEF Asks
  <1> QED BY <1>1, <1>5

\* What the peer was asked stays asked: it is heard when it is read.
LEMMA AsksStay ==
  ASSUME TypeOK, Peer
  PROVE  \A w : Asks(w) => Asks(w)'
  <1>1. CASE PeerReads
    <2>1. /\ toPeer # << >> /\ heard' = heard \cup {Meaning(Head(toPeer))} /\ toPeer' = Tail(toPeer)
          /\ peer' = peer
      BY <1>1 DEF PeerReads, choice
    <2>2. toPeer \in Seq(Outgoing)
      BY DEF TypeOK
    <2>3. \A k \in DOMAIN toPeer :
            \/ toPeer[k] = Head(toPeer)
            \/ k - 1 \in DOMAIN toPeer' /\ toPeer'[k - 1] = toPeer[k]
      BY <2>1, <2>2
    <2>4. \A w : Asks(w)' <=> w \in heard' \/ \E k \in DOMAIN toPeer' : Meaning(toPeer'[k]) = w
      BY <2>1 DEF Asks, Meaning
    <2> QED BY <2>1, <2>3, <2>4 DEF Asks
  <1>2. CASE PeerHandshake \/ PeerBitfield \/ PeerExtended \/ PeerUnchoke \/ PeerMetadata
    BY <1>2, AsksKept DEF PeerHandshake, PeerBitfield, PeerExtended, PeerUnchoke, PeerMetadata, Deliver,
       choice
  <1>3. CASE PeerControl \/ PeerClose \/ PeerReset \/ RstArrives
    BY <1>3, AsksKept DEF PeerControl, PeerClose, PeerReset, RstArrives, choice, remote
  <1> QED BY <1>1, <1>2, <1>3 DEF Peer, PeerSays

\* A send on the way keeps what the client waits for asked.
LEMMA WaitSend ==
  ASSUME SessionInv, TurnsInv, WaitInv, conn' = "open",
         SendHandshake \/ SendInterested \/ Negotiate \/ RequestMetadata
  PROVE  Requested' /\ Unread'
  <1> USE DEF Terminal
  <1>1. TypeOK /\ ReplyFirst /\ ModeInv /\ Told /\ Asked
    BY DEF SessionInv, TurnsInv
  <1>2. \E m, next :
          /\ Send(m, next)
          /\ \/ pc = "handshake" /\ next = "reply" /\ Meaning(m) = "handshake"
             \/ pc = "interested" /\ next = "unchoke" /\ Meaning(m) = "interested"
             \/ pc = "negotiate" /\ next = "extended" /\ Meaning(m) = "extended"
             \/ /\ pc = "request" /\ next = "metadata"
                /\ peer.metadataId \in 1 .. 255 => Meaning(m) = "request"
    <2>1. CASE SendHandshake
      BY <2>1 DEF SendHandshake, Meaning
    <2>2. CASE SendInterested
      BY <2>2 DEF SendInterested, Meaning
    <2>3. CASE Negotiate
      BY <2>3 DEF Negotiate, Meaning
    <2>4. CASE RequestMetadata
      <3>1. pc = "request" /\ Send([type |-> "extended", id |-> peerExtId], "metadata")
        BY <2>4 DEF RequestMetadata
      <3>2. peerExtId = ToByte(peer.metadataId)
        BY <1>1, <3>1 DEF ModeInv, TypeOK
      <3>3. peer.metadataId \in 1 .. 255 => peerExtId = peer.metadataId /\ peer.metadataId # 0
        BY <3>2, ByteRange
      <3>4. peer.metadataId \in 1 .. 255 =>
              Meaning([type |-> "extended", id |-> peerExtId]) = "request"
        BY <3>3 DEF Meaning
      <3> QED BY <3>1, <3>4
    <2> QED BY <2>1, <2>2, <2>3, <2>4
  <1>3. PICK m, next :
          /\ Send(m, next)
          /\ \/ pc = "handshake" /\ next = "reply" /\ Meaning(m) = "handshake"
             \/ pc = "interested" /\ next = "unchoke" /\ Meaning(m) = "interested"
             \/ pc = "negotiate" /\ next = "extended" /\ Meaning(m) = "extended"
             \/ /\ pc = "request" /\ next = "metadata"
                /\ peer.metadataId \in 1 .. 255 => Meaning(m) = "request"
    BY <1>2
  <1>4. /\ conn = "open" /\ pc' = next /\ UNCHANGED <<mode, peer, toClient, heard, sent>>
        /\ \A w : w = Meaning(m) \/ Asks(w) => Asks(w)'
    BY <1>1, <1>3, AsksSent
  <1>5. Requested /\ Unread /\ ("metadata" \in sent => "request" \in heard)
    BY <1>4 DEF WaitInv
  <1>6. Requested'
    BY <1>3, <1>4, <1>5 DEF Requested
  <1>7. \A w : Underway(w) => Underway(w)'
    BY <1>4, UnderwayKept
  <1>8. pc = "request" => "metadata" \notin sent
    BY <1>1, <1>5 DEF Asked, Asks
  <1>9. Unread'
    BY <1>3, <1>4, <1>5, <1>7, <1>8 DEF Unread
  <1> QED BY <1>6, <1>9

\* A message that the client receives is of the kind that its path comes by.
LEMMA WaitReceive ==
  ASSUME SessionInv, TurnsInv, WaitInv, conn = "open",
         \/ TakeHandshake \/ TakeFirst \/ TakeBitfield \/ TakeUnchoke \/ TakeExtended \/ TakeMetadata
         \/ SkipKeepAlive \/ RejectMessage
  PROVE  Requested' /\ Unread'
  <1> USE DEF Terminal
  <1>1. TypeOK /\ ReplyFirst /\ Client
    BY DEF SessionInv, Client
  <1>2. Requested /\ Unread
    BY DEF WaitInv
  <1>3. Receive
    BY DEF TakeHandshake, TakeFirst, TakeBitfield, TakeUnchoke, TakeExtended, TakeMetadata, Message,
           SkipKeepAlive, RejectMessage
  <1>4. UNCHANGED <<peer, toPeer, heard, sent>>
    BY <1>3 DEF Receive, choice, remote
  <1>5. \A w : Asks(w)' = Asks(w)
    BY <1>4, AsksKept
  <1>6. \A w : Underway(w) => Underway(w)' \/ (Plain(Incoming) /\ Kind(Incoming) = w)
    BY <1>1, <1>3, UnderwayReceive
  <1>7. \/ pc' \in {"failed", "done"}
        \/ pc' = pc /\ ~Plain(Incoming)
        \/ pc = "reply" /\ pc' \in {"first", "bitfield"} /\ Kind(Incoming) = "handshake"
        \/ pc = "first" /\ pc' = "negotiate"
        \/ pc = "bitfield" /\ pc' = "interested" /\ Kind(Incoming) = "bitfield"
        \/ pc = "unchoke" /\ pc' = "negotiate" /\ Kind(Incoming) = "unchoke"
        \/ pc = "extended" /\ pc' = "request"
    <2>1. CASE TakeHandshake
      <3>1. Incoming = Reply /\ pc = "reply" /\ pc' \in {Handshaken, "failed"}
        BY <1>1, <2>1, ReplyBit
      <3>2. Kind(Reply) = "handshake"
        BY DEF Reply, Kind
      <3> QED BY <1>1, <3>1, <3>2, HandshakenLabel
    <2>2. CASE TakeFirst \/ TakeBitfield \/ TakeUnchoke
      BY <2>2 DEF TakeFirst, TakeBitfield, TakeUnchoke, Unchoked, Throw, Kind
    <2>3. CASE TakeExtended \/ TakeMetadata
      BY <2>3 DEF TakeExtended, TakeMetadata, Throw
    <2>4. CASE SkipKeepAlive \/ RejectMessage
      BY <2>4 DEF SkipKeepAlive, RejectMessage, Throw, Plain
    <2> QED BY <2>1, <2>2, <2>3, <2>4
  <1>8. Requested'
    <2>1. pc' = "done" /\ mode \in {"establish", "magnet_download"} =>
            pc \in {"unchoke", "negotiate", "extended", "request", "metadata"}
      <3>1. TakeHandshake => pc' # "done" \/ mode = "handshake"
        BY <1>1, HandshakenLabel DEF TakeHandshake, Throw
      <3>2. SkipKeepAlive \/ RejectMessage => pc' = "failed" \/ (pc' = pc /\ pc # "done")
        BY DEF SkipKeepAlive, RejectMessage, Throw, AwaitsMessage
      <3>3. TakeFirst \/ TakeBitfield => pc' # "done"
        BY DEF TakeFirst, TakeBitfield, Throw
      <3>4. TakeUnchoke \/ TakeExtended \/ TakeMetadata => pc \in {"unchoke", "extended", "metadata"}
        BY DEF TakeUnchoke, TakeExtended, TakeMetadata
      <3> QED BY <3>1, <3>2, <3>3, <3>4
    <2>2. pc' = "negotiate" /\ pc # "negotiate" => pc = "unchoke" \/ mode \in {"magnet_handshake", "magnet_info"}
      <3>1. pc = "first" => mode \in {"magnet_handshake", "magnet_info"}
        BY DEF SessionInv, ModeInv
      <3> QED BY <1>7, <3>1
    <2>3. UNCHANGED mode
      BY <1>3 DEF Receive, choice
    <2> QED BY <1>2, <1>4, <1>5, <1>7, <2>1, <2>2, <2>3 DEF Requested
  <1>9. Unread'
    BY <1>2, <1>4, <1>6, <1>7 DEF Unread
  <1> QED BY <1>8, <1>9

\* The client's steps.
LEMMA WaitClient ==
  ASSUME SessionInv, TurnsInv, WaitInv, Client
  PROVE  WaitInv'
  <1>1. TypeOK
    BY DEF SessionInv
  <1>2. UNCHANGED <<mode, peer, heard, sent>>
    BY <1>1, ClientMoves
  <1> SUFFICES ASSUME conn' = "open" PROVE Requested' /\ Unread'
    BY <1>2 DEF WaitInv
  <1>3. CASE SendHandshake \/ SendInterested \/ Negotiate \/ RequestMetadata
    BY <1>3, WaitSend
  <1>4. CASE TakeHandshake \/ TakeFirst \/ TakeBitfield \/ TakeUnchoke \/ TakeExtended \/ TakeMetadata
               \/ SkipKeepAlive \/ RejectMessage
    <2>1. conn = "open"
      BY <1>4 DEF TakeHandshake, TakeFirst, TakeBitfield, TakeUnchoke, TakeExtended, TakeMetadata,
                  Message, SkipKeepAlive, RejectMessage, Receive
    <2> QED BY <1>4, <2>1, WaitReceive
  <1>5. CASE NoExtensions \/ ReceiveFails
    <2>1. pc' = "failed" \/ (pc' = "done" /\ mode = "magnet_handshake")
      BY <1>5 DEF NoExtensions, ReceiveFails, Throw
    <2> QED BY <1>2, <2>1 DEF Requested, Unread, Terminal
  <1> QED BY <1>3, <1>4, <1>5 DEF Client

\* None of the peer's answers is a control message.
LEMMA Plainly ==
  /\ Plain(Reply) /\ Kind(Reply) = "handshake"
  /\ Plain([type |-> "bitfield"]) /\ Kind([type |-> "bitfield"]) = "bitfield"
  /\ Plain([type |-> "unchoke"]) /\ Kind([type |-> "unchoke"]) = "unchoke"
  /\ Plain(PeerHello) /\ Kind(PeerHello) = "extended"
  /\ Plain(Metadata) /\ Kind(Metadata) = "metadata"
  <1> USE DEF Plain, UnknownKinds, Kind
  <1>1. Plain(Reply) /\ Kind(Reply) = "handshake"
    BY DEF Reply
  <1>2. /\ Plain([type |-> "bitfield"]) /\ Kind([type |-> "bitfield"]) = "bitfield"
        /\ Plain([type |-> "unchoke"]) /\ Kind([type |-> "unchoke"]) = "unchoke"
    OBVIOUS
  <1>3. Plain(PeerHello) /\ Kind(PeerHello) = "extended"
    BY DEF PeerHello
  <1>4. Plain(Metadata) /\ Kind(Metadata) = "metadata"
    BY DEF Metadata, OurExtId
  <1> QED BY <1>1, <1>2, <1>3, <1>4

\* The peer's and the network's steps: what the peer says is on its way.
LEMMA WaitPeer ==
  ASSUME SessionInv, TurnsInv, WaitInv, Peer
  PROVE  WaitInv'
  <1>1. TypeOK /\ UNCHANGED <<mode, peer, pc>>
    BY PeerFrame DEF SessionInv
  <1>2. \A w : Asks(w) => Asks(w)'
    BY <1>1, AsksStay
  <1>3. Requested => Requested'
    BY <1>1, <1>2 DEF Requested
  <1>4. CASE PeerReads
    <2>1. conn' = conn /\ sent' = sent /\ heard \subseteq heard' /\ toClient' = toClient
      BY <1>4 DEF PeerReads
    <2>2. \A w : Underway(w) => Underway(w)'
      BY <2>1, UnderwayKept
    <2>3. Unread => Unread'
      BY <1>1, <2>1, <2>2 DEF Unread
    <2> QED BY <1>3, <2>1, <2>3 DEF WaitInv
  <1>5. CASE PeerHandshake \/ PeerBitfield \/ PeerExtended \/ PeerUnchoke \/ PeerMetadata
    <2>1. PICK kind, m : /\ Deliver(kind, m) /\ Kind(m) = kind /\ Plain(m)
                         /\ kind = "metadata" => "request" \in heard
      <3>1. CASE PeerHandshake
        BY <3>1, Plainly DEF PeerHandshake, Reply
      <3>2. CASE PeerBitfield
        BY <3>2, Plainly DEF PeerBitfield
      <3>3. CASE PeerExtended
        BY <3>3, Plainly DEF PeerExtended, PeerHello
      <3>4. CASE PeerUnchoke
        BY <3>4, Plainly DEF PeerUnchoke
      <3>5. CASE PeerMetadata
        BY <3>5, Plainly DEF PeerMetadata, MetadataDue, Due, Metadata
      <3> QED BY <1>5, <3>1, <3>2, <3>3, <3>4, <3>5
    <2>2. /\ toClient' = Append(toClient, m) /\ sent' = sent \cup {kind}
          /\ UNCHANGED <<conn, heard>>
      BY <2>1 DEF Deliver
    <2>3. (\A w : Underway(w) => Underway(w)') /\ Underway(kind)'
      BY <1>1, <2>1, <2>2, UnderwayDeliver
    <2>4. Unread => Unread'
      BY <1>1, <2>2, <2>3 DEF Unread
    <2> QED BY <1>3, <2>1, <2>2, <2>4 DEF WaitInv
  <1>6. CASE PeerControl
    <2>1. (\E m : toClient' = Append(toClient, m)) /\ UNCHANGED <<conn, heard, sent>>
      BY <1>6 DEF PeerControl
    <2>2. \A w : Underway(w) => Underway(w)'
      BY <1>1, <2>1, UnderwayDeliver
    <2>3. Unread => Unread'
      BY <1>1, <2>1, <2>2 DEF Unread
    <2> QED BY <1>3, <2>1, <2>3 DEF WaitInv
  <1>7. CASE PeerClose \/ PeerReset \/ RstArrives
    BY <1>7 DEF PeerClose, PeerReset, RstArrives, remote, WaitInv
  <1> QED BY <1>4, <1>5, <1>6, <1>7 DEF Peer, PeerSays

\* What a client waits for was asked for, and is on its way or still to be said.
THEOREM WaitInvariant == Spec => []WaitInv
  <1>1. Init => WaitInv
    BY DEF Init, WaitInv, Requested, Unread, Terminal
  <1>2. SessionInv /\ TurnsInv /\ WaitInv /\ [Next]_vars => WaitInv'
    <2> SUFFICES ASSUME SessionInv, TurnsInv, WaitInv, [Next]_vars PROVE WaitInv'
      OBVIOUS
    <2>1. CASE Client
      BY <2>1, WaitClient
    <2>2. CASE Peer
      BY <2>2, WaitPeer
    <2>3. CASE UNCHANGED vars
      <3>1. UNCHANGED <<peer, pc, toPeer, toClient, conn, heard, sent>>
        BY <2>3 DEF vars, choice, wires, remote
      <3>2. (\A w : Asks(w)' = Asks(w)) /\ (\A w : Underway(w) => Underway(w)')
        BY <3>1, AsksKept, UnderwayKept
      <3>3. UNCHANGED mode
        BY <2>3 DEF vars, choice
      <3> QED BY <3>1, <3>2, <3>3 DEF WaitInv, Requested, Unread
    <2> QED BY <2>1, <2>2, <2>3 DEF Next, Stopped
  <1> QED BY <1>1, <1>2, Invariant, TurnsInvariant, PTL DEF Spec

\* establish_connection and magnet_info_on_connection: what they hand on has been
\* unchoked, by a peer that is told of the client's interest first, and the
\* metadata are the link's (ReadyIsUnchoked).
THEOREM Readiness == Spec => []ReadyIsUnchoked
  <1>1. SessionInv /\ WaitInv => ReadyIsUnchoked
    <2> SUFFICES ASSUME SessionInv, WaitInv PROVE ReadyIsUnchoked
      OBVIOUS
    <2>1. Told /\ ReplyFirst /\ TypeOK
      BY DEF SessionInv
    <2>2. Asks("interested") => "interested" \in heard \/ \E k \in DOMAIN toPeer : toPeer[k].type = "interested"
      <3>1. \A m : Meaning(m) = "interested" => m.type = "interested"
        BY DEF Meaning
      <3> QED BY <3>1 DEF Asks
    <2>3. conn = "open" => Requested
      BY DEF WaitInv
    <2> QED
      BY <2>1, <2>2, <2>3 DEF ReadyIsUnchoked, Tells, Requested, Told, ReplyFirst, Terminal
  <1> QED BY <1>1, Invariant, WaitInvariant, PTL

\* establish_connection, ext_handshake and magnet_info_on_connection against
\* recv_message, which has no time-out: the client and a peer wait for each
\* other for ever only if the peer sends no bitfield, or its id of the
\* extension does not fit the byte the client keeps it in.
THEOREM OnlySilentPeersHang == Spec => []WaitsOnlyForSilentPeers
  <1>1. SessionInv /\ TurnsInv /\ WaitInv => WaitsOnlyForSilentPeers
    <2> SUFFICES ASSUME SessionInv, TurnsInv, WaitInv, MutualWait, peer.bitfield,
                        ~(pc = "metadata" /\ peer.metadataId \notin 1 .. 255)
                 PROVE  FALSE
      BY DEF WaitsOnlyForSilentPeers
    <2> USE DEF Terminal
    <2>1. /\ pc \in {"reply", "first", "bitfield", "unchoke", "extended", "metadata"}
          /\ conn = "open" /\ toClient = << >> /\ toPeer = << >>
          /\ ~HandshakeDue /\ ~BitfieldDue /\ ~ExtendedDue /\ ~UnchokeDue /\ ~MetadataDue
      BY DEF MutualWait, Awaits, AwaitsMessage
    <2>2. \A w : (Asks(w) => w \in heard) /\ ~Underway(w)
      BY <2>1 DEF Asks, Underway
    <2>3. Requested /\ Unread /\ ReplyFirst /\ Told /\ ModeInv
      BY <2>1 DEF WaitInv, SessionInv
    <2>4. pc # "reply"
      <3>1. "handshake" \in heard => "handshake" \in sent
        BY <2>1 DEF HandshakeDue, Due
      <3> QED BY <2>1, <2>2, <2>3, <3>1 DEF Requested, ReplyFirst
    <2>5. "handshake" \in sent
      BY <2>1, <2>3, <2>4 DEF ReplyFirst
    <2>6. "bitfield" \in sent
      <3>1. "bitfield" \notin sent => ExtendedFirst /\ "extended" \notin sent
        BY <2>1, <2>5 DEF BitfieldDue, Due
      <3>2. ~(ExtendedFirst /\ "extended" \notin sent)
        BY <2>1, <2>5 DEF ExtendedDue, ExtendedFirst, Due
      <3> QED BY <3>1, <3>2
    <2>7. pc \notin {"first", "bitfield"}
      BY <2>2, <2>3, <2>6 DEF Unread
    <2>8. pc # "unchoke"
      <3>1. pc = "unchoke" => "interested" \in heard /\ "unchoke" \notin sent
        BY <2>2, <2>3 DEF Requested, Unread
      <3> QED BY <2>1, <2>5, <2>6, <3>1 DEF UnchokeDue, Due, BitfieldOut
    <2>9. pc # "extended"
      <3>1. pc = "extended" => "extended" \in heard /\ "extended" \notin sent
        BY <2>2, <2>3, <2>6 DEF Requested, Unread
      <3>2. pc = "extended" => Agreed
        BY <2>3 DEF ModeInv, Agreed, Reserves
      <3> QED BY <2>1, <2>5, <2>6, <3>1, <3>2 DEF ExtendedDue, Due, BitfieldOut
    <2>10. pc # "metadata"
      <3>1. pc = "metadata" => "request" \in heard /\ "metadata" \notin sent
        BY <2>2, <2>3 DEF Requested, Unread
      <3> QED BY <2>1, <3>1 DEF MetadataDue, Due
    <2> QED BY <2>1, <2>4, <2>7, <2>8, <2>9, <2>10
  <1> QED BY <1>1, Invariant, TurnsInvariant, WaitInvariant, PTL

=============================================================================
