---------------------------- MODULE PeerSession ----------------------------
(***************************************************************************)
(* The set-up of a connection to one peer, for every command that opens    *)
(* one: the handshake, the bitfield and unchoke that establish_connection  *)
(* waits for, the extension handshake, and the metadata a magnet link      *)
(* needs.  The client reads one message at a time and takes it for the one *)
(* it expects next; the peer sends its messages when it likes to, within   *)
(* the limits of the protocol, so the two may wait for each other.         *)
(*                                                                         *)
(* The peer is external: PeerKinds says which peers an instance has.       *)
(***************************************************************************)
EXTENDS Naturals, Sequences

CONSTANTS
  Modes,         \* the functions a command may call, subset of AllModes
  PeerKinds,     \* the peers it may meet, subset of AllPeers
  ControlKinds,  \* messages a peer may send at any time
  MaxControls,   \* bound on them
  Events         \* subset of {"close", "reset"}

\* peer::handshake, magnet_handshake, magnet_info, establish_connection, and
\* establish_connection followed by magnet_info_on_connection.
AllModes == {"handshake", "magnet_handshake", "magnet_info", "establish", "magnet_download"}

\* One peer: the protocol its handshake names; whether it has the extension
\* bit, whether it sends a bitfield, whether it unchokes without waiting for
\* the client's interest, whether it sends its extension handshake without
\* waiting for the client's, and then whether that or the bitfield comes
\* first; the id it gives ut_metadata; and what its answer to a metadata
\* request holds ("not offered": it has extensions but no ut_metadata).
AllPeers ==
  [protocol : {"BitTorrent", "other"},
   extensions : BOOLEAN, bitfield : BOOLEAN, unasked : BOOLEAN, eager : BOOLEAN,
   first : {"bitfield", "extended"}, metadataId : Nat,
   metadata : {"right", "wrong", "junk", "cut", "rejected", "not offered"}]

\* Messages decode has no case for, and the keep-alive recv_message swallows.
UnknownKinds == {"choke", "not interested", "have", "cancel"}

ASSUME SessionAssumption ==
  /\ Modes \subseteq AllModes
  /\ PeerKinds \subseteq AllPeers
  /\ ControlKinds \subseteq UnknownKinds \cup {"keep-alive"}
  /\ MaxControls \in Nat
  /\ Events \subseteq {"close", "reset"}

VARIABLES
  mode,        \* the function called
  peer,        \* the peer it meets
  pc,          \* what the client does next
  hasExt,      \* has_ext, extensions_enabled_: bit of the peer's handshake
  peerExtId,   \* metadata_ext_id_, the peer's id of ut_metadata
  metainfo,    \* what the metadata held, "none" before
  error,       \* what was thrown, "none" before
  toPeer,      \* messages on their way to the peer
  toClient,    \* messages on their way to the client
  conn,        \* the TCP connection, see Send
  heard,       \* what the peer has read
  sent,        \* what the peer has sent
  controls     \* how many control messages it has sent

client == <<hasExt, peerExtId, metainfo>>
choice == <<mode, peer>>
wires  == <<toPeer, toClient, conn>>
remote == <<heard, sent, controls>>
vars   == <<choice, pc, client, error, wires, remote>>

OurExtId == 1      \* the default of ext_id
NoId     == 256    \* no value of an uint8_t

Init ==
  /\ mode \in Modes /\ peer \in PeerKinds
  /\ pc = "handshake" /\ error = "none"
  /\ hasExt = FALSE /\ peerExtId = NoId /\ metainfo = "none"
  /\ toPeer = << >> /\ toClient = << >> /\ conn = "open"
  /\ heard = {} /\ sent = {} /\ controls = 0

Terminal == {"done", "failed", "killed"}

----------------------------------------------------------------------------
(* Sending and receiving *)

Throw(e) == pc' = "failed" /\ error' = e

(***************************************************************************)
(* util::send_all of one message.  After the peer has closed, the first    *)
(* send succeeds and is answered by a reset; one after that reset raises   *)
(* SIGPIPE.  After an abortive reset the send throws.                      *)
(***************************************************************************)
Send(m, next) ==
  /\ \/ /\ conn = "open"
        /\ toPeer' = Append(toPeer, m)
        /\ pc' = next
        /\ UNCHANGED <<conn, error>>
     \/ /\ conn \in {"finished", "rst pending"}
        /\ conn' = "rst pending"
        /\ pc' = next
        /\ UNCHANGED <<toPeer, error>>
     \/ /\ conn = "reset"
        /\ Throw("send")
        /\ UNCHANGED <<toPeer, conn>>
     \/ /\ conn = "broken"
        /\ pc' = "killed"
        /\ UNCHANGED <<toPeer, conn, error>>
  /\ UNCHANGED <<choice, toClient, remote>>

\* The labels at which the client blocks in recv, for the handshake and for
\* a message.
AwaitsMessage == {"first", "bitfield", "unchoke", "extended", "metadata"}
Awaits        == AwaitsMessage \cup {"reply"}

Incoming == Head(toClient)

Receive ==
  /\ toClient # << >>
  /\ toClient' = Tail(toClient)
  /\ UNCHANGED <<choice, toPeer, conn, remote>>

\* recv_message returns: not a keep-alive, and decode knows the id.
Message ==
  /\ Receive
  /\ Incoming.type \notin UnknownKinds \cup {"keep-alive"}

----------------------------------------------------------------------------
(* The client *)

\* make_handshake reserves the extension bit, unless establish_connection
\* was called for a plain download.
Reserves == mode # "establish"

SendHandshake ==
  /\ pc = "handshake"
  /\ Send([type |-> "handshake"], "reply")
  /\ UNCHANGED client

\* What follows the handshake.
Handshaken ==
  CASE mode = "handshake" -> "done"
    [] mode \in {"magnet_handshake", "magnet_info"} -> "first"
    [] mode \in {"establish", "magnet_download"} -> "bitfield"

\* Fault: the message that precedes the extension handshake is not read.
TakeHandshakeAtOnce ==
  /\ pc = "reply"
  /\ Receive
  /\ hasExt' = Incoming.extensions
  /\ pc' = IF mode \in {"magnet_handshake", "magnet_info"}
           THEN "negotiate" ELSE Handshaken
  /\ UNCHANGED <<peerExtId, metainfo, error>>

\* parse_handshake_peer_id, which wants the 68 bytes to name the protocol, and
\* the extension bit of the reply.
TakeHandshake ==
  /\ pc = "reply"
  /\ Receive
  /\ \/ /\ Incoming.protocol = "BitTorrent"
        /\ hasExt' = Incoming.extensions
        /\ pc' = Handshaken
        /\ UNCHANGED error
     \/ /\ Incoming.protocol # "BitTorrent"
        /\ Throw("invalid protocol")
        /\ UNCHANGED hasExt
  /\ UNCHANGED <<peerExtId, metainfo>>

\* ext_handshake reads one message, whatever it is.
TakeFirst ==
  /\ pc = "first"
  /\ Message
  /\ pc' = "negotiate"
  /\ UNCHANGED <<client, error>>

\* Fault: the client never says that it is interested.
TakeBitfieldSilently ==
  /\ pc = "bitfield"
  /\ Message
  /\ \/ /\ Incoming.type = "bitfield"
        /\ pc' = "unchoke"
        /\ UNCHANGED error
     \/ /\ Incoming.type # "bitfield"
        /\ Throw("expected bitfield")
  /\ UNCHANGED client

TakeBitfield ==
  /\ pc = "bitfield"
  /\ Message
  /\ \/ /\ Incoming.type = "bitfield"
        /\ pc' = "interested"
        /\ UNCHANGED error
     \/ /\ Incoming.type # "bitfield"
        /\ Throw("expected bitfield")
  /\ UNCHANGED client

\* What follows the unchoke.
Unchoked == IF mode = "magnet_download" THEN "negotiate" ELSE "done"

\* Fault: the unchoke is not waited for.
SendInterestedAndGo ==
  /\ pc = "interested"
  /\ Send([type |-> "interested"], Unchoked)
  /\ UNCHANGED client

SendInterested ==
  /\ pc = "interested"
  /\ Send([type |-> "interested"], "unchoke")
  /\ UNCHANGED client

TakeUnchoke ==
  /\ pc = "unchoke"
  /\ Message
  /\ \/ /\ Incoming.type = "unchoke"
        /\ pc' = Unchoked
        /\ UNCHANGED error
     \/ /\ Incoming.type # "unchoke"
        /\ Throw("expected unchoke")
  /\ UNCHANGED client

\* Fault: the extension bit of the peer is not looked at.
NegotiateAlways ==
  /\ pc = "negotiate"
  /\ Send([type |-> "extended", id |-> 0], "extended")
  /\ UNCHANGED client

\* The extension handshake, if the peer has extensions.
Negotiate ==
  /\ pc = "negotiate" /\ hasExt
  /\ Send([type |-> "extended", id |-> 0], "extended")
  /\ UNCHANGED client

\* Without them magnet_handshake returns no id, the others throw.
NoExtensions ==
  /\ pc = "negotiate" /\ ~hasExt
  /\ \/ /\ mode = "magnet_handshake"
        /\ pc' = "done"
        /\ UNCHANGED error
     \/ /\ mode # "magnet_handshake"
        /\ Throw("no extensions")
  /\ UNCHANGED <<choice, client, wires, remote>>

\* static_cast<uint8_t>
ToByte(n) == n % 256

IsExtHandshake == Incoming.type = "extended" /\ Incoming.payload = "handshake"

\* parse_ext_handshake_response: any Extended message will do, its
\* ext_msg_id_ is not compared.
TakeExtended ==
  /\ pc = "extended"
  /\ Message
  /\ \/ /\ IsExtHandshake
        /\ peerExtId' = ToByte(Incoming.metadataId)
        /\ pc' = IF mode = "magnet_handshake" THEN "done" ELSE "request"
        /\ UNCHANGED error
     \/ /\ ~IsExtHandshake
        /\ Throw("expected extended handshake")
        /\ UNCHANGED peerExtId
  /\ UNCHANGED <<hasExt, metainfo>>

\* send_metadata_request, always for piece 0.
RequestMetadata ==
  /\ pc = "request"
  /\ Send([type |-> "extended", id |-> peerExtId], "metadata")
  /\ UNCHANGED client

\* from_info_dict accepts the dictionary, and its digest is the link's.
Verified(data) == data = "right"

\* The answer must carry our id and be data (not a reject) of piece 0 that
\* holds the whole dictionary: "cut" is one larger than a metadata piece.
IsMetadata ==
  /\ Incoming.type = "extended"
  /\ Incoming.id = OurExtId
  /\ Incoming.payload \notin {"cut", "rejected"}
  /\ Verified(Incoming.payload)

TakeMetadata ==
  /\ pc = "metadata"
  /\ Message
  /\ \/ /\ IsMetadata
        /\ metainfo' = Incoming.payload
        /\ pc' = "done"
        /\ UNCHANGED error
     \/ /\ ~IsMetadata
        /\ Throw("metadata")
        /\ UNCHANGED metainfo
  /\ UNCHANGED <<hasExt, peerExtId>>

SkipKeepAlive ==
  /\ pc \in AwaitsMessage
  /\ Receive /\ Incoming.type = "keep-alive"
  /\ UNCHANGED <<pc, client, error>>

RejectMessage ==
  /\ pc \in AwaitsMessage
  /\ Receive /\ Incoming.type \in UnknownKinds
  /\ Throw("unknown message id")
  /\ UNCHANGED client

ReceiveFails ==
  /\ pc \in Awaits
  /\ toClient = << >> /\ conn # "open"
  /\ Throw("recv")
  /\ UNCHANGED <<choice, client, wires, remote>>

Client ==
  \/ SendHandshake \/ TakeHandshake \/ TakeFirst
  \/ TakeBitfield \/ SendInterested \/ TakeUnchoke
  \/ Negotiate \/ NoExtensions \/ TakeExtended
  \/ RequestMetadata \/ TakeMetadata
  \/ SkipKeepAlive \/ RejectMessage \/ ReceiveFails

----------------------------------------------------------------------------
(* The peer and the network *)

\* Both sides have the extension bit.
Agreed == peer.extensions /\ Reserves

Deliver(kind, m) ==
  /\ sent' = sent \cup {kind}
  /\ toClient' = Append(toClient, m)
  /\ UNCHANGED <<choice, pc, client, error, toPeer, conn, heard, controls>>

\* The order in which a peer's first two messages come.
ExtendedFirst == peer.eager /\ peer.first = "extended" /\ Agreed
BitfieldOut   == ~peer.bitfield \/ "bitfield" \in sent

\* What the peer is to say next.
Due(kind, when) == kind \notin sent /\ when

HandshakeDue == Due("handshake", "handshake" \in heard)
BitfieldDue  ==
  Due("bitfield", peer.bitfield /\ "handshake" \in sent) /\ (ExtendedFirst => "extended" \in sent)
ExtendedDue  ==
  /\ Due("extended", Agreed /\ "handshake" \in sent)
  /\ peer.eager \/ "extended" \in heard
  /\ ExtendedFirst \/ BitfieldOut
UnchokeDue   ==
  /\ Due("unchoke", "handshake" \in sent /\ BitfieldOut)
  /\ peer.unasked \/ "interested" \in heard
MetadataDue  == Due("metadata", "request" \in heard)

\* A request that does not carry the peer's id is for an extension it does
\* not have; one with id 0 is an extension handshake.
Meaning(m) ==
  CASE m.type # "extended" -> m.type
    [] m.type = "extended" /\ m.id = 0 -> "extended"
    [] m.type = "extended" /\ m.id = peer.metadataId /\ m.id # 0 -> "request"
    [] OTHER -> "unknown"

PeerReads ==
  /\ toPeer # << >>
  /\ heard' = heard \cup {Meaning(Head(toPeer))}
  /\ toPeer' = Tail(toPeer)
  /\ UNCHANGED <<choice, pc, client, error, toClient, conn, sent, controls>>

PeerHandshake ==
  /\ HandshakeDue
  /\ Deliver("handshake",
       [type |-> "handshake", protocol |-> peer.protocol, extensions |-> peer.extensions])

PeerBitfield ==
  /\ BitfieldDue
  /\ Deliver("bitfield", [type |-> "bitfield"])

PeerExtended ==
  /\ ExtendedDue
  /\ Deliver("extended",
       [type |-> "extended", id |-> 0, metadataId |-> peer.metadataId,
        payload |-> IF peer.metadata = "not offered" THEN "bare handshake" ELSE "handshake"])

PeerUnchoke ==
  /\ UnchokeDue
  /\ Deliver("unchoke", [type |-> "unchoke"])

PeerMetadata ==
  /\ MetadataDue
  /\ Deliver("metadata", [type |-> "extended", id |-> OurExtId, payload |-> peer.metadata])

PeerControl ==
  /\ conn = "open" /\ "handshake" \in sent /\ BitfieldOut
  /\ controls < MaxControls
  /\ controls' = controls + 1
  /\ \E k \in ControlKinds : toClient' = Append(toClient, [type |-> k])
  /\ UNCHANGED <<choice, pc, client, error, toPeer, conn, heard, sent>>

PeerSays ==
  /\ conn = "open"
  /\ \/ PeerReads \/ PeerHandshake \/ PeerBitfield \/ PeerExtended
     \/ PeerUnchoke \/ PeerMetadata

PeerClose ==
  /\ conn = "open" /\ "close" \in Events
  /\ conn' = "finished"
  /\ UNCHANGED <<choice, pc, client, error, toPeer, toClient, remote>>

PeerReset ==
  /\ conn = "open" /\ "reset" \in Events
  /\ conn' = "reset"
  /\ \E n \in 0 .. Len(toClient) : toClient' = SubSeq(toClient, 1, n)
  /\ UNCHANGED <<choice, pc, client, error, toPeer, remote>>

RstArrives ==
  /\ conn = "rst pending"
  /\ conn' = "broken"
  /\ UNCHANGED <<choice, pc, client, error, toPeer, toClient, remote>>

Peer ==
  /\ pc \notin Terminal
  /\ PeerSays \/ PeerControl \/ PeerClose \/ PeerReset \/ RstArrives

Stopped == pc \in Terminal /\ UNCHANGED vars

Next == Client \/ Peer \/ Stopped

Spec == Init /\ [][Next]_vars

\* The client's thread keeps running; the peer keeps reading and answering.
Fairness == WF_vars(Client) /\ WF_vars(pc \notin Terminal /\ PeerSays)

LiveSpec == Spec /\ Fairness

----------------------------------------------------------------------------
(* Properties *)

\* A peer never gets an extension message unless both sides announced
\* extensions in their handshakes, and none that it takes for another, or for
\* none, as long as the id it announced fits a byte.
ExtensionsAgreed ==
  /\ \/ "extended" \in heard \/ "request" \in heard
     \/ \E k \in DOMAIN toPeer : toPeer[k].type = "extended"
     => Agreed
  /\ peer.metadataId \in 1 .. 255 => "unknown" \notin heard

\* The messages the client has sent reach the peer: it has read one of this
\* kind, or will, or the connection is gone.
Tells(kind) ==
  conn = "open" => kind \in heard \/ \E k \in DOMAIN toPeer : toPeer[k].type = kind

\* A connection is handed on only when the peer has sent its bitfield and its
\* unchoke, asked or unasked, and no sooner than the client has told it of its
\* interest: requests may follow at once.  Metadata are handed on only if they
\* are those of the link.
ReadyIsUnchoked ==
  /\ mode \in {"establish", "magnet_download"}
       /\ pc \in {"done", "negotiate", "extended", "request", "metadata"}
     => {"handshake", "bitfield", "unchoke"} \subseteq sent /\ Tells("interested")
  /\ pc = "done" /\ mode \in {"magnet_info", "magnet_download"} => metainfo = "right"

\* The client waits, nothing is on its way, and the peer has nothing to say.
MutualWait ==
  /\ pc \in Awaits /\ conn = "open"
  /\ toClient = << >> /\ toPeer = << >>
  /\ ~HandshakeDue /\ ~BitfieldDue /\ ~ExtendedDue /\ ~UnchokeDue /\ ~MetadataDue

\* The two wait for each other for ever only with a peer that sends no
\* bitfield, or that takes the metadata request for something else.
WaitsOnlyForSilentPeers ==
  MutualWait =>
    \/ ~peer.bitfield
    \/ pc = "metadata" /\ peer.metadataId \notin 1 .. 255

\* Setting up a connection is ended by SIGPIPE only where the client has two
\* messages to send and nothing between them tells it that the peer has closed:
\* what it reads there was sent unasked, before the close.  That is an extension
\* handshake, read before the metadata request, or an unchoke, read before the
\* client's extension handshake.
SignalNeedsEagerPeer ==
  pc = "killed" =>
    \/ mode \in {"magnet_info", "magnet_download"} /\ peer.eager
    \/ mode = "magnet_download" /\ peer.unasked

\* A peer that sends a bitfield, answers what it is asked, and sends neither
\* its unchoke nor its extension handshake before the client has asked for it,
\* is never refused, by whichever function and with keep-alives wherever they
\* come.
PatientPeersAreServed ==
  /\ peer.protocol = "BitTorrent"
  /\ peer.extensions /\ peer.bitfield /\ ~peer.eager /\ ~peer.unasked
  /\ peer.metadataId \in 1 .. 255 /\ peer.metadata = "right"
  /\ conn = "open" /\ error # "unknown message id"
  => pc # "failed"

\* With a peer that sends its bitfield, and whose id of the extension is one,
\* the call ends, by a result or by an exception, also when the connection
\* goes away.
Terminates ==
  peer.bitfield /\ peer.metadataId \in 1 .. 255 => <>(pc \in Terminal)

=============================================================================
