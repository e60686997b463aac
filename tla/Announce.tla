------------------------------- MODULE Announce -------------------------------
(***************************************************************************)
(* tracker::announce on http::get: read the link, where there is one,      *)
(* build the request, connect to the tracker, send, receive until the      *)
(* tracker closes the connection, and take the peers from the dictionary   *)
(* in the body.  The length the tracker declares is not looked at, so that *)
(* a reply cut short by a close is told from a whole one only by what its  *)
(* text is.                                                                *)
(*                                                                         *)
(* A reply is a sequence of parts, each received whole: the status line,   *)
(* the headers, the empty line, and the parts of the bencoded body.  The   *)
(* two overloads of announce differ in the request alone.                  *)
(***************************************************************************)
EXTENDS LinkMeaning, AnnounceUrl

CONSTANTS
  Calls,    \* what is announced, and what the tracker answers
  Hosts,    \* the names that are resolved
  PeerId    \* random_bytes(20)

\* The hash, the tracker and the length that a torrent file or a link means; a
\* link that means none is not valid.  spelled says how a link writes each byte
\* of its tracker, and the length is in digits.
Sources == [kind : {"torrent", "link"}, link : Seq(Byte), valid : BOOLEAN,
            infoHash : Seq(Byte), tracker : Seq(Byte),
            spelled : Seq({"plain", "upper", "lower"}), left : Seq(Digits \cup {45})]

\* The value of an entry: a byte string of some size, or something else.
Entries == [key : {"peers", "interval", "failure reason"}, string : BOOLEAN, size : Nat]

\* chunked: the body is in pieces, each after its length.  complete: the text
\* has an empty line after the headers.
AllReplies ==
  [status : {"200", "302"}, complete : BOOLEAN, chunked : BOOLEAN,
   body : {"dict", "list", "text"}, entries : Seq(Entries)]

ASSUME AnnounceAssumption ==
  /\ \A c \in Calls : c.source \in Sources /\ c.reply \in AllReplies
  /\ Hosts \subseteq Seq(Byte) /\ PeerId \in Seq(Byte)

ASSUME LinkAssumption ==
  \A c \in Calls : c.source.kind = "link" => Meaning(c.source)

Part(kind) == [part |-> kind]

\* What the links of an instance are read as, those that do not make parse
\* throw, and the requests for them and for the torrents, if parse_url returns.
\* The length is not known of a link: 65536 stands for it.
Links == {c.source.link : c \in Calls}

TargetOf ==
  [link \in {l \in Links : LinkIsRead(l)} |->
     [infoHash |-> LinkHash(link), tracker |-> LinkTracker(link), left |-> <<54, 53, 53, 51, 54>>]]

OfTorrent(s) == [infoHash |-> s.infoHash, tracker |-> s.tracker, left |-> s.left]

Targets == {TargetOf[link] : link \in DOMAIN TargetOf} \cup {OfTorrent(c.source) : c \in Calls}

UrlFor(t) == AnnounceUrl(t.tracker, t.infoHash, PeerId, t.left)

RequestFor == [t \in {r \in Targets : UrlIsRead(UrlFor(r))} |-> Request(UrlFor(t))]

\* The parts of the body as the tracker meant it.
Body(reply) ==
  IF reply.body = "dict"
  THEN <<Part("open")>> \o [k \in DOMAIN reply.entries |-> [entry |-> reply.entries[k]]]
         \o <<Part("close")>>
  ELSE <<Part(reply.body)>>

Text(reply) ==
  <<[status |-> reply.status], Part("headers")>>
    \o (IF reply.complete THEN <<Part("blank")>> ELSE << >>)
    \o (IF reply.chunked THEN <<Part("chunk")>> ELSE << >>)
    \o Body(reply)
    \o (IF reply.chunked THEN <<Part("chunk")>> ELSE << >>)

VARIABLES
  source,    \* what is announced
  target,    \* the same as the client has read it
  request,   \* host, port and path of the request
  reply,     \* what the tracker answers
  pc,        \* "link", "url", "connect", "send", "recv", "parse", "decode", "done", "failed"
  conn,      \* "none", "open", "finished" or "reset" by the tracker
  onWire,    \* how many parts the tracker has sent and the network kept
  received,  \* how many recv has returned
  peers,     \* how many peers announce returns, -1 before it does
  error      \* what was thrown, "none" before

asked  == <<source, target, request>>
server == <<reply, conn, onWire>>
vars   == <<asked, server, pc, received, peers, error>>

Nothing == [infoHash |-> << >>, tracker |-> << >>, left |-> << >>]

Init ==
  /\ \E c \in Calls : source = c.source /\ reply = c.reply
  /\ target = Nothing
  /\ request = [host |-> << >>, port |-> 0, path |-> << >>]
  /\ pc = "link" /\ conn = "none"
  /\ onWire = 0 /\ received = 0
  /\ peers = -1 /\ error = "none"

Throw(e) == pc' = "failed" /\ error' = e /\ UNCHANGED peers

----------------------------------------------------------------------------
(* The link and the request *)

ReadLink ==
  /\ pc = "link" /\ source.kind = "link"
  /\ IF source.link \in DOMAIN TargetOf
     THEN target' = TargetOf[source.link] /\ pc' = "url" /\ UNCHANGED <<peers, error>>
     ELSE Throw("link") /\ UNCHANGED target
  /\ UNCHANGED <<source, request, server, received>>

TakeTorrent ==
  /\ pc = "link" /\ source.kind = "torrent"
  /\ target' = OfTorrent(source) /\ pc' = "url"
  /\ UNCHANGED <<source, request, server, received, peers, error>>

BuildRequest ==
  /\ pc = "url"
  /\ IF target \in DOMAIN RequestFor
     THEN request' = RequestFor[target] /\ pc' = "connect" /\ UNCHANGED <<peers, error>>
     ELSE Throw("url") /\ UNCHANGED request
  /\ UNCHANGED <<source, target, server, received>>

----------------------------------------------------------------------------
(* http::get *)

Connect ==
  /\ pc = "connect" /\ request.host \in Hosts
  /\ conn' = "open" /\ pc' = "send"
  /\ UNCHANGED <<asked, reply, onWire, received, peers, error>>

\* The name is not resolved, or no address accepts.
ConnectFails ==
  /\ pc = "connect"
  /\ Throw("cannot connect")
  /\ UNCHANGED <<asked, server, received>>

\* One send: after a close by the tracker it still succeeds.
SendRequest ==
  /\ pc = "send"
  /\ IF conn = "reset"
     THEN Throw("send")
     ELSE pc' = "recv" /\ UNCHANGED <<peers, error>>
  /\ UNCHANGED <<asked, server, received>>

\* Fault: one recv is taken for the whole reply.
ReceiveOnce ==
  /\ pc = "recv" /\ received < onWire
  /\ \E n \in received + 1 .. onWire : received' = n
  /\ pc' = "parse"
  /\ UNCHANGED <<asked, server, peers, error>>

\* recv returns some of what has arrived.
Receive ==
  /\ pc = "recv" /\ received < onWire
  /\ \E n \in received + 1 .. onWire : received' = n
  /\ UNCHANGED <<asked, server, pc, peers, error>>

\* Fault: the end of the stream does not end the loop.
ReceiveEndIgnored ==
  /\ pc = "recv" /\ received = onWire /\ conn = "finished"
  /\ UNCHANGED vars

\* recv returns 0.
ReceiveEnd ==
  /\ pc = "recv" /\ received = onWire /\ conn = "finished"
  /\ pc' = "parse"
  /\ UNCHANGED <<asked, server, received, peers, error>>

\* recv returns -1.
ReceiveFails ==
  /\ pc = "recv" /\ received = onWire /\ conn = "reset"
  /\ Throw("recv")
  /\ UNCHANGED <<asked, server, received>>

Response == SubSeq(Text(reply), 1, received)

\* header_end, 0 when there is none.
HeaderEnd == SelectInSeq(Response, LAMBDA p : p = Part("blank"))

ParseResponse ==
  /\ pc = "parse"
  /\ IF HeaderEnd = 0 THEN Throw("no header end")
     ELSE IF Response[1].status # "200" THEN Throw("status")
     ELSE pc' = "decode" /\ UNCHANGED <<peers, error>>
  /\ UNCHANGED <<asked, server, received>>

----------------------------------------------------------------------------
(* tracker::announce *)

ReceivedBody == SubSeq(Response, HeaderEnd + 1, Len(Response))

\* Fault: a dictionary ends where the text ends.
DictIsThereUnclosed == ReceivedBody # << >> /\ ReceivedBody[1] = Part("open")

\* bencode::decode returns a dictionary: a text that ends within it is refused.
DictIsThere ==
  /\ ReceivedBody # << >>
  /\ ReceivedBody[1] = Part("open")
  /\ Contains(ReceivedBody, Part("close"))

IsPeers(p) == "entry" \in DOMAIN p /\ p.entry.key = "peers"

\* The size of peers_raw, -1 for a null pointer: the loop goes on to the last
\* entry with the key, and get_if yields null when that is no string.
PeersRaw ==
  LET at == SelectLastInSeq(ReceivedBody, IsPeers)
  IN  IF at # 0 /\ ReceivedBody[at].entry.string THEN ReceivedBody[at].entry.size ELSE -1

TakePeers ==
  /\ pc = "decode"
  /\ IF ~DictIsThere THEN Throw("not a dictionary")
     ELSE IF PeersRaw = -1 THEN Throw("no peers")
     ELSE IF PeersRaw % 6 # 0 THEN Throw("not a multiple of 6")
     ELSE pc' = "done" /\ peers' = PeersRaw \div 6 /\ UNCHANGED error
  /\ UNCHANGED <<asked, server, received>>

Client ==
  \/ ReadLink \/ TakeTorrent \/ BuildRequest
  \/ Connect \/ ConnectFails \/ SendRequest
  \/ Receive \/ ReceiveEnd \/ ReceiveFails
  \/ ParseResponse \/ TakePeers

----------------------------------------------------------------------------
(* The tracker and the network *)

Whole == onWire = Len(Text(reply))

ServerSends ==
  /\ conn = "open" /\ pc = "recv" /\ ~Whole
  /\ onWire' = onWire + 1
  /\ UNCHANGED <<asked, reply, conn, pc, received, peers, error>>

\* As it should, after its reply, or at any moment before.
ServerCloses ==
  /\ conn = "open"
  /\ conn' = "finished"
  /\ UNCHANGED <<asked, reply, onWire, pc, received, peers, error>>

\* What has not been read is lost.  A request that comes after the close is
\* answered by a reset.
ServerResets ==
  /\ conn \in {"open", "finished"}
  /\ conn' = "reset"
  /\ onWire' = received
  /\ UNCHANGED <<asked, reply, pc, received, peers, error>>

Terminal == {"done", "failed"}
Stopped  == pc \in Terminal /\ UNCHANGED vars

Next ==
  \/ Client
  \/ pc \notin Terminal /\ (ServerSends \/ ServerCloses \/ ServerResets)
  \/ Stopped

Spec == Init /\ [][Next]_vars

\* The thread keeps running, and the tracker honours "Connection: close": one
\* that keeps the connection open makes the client wait for ever.
Fairness == WF_vars(Client) /\ WF_vars(pc = "recv" /\ (ServerSends \/ ServerCloses))

LiveSpec == Spec /\ Fairness

----------------------------------------------------------------------------
(* Properties *)

\* The hash and the tracker of a valid link are read, whatever parameters come
\* before, between and after them; any other link is refused.
LinksAreRead ==
  /\ target # Nothing => target.infoHash = source.infoHash /\ target.tracker = source.tracker
  /\ source.kind = "link" /\ pc # "link" => ((error = "link") <=> ~source.valid)

\* What the tracker finds in a request: the parameter of a name, after the first
\* "?" or an "&" that follows it.
Asked(path, name) ==
  LET query == Find(path, Question)
      tails == {Drop(path, i) : i \in {query} \cup {p \in Positions(path, Amp) : p > query}}
  IN  UrlDecode(Value(CHOOSE t \in tails : StartsWith(t, name \o <<Equals>>)))

\* The URL of a tracker with a path, and no query of its own; 35 is "#".
WithPath(url) ==
  /\ Find(Rest(url), Slash) # 0
  /\ \A char \in {Question, 35, 32} : Find(url, char) = 0

\* A tracker whose URL has a path and no query is told, for every hash and id,
\* the hash of the torrent and our id, at the host its URL names.
RequestNamesTheTorrent ==
  pc = "send" /\ WithPath(source.tracker) =>
    /\ Asked(request.path, InfoHashKey) = source.infoHash
    /\ Asked(request.path, PeerIdKey) = PeerId
    /\ StartsWith(source.tracker, Http \o request.host)

\* The peers returned are all that the tracker listed: a list cut short, by a
\* close in the middle of the reply, is never taken for the whole.
PeersAreComplete ==
  pc = "done" =>
    /\ received = Len(Text(reply))
    /\ \E k \in DOMAIN reply.entries :
         LET e == reply.entries[k] IN e.key = "peers" /\ e.string /\ e.size = 6 * peers

Plain ==
  /\ reply.status = "200" /\ reply.complete /\ ~reply.chunked
  /\ reply.body = "dict"

\* A tracker with one well-formed list of peers, that sends all of it and
\* closes, is understood: there is no error without a cause.
ErrorsHaveACause ==
  pc = "failed" =>
    \/ conn # "finished" \/ ~Whole
    \/ ~Plain
    \/ \E k \in DOMAIN reply.entries :
         LET e == reply.entries[k] IN e.key = "peers" /\ (~e.string \/ e.size % 6 # 0)
    \/ \A k \in DOMAIN reply.entries : reply.entries[k].key # "peers"

\* The call ends.
Terminates == <>(pc \in Terminal)

=============================================================================
