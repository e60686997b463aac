------------------------------- MODULE Commands -------------------------------
(***************************************************************************)
(* main, cmd::dispatch and the handlers of the commands: what each of them *)
(* takes from its arguments, whom it contacts and in the name of what, in  *)
(* which order, and what it leaves behind.  A handler is a sequence of     *)
(* steps and every exception ends it, so that a command is a program of    *)
(* step names.                                                             *)
(*                                                                         *)
(* The steps are the components, by their outcomes: Announce, PeerSession, *)
(* PieceTransfer and DownloadFile model how they come about, Metainfo and  *)
(* PieceIndex what is computed from the torrent and from the index.        *)
(***************************************************************************)
EXTENDS Metainfo, PieceIndex

Ranges == INSTANCE PieceLayout WITH Length <- 1, PieceLength <- 1

CONSTANTS
  Calls,      \* the command lines of an instance
  Torrents,   \* what the torrent file holds, or the link is for
  Swarms      \* what the tracker lists, and what its peers are like

\* argument: the value to decode, the index or the address after the others.
\* valid: bencode::decode, std::stoi or parse_host_port returns; printable: the
\* strings of the value are UTF-8.
AllArguments == [valid : BOOLEAN, printable : BOOLEAN, index : Int]
AllCalls     == [command : STRING, argc : Nat, argument : AllArguments, disk : {"free", "full"}]
AllTorrents  == [readable : BOOLEAN, dict : Seq(Entries), spelling : {"canonical", "lenient"}]
\* peers: the list of the tracker, in which a peer may stand more than once.
\* exclusive: a peer takes one connection of an id.  honest: it sends the bytes
\* of the torrent, no block longer than was asked for, and answers no request
\* that reaches beyond its piece.
AllSwarms ==
  [peers : Seq(Nat), bits : Seq(SUBSET (0 .. 7)), exclusive : BOOLEAN, honest : BOOLEAN]

\* The info dictionary as the torrent spells it, none in some files.
InfoIn(dict) == IF Given(dict, "info", "dict") THEN LastOf(dict, "info") ELSE << >>

\* The hashes are counted in an int: more of them are a file of 40 GB.
ASSUME CommandsAssumption ==
  /\ Calls \subseteq AllCalls /\ Torrents \subseteq AllTorrents /\ Swarms \subseteq AllSwarms
  /\ \A t \in Torrents :
       InfoIsRead(InfoIn(t.dict)) => Len(PieceHashes(InfoIn(t.dict))) <= Int32Max

----------------------------------------------------------------------------
(* The commands *)

DownloadPiece ==
  <<"torrent", "argument", "announce", "peer", "connect", "piece", "write">>
Download  == <<"torrent", "announce", "prepare", "workers">>
Handshake == <<"torrent", "argument", "connect">>

MagnetHandshake == <<"link", "announce", "peer", "connect">>
MagnetInfo      == <<"link", "announce", "peer", "connect", "metadata">>

\* Faults: the output is opened before there is a piece to write; the metadata
\* and the piece have a connection each.
MagnetDownloadPieceEager ==
  <<"link", "argument", "announce", "peer", "connect", "metadata", "write", "piece">>
MagnetDownloadPieceTwice ==
  <<"link", "argument", "announce", "peer", "connect", "metadata", "connect", "piece", "write">>
MagnetDownloadPiece ==
  <<"link", "argument", "announce", "peer", "connect", "metadata", "piece", "write">>
MagnetDownload ==
  <<"link", "announce", "peer", "connect", "metadata", "prepare", "workers">>

TorrentPrograms ==
  [decode |-> <<"value">>, info |-> <<"torrent">>, peers |-> <<"torrent", "announce">>,
   download_piece |-> DownloadPiece, download |-> Download, handshake |-> Handshake]

MagnetPrograms ==
  [magnet_parse |-> <<"link">>, magnet_handshake |-> MagnetHandshake, magnet_info |-> MagnetInfo,
   magnet_download_piece |-> MagnetDownloadPiece, magnet_download |-> MagnetDownload]

MagnetCommands == DOMAIN MagnetPrograms
Commands       == DOMAIN TorrentPrograms \cup MagnetCommands
Program(c)     == IF c \in MagnetCommands THEN MagnetPrograms[c] ELSE TorrentPrograms[c]

\* min_argc_, the program's name and the command included.
MinArgs(c) ==
  CASE c \in {"download_piece", "magnet_download_piece"} -> 6
    [] c \in {"download", "magnet_download"}             -> 5
    [] c = "handshake"                                   -> 4
    [] OTHER                                             -> 3

----------------------------------------------------------------------------
VARIABLES
  call, torrent, swarm,   \* what this run of the program meets
  todo,         \* the steps that are left
  status,       \* "start", "running", "ok", "usage", "error", "killed" or "undefined"
  error,        \* what was thrown, the first by a worker, "none" before
  metainfo,     \* the metainfo the handler has, [infoHash |-> "unknown"] before
  announced,    \* what the tracker was told: a set of hashes and ids
  conns,        \* the connections open, each to a peer, under an id, for main or a worker
  named,        \* the same of every handshake sent, and the hash it names
  piece,        \* the handler has a piece
  output,       \* "before", "empty", "sized", "short", "odd" or "whole"
  workers       \* "connect", "get", "done" or "failed", of every worker

inputs == <<call, torrent, swarm>>
network == <<announced, conns, named>>
result  == <<piece, output, workers>>
vars    == <<inputs, todo, status, error, metainfo, network, result>>

Unknown == [infoHash |-> "unknown"]

Init ==
  /\ call \in Calls /\ torrent \in Torrents /\ swarm \in Swarms
  /\ todo = << >> /\ status = "start" /\ error = "none"
  /\ metainfo = Unknown
  /\ announced = {} /\ conns = {} /\ named = {}
  /\ piece = FALSE /\ output = "before" /\ workers = << >>

Doing(step) == status = "running" /\ todo # << >> /\ Head(todo) = step

Done    == todo' = Tail(todo) /\ UNCHANGED <<status, error>>
Fail(e) == status' = "error" /\ error' = e /\ UNCHANGED todo
Kill    == status' = "killed" /\ UNCHANGED <<todo, error>>
Undefined == status' = "undefined" /\ UNCHANGED <<todo, error>>

Dispatch ==
  /\ status = "start"
  /\ IF call.argc >= 2 /\ call.command \in Commands /\ call.argc >= MinArgs(call.command)
     THEN status' = "running" /\ todo' = Program(call.command)
     ELSE status' = "usage" /\ UNCHANGED todo
  /\ UNCHANGED <<inputs, error, metainfo, network, result>>

Return ==
  /\ status = "running" /\ todo = << >>
  /\ status' = "ok" /\ conns' = {}
  /\ UNCHANGED <<inputs, todo, error, metainfo, announced, named, result>>

----------------------------------------------------------------------------
(* Arguments, torrent and link *)

\* The library that prints the value throws on a string that is not UTF-8.
PrintValue ==
  /\ Doing("value")
  /\ IF call.argument.valid /\ call.argument.printable THEN Done ELSE Fail("value")
  /\ UNCHANGED <<inputs, metainfo, network, result>>

ParseArgument ==
  /\ Doing("argument")
  /\ IF call.argument.valid THEN Done ELSE Fail("argument")
  /\ UNCHANGED <<inputs, metainfo, network, result>>

ReadTorrent ==
  /\ Doing("torrent")
  /\ IF torrent.readable /\ Extractable(torrent.dict)
     THEN Done /\ metainfo' = Extract(torrent.dict)
     ELSE Fail("torrent") /\ UNCHANGED metainfo
  /\ UNCHANGED <<inputs, network, result>>

ReadLink ==
  /\ Doing("link")
  /\ IF torrent.readable THEN Done ELSE Fail("link")
  /\ UNCHANGED <<inputs, metainfo, network, result>>

----------------------------------------------------------------------------
(* The tracker and the peers *)

\* The info dictionary, and the digest that a link has.
Info        == InfoIn(torrent.dict)
TorrentHash == Digest(Info, torrent.spelling)

OfMagnet   == call.command \in MagnetCommands
HashInHand == IF OfMagnet THEN TorrentHash ELSE metainfo.infoHash

\* download_file draws an id of its own unless it is given one.
WorkersId == IF OfMagnet THEN "first" ELSE "second"

Announce ==
  /\ Doing("announce")
  /\ \/ Done
     \/ Fail("announce")
  /\ announced' = announced \cup {[hash |-> HashInHand, id |-> "first"]}
  /\ UNCHANGED <<inputs, metainfo, conns, named, result>>

TakePeer ==
  /\ Doing("peer")
  /\ IF swarm.peers = << >> THEN Fail("nobody") ELSE Done
  /\ UNCHANGED <<inputs, metainfo, network, result>>

Refuses(peer, id) ==
  swarm.exclusive /\ \E c \in conns : c.peer = peer /\ c.id = id

\* Its owner is a worker, or main.
Main == -1
Opened(peer, id, owner) == [peer |-> peer, id |-> id, owner |-> owner]

\* `handshake` goes to the address it is given, the others to the first peer.
Contact == IF call.command = "handshake" THEN call.argument.index ELSE Head(swarm.peers)

\* A connection is open until its handler returns, or download_piece does; what
\* goes wrong on the way to it is PeerSession's.
Connect ==
  /\ Doing("connect")
  /\ named' = named \cup {[hash |-> HashInHand, id |-> "first"]}
  /\ IF Refuses(Contact, "first")
     THEN Fail("refused") /\ UNCHANGED conns
     ELSE \/ Done /\ conns' = conns \cup {Opened(Contact, "first", Main)}
          \/ Fail("connection") /\ UNCHANGED conns
          \/ Kill /\ UNCHANGED conns
  /\ UNCHANGED <<inputs, metainfo, announced, result>>

\* Only the text the link is for passes: whatever else a peer sends is refused.
TakeMetadata ==
  /\ Doing("metadata")
  /\ \/ InfoIsRead(Info) /\ Done /\ metainfo' = FromInfoDict(Info)
     \/ Fail("metadata") /\ UNCHANGED metainfo
     \/ Kill /\ UNCHANGED metainfo
  /\ UNCHANGED <<inputs, network, result>>

----------------------------------------------------------------------------
(* Pieces *)

PieceCount == Len(metainfo.hashes)
RequestedLen(index) == ActualPieceLen(metainfo.length, metainfo.pieceLength, index)

\* The bytes of the torrent that a piece has, whatever the client computes.
TrueLen(index) ==
  LET rest == metainfo.length - index * metainfo.pieceLength
  IN  IF metainfo.pieceLength < rest THEN metainfo.pieceLength ELSE rest

\* Fault: the hash of the piece after is read.
VerdictsByNextHash(index) ==
  IF index + 1 \notin 0 .. PieceCount - 1 THEN {"undefined"} ELSE {"piece", "mismatch"}

\* What download_piece_on_connection may do once it has all the blocks: the
\* index is not compared with the number of hashes before its hash is read.
Verdicts(index) ==
  IF index \notin 0 .. PieceCount - 1 THEN {"undefined"}
  ELSE IF ~swarm.honest THEN {"piece", "mismatch"}
  ELSE IF RequestedLen(index) = TrueLen(index) THEN {"piece"} ELSE {"mismatch"}

\* A block is copied by the length it has, beyond the end of the piece too.
Overrun(index) ==
  IF ~swarm.honest /\ RequestedLen(index) > 0 THEN {"undefined"} ELSE {}

\* And before: the transfer may fail or be killed, which PieceTransfer models.
Transfer(index) ==
  IF metainfo.pieceLength = 0 THEN {"killed"}
  ELSE IF CountOverflows(metainfo.length, metainfo.pieceLength) THEN {"undefined"}
  ELSE IF OffsetOverflows(RequestedLen(index)) THEN {"undefined"}
  ELSE IF RequestedLen(index) < 0 THEN {"length"}
  ELSE {"transfer", "killed"} \cup Overrun(index) \cup Verdicts(index)

PieceOutcomes(index) ==
  LET has == HasPiece(swarm.bits, index)
  IN  (IF FALSE \in has THEN {"lacks"} ELSE {}) \cup (IF TRUE \in has THEN Transfer(index) ELSE {})

GetPiece ==
  /\ Doing("piece")
  /\ \E outcome \in PieceOutcomes(call.argument.index) :
       /\ CASE outcome = "piece"     -> Done
            [] outcome = "killed"    -> Kill
            [] outcome = "undefined" -> Undefined
            [] OTHER                 -> Fail(outcome)
       /\ piece' = (outcome = "piece")
  /\ UNCHANGED <<inputs, metainfo, network, output, workers>>

\* The result of write is not looked at.
WritePiece ==
  /\ Doing("write")
  /\ \/ Fail("open") /\ UNCHANGED output
     \/ Done /\ output' = IF call.disk = "full" THEN "short" ELSE "whole"
  /\ UNCHANGED <<inputs, metainfo, network, piece, workers>>

----------------------------------------------------------------------------
(* download_file: DownloadFile models it step by step *)

NumWorkers == IF Len(swarm.peers) < PieceCount THEN Len(swarm.peers) ELSE PieceCount

PeerOf(w) == swarm.peers[w + 1]
Piece(w) == Ranges!RangeStart(PieceCount, NumWorkers, w) .. Ranges!RangeEnd(PieceCount, NumWorkers, w) - 1

PrepareFile ==
  /\ Doing("prepare")
  /\ \/ swarm.peers = << >> /\ Fail("nobody") /\ UNCHANGED <<output, workers>>
     \/ swarm.peers # << >> /\ Fail("open") /\ UNCHANGED <<output, workers>>
     \/ swarm.peers # << >> /\ Fail("ftruncate") /\ output' = "empty" /\ UNCHANGED workers
     \/ /\ swarm.peers # << >> /\ metainfo.length >= 0 /\ output' = "sized"
        /\ IF PieceCount = 0 THEN Kill ELSE Done
        /\ workers' = [w \in 0 .. NumWorkers - 1 |-> "connect"]
  /\ UNCHANGED <<inputs, metainfo, network, piece>>

WorkerFails(w, e) ==
  /\ workers' = [workers EXCEPT ![w] = "failed"]
  /\ error' = IF error = "none" THEN e ELSE error
  /\ UNCHANGED <<todo, status>>

WorkerGoesOn(w, to) ==
  workers' = [workers EXCEPT ![w] = to] /\ UNCHANGED <<todo, status, error>>

WorkerConnects(w) ==
  /\ Doing("workers") /\ workers[w] = "connect"
  /\ named' = named \cup {[hash |-> metainfo.infoHash, id |-> WorkersId]}
  /\ IF Refuses(PeerOf(w), WorkersId)
     THEN WorkerFails(w, "refused") /\ UNCHANGED conns
     ELSE \/ WorkerGoesOn(w, "get") /\ conns' = conns \cup {Opened(PeerOf(w), WorkersId, w)}
          \/ WorkerFails(w, "connection") /\ UNCHANGED conns
          \/ Kill /\ UNCHANGED <<conns, workers>>
  /\ UNCHANGED <<inputs, metainfo, announced, piece, output>>

\* pwrite refuses an offset below zero; one that is no int64_t is undefined.
Offset(p) == p * metainfo.pieceLength
Taken(p)  == call.disk = "free" /\ "piece" \in PieceOutcomes(p) /\ Offset(p) \in 0 .. Int64Max
Breaks(p) ==
  "undefined" \in PieceOutcomes(p) \/ ("piece" \in PieceOutcomes(p) /\ Offset(p) \notin Int64)

WorkerEnds(w) ==
  /\ Doing("workers") /\ workers[w] = "get"
  /\ \/ (\A p \in Piece(w) : Taken(p)) /\ WorkerGoesOn(w, "done")
     \/ \E p \in Piece(w) :
          /\ \A q \in Piece(w) : q < p => Taken(q)
          /\ \/ PieceOutcomes(p) \ {"piece", "killed", "undefined"} # {} /\ WorkerFails(w, "piece")
             \/ "killed" \in PieceOutcomes(p) /\ Kill /\ UNCHANGED workers
             \/ Breaks(p) /\ Undefined /\ UNCHANGED workers
  /\ conns' = conns \ {Opened(PeerOf(w), WorkersId, w)}
  /\ UNCHANGED <<inputs, metainfo, announced, named, piece, output>>

\* What the workers have written when none of them failed: the file, if its
\* pieces are as many as the hashes and each was asked for at its length; bytes
\* are missing, or follow its end, if not.
Written ==
  IF /\ PieceCount = NumPieces(metainfo.length, metainfo.pieceLength)
     /\ \A p \in 0 .. PieceCount - 1 : RequestedLen(p) = TrueLen(p)
  THEN "whole" ELSE "odd"

\* Fault: what the workers have recorded is not thrown again.
JoinedQuietly ==
  /\ Doing("workers")
  /\ \A w \in DOMAIN workers : workers[w] \in {"done", "failed"}
  /\ Done /\ output' = IF error = "none" THEN Written ELSE output
  /\ UNCHANGED <<inputs, metainfo, network, piece, workers>>

Joined ==
  /\ Doing("workers")
  /\ \A w \in DOMAIN workers : workers[w] \in {"done", "failed"}
  /\ IF error = "none" THEN Done /\ output' = Written ELSE Fail(error) /\ UNCHANGED output
  /\ UNCHANGED <<inputs, metainfo, network, piece, workers>>

----------------------------------------------------------------------------
Ended   == {"ok", "usage", "error", "killed", "undefined"}
Stopped == status \in Ended /\ UNCHANGED vars

Next ==
  \/ Dispatch \/ Return \/ PrintValue \/ ParseArgument \/ ReadTorrent \/ ReadLink
  \/ Announce \/ TakePeer \/ Connect \/ TakeMetadata \/ GetPiece \/ WritePiece \/ PrepareFile
  \/ \E w \in DOMAIN workers : WorkerConnects(w) \/ WorkerEnds(w)
  \/ Joined \/ Stopped

Spec == Init /\ [][Next]_vars

----------------------------------------------------------------------------
(* Properties *)

\* The entries are in order, none twice, in the one spelling they have.
Canonical ==
  /\ torrent.spelling = "canonical"
  /\ \A i, j \in DOMAIN Info : i < j => Rank(Info[i].key) < Rank(Info[j].key)

\* The tracker and every peer are told the hash of the torrent as its file or
\* its link spells it, though extract and from_info_dict compute theirs from
\* the decoded dictionary: only the workers of a torrent that is spelled in
\* another way, and the commands on its file, name another.  And but for
\* `download`, the peers are shown the id the tracker was given.
HandshakesNameTheTorrent ==
  /\ \A h \in announced \cup named :
       h.hash # TorrentHash => ~Canonical /\ (OfMagnet => workers # << >>)
  /\ \A a \in announced, h \in named : h.id # a.id => call.command = "download"

\* Two of the workers have the same peer of the tracker's list.
ListedTwice ==
  \E v, w \in DOMAIN workers : v # w /\ PeerOf(v) = PeerOf(w)

MeetsItself ==
  call.command = "magnet_download" \/ (call.command = "download" /\ ListedTwice)

\* Only magnet_download, which keeps its first connection while its workers
\* open theirs, and a download whose workers have one peer twice, because the
\* tracker lists it twice, ever have two connections to a peer under one id, or
\* are refused by a peer that takes only one; and with such peers
\* magnet_download never succeeds, whatever the list.
RivalsOnlyInMagnetDownload ==
  /\ \A c, d \in conns : c # d /\ c.peer = d.peer /\ c.id = d.id => MeetsItself
  /\ error = "refused" => MeetsItself
  /\ status = "ok" /\ swarm.exclusive => call.command # "magnet_download"

WholeFile == call.command \in {"download", "magnet_download"}
OnePiece  == call.command \in {"download_piece", "magnet_download_piece"}

\* A command that ends before it has a verified piece leaves the output as it
\* was; download and magnet_download have emptied it before the first worker
\* connects, but never before they know a peer and the metainfo.
EarlyFailureKeepsOutput ==
  output # "before" => IF WholeFile THEN swarm.peers # << >> /\ metainfo # Unknown ELSE piece

\* A torrent has sizes that fit it: pieces a block short of the largest
\* int32_t or smaller, and a hash for each of them and no more.
WellFormed ==
  /\ metainfo # Unknown /\ metainfo.pieceLength \in 1 .. Int32Max - BlockSize /\ metainfo.length > 0
  /\ PieceCount = NumPieces(metainfo.length, metainfo.pieceLength)

\* A download that reports success has its piece, or its file, whole on the
\* disk, unless the disk is full and the command writes a single piece, or the
\* sizes in the torrent do not fit each other: with fewer hashes than pieces
\* the end of the file is blank, with more it may be longer than it should.
ZeroMeansWritten ==
  status = "ok" =>
    /\ OnePiece => piece /\ (output = "whole" \/ call.disk = "full")
    /\ WholeFile /\ WellFormed => output = "whole" /\ call.disk = "free"

\* The bit of a piece is set, as the protocol numbers them.
HasBit(index) ==
  /\ index \in 0 .. 8 * Len(swarm.bits) - 1
  /\ 7 - (index % 8) \in swarm.bits[index \div 8 + 1]

\* Nothing is asked of a peer that it has not announced, unless the index is so
\* far below zero that another piece of memory is taken for the bitfield.
AskedPiecesAreAnnounced ==
  OnePiece /\ (piece \/ status = "undefined" \/ error \in {"mismatch", "length", "transfer"}) =>
    HasBit(call.argument.index) \/ call.argument.index <= -8

\* Memory that is not the piece's is touched, and arithmetic overflows, only
\* for an index without a hash; for a piece length, negative or not, that is
\* within a block of the width of an int32_t or beyond it; for a length that is
\* within that width of the ends of an int64_t; or when the peer sends a longer
\* block than it was asked for.
UndefinedHasACause ==
  status = "undefined" =>
    \/ metainfo.pieceLength \notin BlockSize - Int32Max .. Int32Max - BlockSize
    \/ metainfo.length \notin Int32Max - Int64Max .. Int64Max - Int32Max
    \/ OnePiece /\ call.argument.index \notin 0 .. PieceCount - 1
    \/ ~swarm.honest

\* A piece of a well-formed torrent is never refused when the peer is honest.
HonestPiecesVerify ==
  error = "mismatch" /\ WellFormed => ~swarm.honest

=============================================================================
