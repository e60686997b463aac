# A verification of TinyBitTorrent

TLA+ models of TinyBitTorrent (C++23, `src/`), TLC configurations that check
them on small instances, and proofs that TLAPS checks for every value of the
constants. Each module is translated from the source it names; `PROJECT.json`
gives, for every definition, the lines it stands for.

## 1. The program

A command line client (`src/src/main.cpp`, `src/src/cmd/cmd.cpp`) that decodes
torrent files and magnet links, asks a tracker for peers, talks to peers and
downloads a piece or a file. One thread does everything except the download of
a file, which has one thread for each peer.

| Component | Source under `src/src/` | State | Operations | Talks to |
|---|---|---|---|---|
| piece transfer | `peer/peer.cpp` 309-406 | flags of received blocks, counters, window, buffer of the piece | request, receive, copy, verify | a peer, over a connection |
| piece layout | `peer.cpp` 318-340, `message.cpp` 105-114, `download.cpp` 55-61, 83 | none | lengths, offsets, blocks, ranges of the workers, bits of the bitfield | used by transfer, download, commands |
| parallel download | `download/download.cpp` | threads, output file, first error and its mutex | prepare, spawn, write, record an error, join, close, report | one piece transfer for each worker |
| peer session | `peer.cpp` 22-307, 408-469 | what has been negotiated | handshake, bitfield and unchoke, extension handshake, metadata | a peer |
| message codec | `peer/message.cpp`, `util/bytes.hpp`, `peer.cpp` 62-78 | the message being received | encode, decode, recv_message | transfer, session |
| bencode | `bencode/*.cpp` | the text still to decode | decode, encode, find | tracker, metainfo, session |
| sha1 | `util/sha1.cpp`, `util/sha1.hpp` | block, its length, total length, hash | update, finalize, hex_to_bytes | transfer, session, metainfo, link |
| tracker announce | `tracker/tracker.cpp`, `http/http_client.cpp` | the response so far | build the URL, take it apart, request, receive, parse, take peers | a tracker |
| sockets | `util/socket.cpp` | descriptor | connect, send_all, recv_all, close | all that use the network |
| torrent metainfo | `torrent/metainfo.cpp` | none | extract, from_info_dict | commands, session |
| magnet link | `magnet/magnet.cpp`, `util/url_encode.cpp` | none | parse, percent-coding | commands |
| commands | `cmd/cmd.cpp`, `main.cpp` | the connection and the metainfo in hand | dispatch, eleven handlers, report of an exception | everything |
| output, random and network helpers, JSON library | `output/`, `util/random.hpp`, `util/net_util.hpp`, `lib/` | none | print, draw an id, parse `host:port` | commands |

What makes a component correct, and what is hard about it:

* **Piece transfer.** The bytes handed on are the piece's, or an exception is
  thrown; the window is kept full and never overfilled; client and peer never
  wait for each other. Hard: blocks come in any order, twice, late (from the
  piece before), wrong, short or too long; the connection goes away between two
  sends.
* **Parallel download.** Success means that every byte is there; workers write
  disjoint pieces, only while the file is open, and none outlives the call; the
  first error is the one reported. Hard: the interleaving of workers and main,
  failures of several, a failure in the middle of starting them.
* **Peer session.** A connection is handed on only when it is ready, metadata
  only when they are those of the link, and no side waits for the other for
  ever. Hard: messages are taken in one fixed order, peers send in another, and
  some of them without being asked.
* **Messages.** What is received is what was sent, however TCP cuts it, and a
  frame that is no message does not shift the next. Hard: keep-alives, reads
  past the end of a short message.
* **Announce and links.** A link is read whatever the order of its parameters,
  the tracker learns the right hash, a peer list is complete or refused. Hard:
  arbitrary bytes through percent-coding into a URL and out of it again; a reply
  that ends where the connection ends.
* **Commands.** Tracker and peers are told of one torrent, a failure leaves the
  output alone as long as it can, success means it is written, an index nobody
  compared does no harm. Hard: three sources of the hash and two of the id,
  connections that outlive their use, arithmetic in several widths.
* **Bencode, sha1.** A text has one meaning, a cut one has none; the digest is
  that of the message however it was cut. Hard: boundaries (block, integer
  width), text that ends anywhere.

`PROJECT.json` lists the hazards line by line with the properties about them.

## 2. Modules

| Module | Models | Built on |
|---|---|---|
| `PieceLayout` | the arithmetic of pieces, blocks and worker ranges | |
| `PieceService` | abstract: what a worker gets from a connection | `PieceLayout` |
| `PieceTransfer` | `download_piece_on_connection` for the pieces of one worker, with peer and TCP as environment | `PieceLayout`, implements `PieceService` |
| `FileDelivery` | abstract: what `download_file` promises | `PieceLayout` |
| `DownloadFile` | `download_file`, main and workers | `PieceLayout`, implements `FileDelivery` |
| `PeerSession` | the five functions that open a connection | |
| `MessageCodec` | `encode`, `decode` and the integers, byte by byte | |
| `MessageStream` | `Socket::Socket`, `send_all`, `recv_all`, `recv_message` over a stream of bytes | `MessageCodec` |
| `Bencode`, `BencodeEncoder` | `decode` as a machine with a stack; `encode` as a recursive function | |
| `BencodeSpelling` | abstract: the one spelling bencoding has for a value, and the properties of both | `BencodeEncoder` |
| `Sha1Stream` | buffering and padding of `util::Sha1` | |
| `UrlText` | percent-coding and `hex_to_bytes`, on texts as sequences of bytes | |
| `MagnetLink` | `magnet::parse` | `UrlText` |
| `LinkMeaning` | abstract: what a link says, without the loop of `parse` | `MagnetLink` |
| `AnnounceUrl` | `build_announce_url`, and `parse_url` that takes the URL apart | `UrlText` |
| `Announce` | `tracker::announce` over `http::get`, from a link or a torrent to the list of peers | `LinkMeaning`, `AnnounceUrl` |
| `Metainfo` | `extract` and `from_info_dict` | |
| `PieceIndex` | `has_piece` and the lengths of a piece in the widths of the code | |
| `Commands` | `dispatch` and the eleven commands, each a sequence of the components' outcomes | `Metainfo`, `PieceIndex`, `PieceLayout` |
| `MC*` | values of the constants for TLC, and reference definitions | |
| `*_proofs` | theorems and their proofs | |

`PieceService` is the joint between the two concurrent halves: `PieceTransfer`
is proved to implement it, and `DownloadFile` uses of a connection what it
offers: the next piece verified, an exception, or a signal. `Commands` uses of
the other modules the same: a result, an exception, a signal.

How state and actions correspond to the code:

* **`PieceTransfer`**: the variables `received`, `blocksReceived`, `sendIdx`,
  `pending`, `pieceData` are the locals of the function, `pi` the worker's loop
  variable. `BeginPiece`/`RejectPiece` are the start of a call, `FillPipeline`
  one turn of the sending loop, `ReceivePiece` one turn of the receiving loop
  with the sends it makes, `VerifyPiece` the comparison of the hash,
  `SkipMessage` and `RejectMessage` what `recv_message` and `decode` do with
  other messages, `CrashOnOverrun` a copy past the end of the buffer, which is
  undefined; of what can come of it the model has that nothing happens and that
  the process ends. A block is copied by its own length, over the blocks after
  it too. `HandedOver` says in what states `establish_connection` may leave the
  connection: also when the peer has closed it by then. Bytes of
  the torrent are their positions in it, so a byte out of place is visible; the
  hash of a piece is taken to identify its content.
* **TCP** (external, as `send_all` and `recv_all` see it): a FIFO towards the
  client; the peer may close (`finished`), and the first send after that
  succeeds and draws a reset (`rst pending`, then `broken`), the next raises
  SIGPIPE; or the peer resets, and `send` fails.
* **`DownloadFile`**: `mainPc` follows `download_file` from line 25 to 111,
  `wpc` a worker from 74 to 98; one action for each call that another thread
  can see: lock, test, store and unlock are separate steps. `WritePiece` writes a
  piece of the file, `WriteBeyond` what belongs to a hash too many, behind the
  file; `file` is what the file holds up to its length. `Unwind` is the
  destruction of the locals when a thread cannot be started: exception slot and
  mutex first, then the vector that joins.
* **`PeerSession`**: `pc` says which message the function sends or waits for
  next; `mode` which function was called. The peer speaks the protocol or
  another, sends a bitfield or not, its unchoke and its extension handshake asked
  or unasked, the latter before or after the bitfield, answers requests that
  carry its id; it may close the connection between any two messages. `heard` and `sent` are its state, `HandshakeDue` to
  `MetadataDue` when it is its turn, so that a wait is a predicate of the state.
* **`MessageStream`**: `tried`, `fd` and `open` are the loop of the constructor,
  the local socket and the connection it is moved to (`HandOver`), and the
  descriptors of the process; `buffer` and `msgLen` are the locals of
  `recv_all` and `recv_message`. `Send` and `Receive` are one turn of the loops
  of `send_all` and `recv_all`, by any number of bytes up to `MaxChunk`.
  `TakeLength` and `TakeBody` are the two halves of `recv_message`; a short
  request, read past its end, decodes to any of a set of messages.
* **`Announce`**: `ReadLink`, `TakeTorrent` and `BuildRequest` compute the
  request from the text of the link and the tracker's URL, byte by byte: a
  text is a sequence of numbers from 0 to 255, as the code sees it. Then a reply is a sequence of parts (status line, headers, empty
  line, parts of the bencoded body), of which `recv` returns any number of those
  on the wire, and the connection may be closed or reset at any moment. What is
  received is parsed by what is in it, not by what the tracker meant.
* **`Commands`**: `todo` holds the steps that are left of a handler, in the
  order of its lines; every step either goes on, throws (`Fail`), is ended by a
  signal (`Kill`) or is undefined behaviour (`Undefined`), and `conns`,
  `announced`, `named` and `output` say what it has done to the outside by then.
  Lengths, offsets and bits are computed by `PieceIndex` from what `Metainfo`
  extracts, with `Int32Max` and `Int64Max` for the limits of `int32_t` and
  `int64_t`, so that a small torrent can reach them. The list of the tracker is a
  sequence, in which a peer may stand twice, as nothing removes it. The workers
  of `download_file` are one step to connect and one to get all their pieces, the
  first that is not `Taken` ends them; `Written` says what the file is when all
  have written theirs: whole, or not, as the hashes and lengths of the torrent
  have it.
* **`Bencode`**: every call of a `decode_*` function that reads something is a
  step, the C++ call stack is `stack`. `size_t` is arithmetic modulo `SizeMod`
  and the range of `int64_t` is `IntMax`, so that limits can be reached. `Values`
  holds the values the instance is about, with what is in each of them; `Spelled`
  gives their texts, and `SpellingAssumption` says what they are. `KeyOrder` is
  the order `std::ranges::sort` leaves the entries in, where two with the same key
  may change places.
* **`Sha1Stream`**: bytes of the message are their positions; the compression
  is abstracted to the list of blocks it was given.

## 3. What is checked

| Run | Shows | Bounds |
|---|---|---|
| `transfer` | safety of the transfer, refinement of `PieceService`, and that the worker ends, with every piece the peer has unless it misbehaved or went away | 2 pieces of 3 and 2 blocks, the last one missing at the peer or not, window 2, blocks of 2 bytes and of up to 4 when overlong, 2 deviations, 1 other message, close and reset, before the first request too |
| `download` | every property of the download, refinement of `FileDelivery`, and that the call ends | 3 pieces, 0 to 3 peers, 0 and 2 to 4 hashes, all faults |
| `session` | what is handed on is ready and verified, peers that wait their turn are served, the two sides wait for each other only when the peer keeps silent | 5 functions, 577 kinds of peers, 1 other message, close and reset |
| `wire` | messages arrive whole and in order however the bytes are cut; no descriptor is left open or has two owners | integers of 2 bytes, chunks of up to 4 bytes, hosts of up to 2 addresses |
| `announce` | links are read, requests name the torrent, peer lists are complete or refused, the call ends | replies of up to 2 entries; links of many spellings (parameters in any order, repeated, bare, escaped once and twice), 14 URLs of trackers, hashes of 3 bytes with 0, 255 and the bytes that end a parameter, an id with `& - %`, 0 and 255 |
| `commands` | one torrent is named to all, which connections rival another, the output is touched late and written when the command says so, indices and lengths nobody compared | 11 commands, with and without enough arguments; 17 sizes of torrents and odd dictionaries; lists of up to 3 peers, one twice; `int32_t` up to 127, `int64_t` up to 16383, blocks of 16, hashes of 2 bytes |
| `bencode` | the decoder always advances; decoding the text of a value gives the value, a cut one nothing; encoding is canonical | every text of up to 4 of 8 characters; 240 values, nested, in and out of order, with a string whose length has two digits, every cut |
| `sha1_stream` | what is hashed is the padded message | block 64, length 8, messages of 0 to 130 bytes, every cut |

The other four runs refute a statement about the code, see section 4.

Why the bounds are enough. The transfer needs a piece of more blocks than the
window (3 and 2), so that a request is sent upon a receipt, a short last block
and a second piece, so that a stale answer can come; two deviations let a block
be both repeated and corrupted, or one to be accepted and overrun by an overlong
one, within a piece and past its end. The download needs ranges with and without a
remainder and more peers than pieces or hashes than pieces, all of which three
pieces give. The session needs ids of the metadata extension that fit a byte,
that are zero and that are narrowed to another id; every combination of what a
peer says unasked, with a close after any of its messages. The wire needs chunks that
end within a length, within a body and beyond a message, which four bytes do for
lengths of two, and an address that fails before one that accepts. A reply needs
the key that counts first, last, twice and not at all; a link each parameter
before and after each other one, and an escape at its very end. The commands need
sizes on both sides of every boundary the code computes (a piece, a block, a
byte of the bitfield, `Int32Max`, `Int64Max` and its negative), an index beyond
each end, fewer hashes than pieces and more, a peer that takes one connection
of an id and one that is listed twice. Messages of up to 130 bytes cross two block
boundaries and each of the boundaries of the padding, with the code's own
constants. Texts of four characters reach a list with a string, an integer with
a sign and a digit, and every way to open, close and break off each; longer ones
come from the values; with `SizeMod` 115 the text `111:` is one whose length
wraps around to nothing.  Which bodies are frames (`IsFrame`) and which bytes a
message has (`Messages`, `Byte`) is an assumption TLC evaluates on the streams of
`wire`. A property is proved as well where section 5 says so, and
then no bound matters.

Fairness. A thread that can take a step takes one in the end (weak fairness of
each thread's actions: the code never spins). The peer, or the tracker, keeps
reading and answering (weak fairness of its answers), and the tracker closes the
connection as the request asks. Nothing forces a peer to do so and the code has
no timeout, so without that assumption no call need end; no property claims it.

## 4. Disagreements between the code and what is said of it

Each of these is a run that TLC refutes, with the line of the documentation or
the code it contradicts quoted in `PROJECT.json`:

* `transfer_choke`: a choke is an unknown message and fails the worker
  (`message.cpp:99`).
* `transfer_sigpipe`: a send after the peer went away ends the process by a
  signal, where the code means to throw "send failed" (`socket.cpp:75`).
* `download_few_hashes`: fewer hashes than pieces, and an incomplete file is
  reported as downloaded (`download.cpp:35`). `ZeroMeansWritten` excepts it.
* `bencode_strict`: `0-:`, `01:a`, `i1-e` are accepted (`decoder.cpp:27`).

Others the models contain, without a run of their own:

* a block is copied by its own length (`peer.cpp:361`): one longer than requested
  overwrites blocks accepted before, or runs past the buffer. It is the exception
  in `AcceptedBlocksStable`, `CrashOnOverrun` of `PieceTransfer`, and one of the
  causes in `UndefinedHasACause`; `VerifiedDelivery` holds nevertheless, as the
  hash finds the bytes that were overwritten.
* more hashes than pieces, which a second `pieces` key also gives
  (`metainfo.cpp:47`): the pieces that belong to them are asked for and, if a peer
  has what they hash, written behind the end of the file (`download.cpp:83`):
  `WriteBeyond` in `DownloadFile`, `Written` in `Commands`.
* a thread that cannot be started, and the running ones lock a destroyed mutex
  (`download.cpp:50`): `LockDestroyed` in `DownloadFile`.
* no hashes (an empty file), and `num_pieces / num_workers` divides by zero
  (`download.cpp:55`): `DivideByZero` in `DownloadFile`. A piece length of zero
  divides by zero too (`peer.cpp:319`): `Transfer` in `Commands`.
* a peer that sends its extension handshake without waiting for the client's is
  refused by `magnet_download` with "expected unchoke" (`peer.cpp:301`):
  `PatientPeersAreServed` is about the peers that wait, `TakeUnchoke` refuses
  the others.
* a peer that says something unasked and closes: the client reads it after its
  own message has drawn a reset, goes on to send, and the process ends with
  SIGPIPE. With an unchoke that is the extension handshake of `magnet_download`
  (`peer.cpp:423`) or the first requests of a transfer, with an extension
  handshake the request for metadata: the causes in `SignalNeedsEagerPeer`, and
  why `HandedOver` has more than an open connection.
* `magnet_download` keeps its first connection open while a worker opens one to
  the same peer under the same id (`cmd.cpp:212`); with peers that take only one
  it never succeeds. `download` does the same when the tracker lists a peer twice,
  which nothing looks for (`tracker.cpp:59`, `download.cpp:74`), and fails by it if
  two workers have it. `RivalsOnlyInMagnetDownload` says that there is no other
  case.
* `download` tells the tracker one id and the peers another (`cmd.cpp:95`):
  the exception in `HandshakesNameTheTorrent`.
* the info hash is taken of the re-encoded dictionary (`metainfo.cpp:78`), and
  is that of the file only when its entries are in order: the hypothesis of
  `OrderedTextsAreKept` and of `HandshakesNameTheTorrent`.
* an index from the command line is compared with the bitfield of the peer, as
  `int` division has it, and never with the number of hashes (`peer.cpp:388`);
  lengths are narrowed to 32 bits (`peer.cpp:320`), and the number of pieces is
  computed by a sum that leaves `int64_t` for a length near its end
  (`peer.cpp:319`): the exceptions in `AskedPiecesAreAnnounced` and
  `UndefinedHasACause`.
* the result of writing a piece is not looked at (`cmd.cpp:89`): the exception
  in `ZeroMeansWritten`.
* the query is appended to the tracker's URL with a `?` whatever it contains
  (`tracker.cpp:19`), and the first `/` anywhere ends the host
  (`http_client.cpp:31`): the hypothesis of `RequestNamesTheTorrent`. A link
  with an `xt` of another kind besides the one of BitTorrent is refused
  (`magnet.cpp:32`), and a link that ends with `xt` or `tr` and no `=` has that
  word itself taken for the value, as `npos + 1` is zero (`magnet.cpp:28`): the
  parameters that end bare (`EndsBare`) in `LinkMeaning`, found by the proof that
  any other link is read as it says.
* a length near the largest `size_t` wraps around in the comparison with the
  input (`decoder.cpp:32`), and when it wraps to zero nothing is removed and a
  list reads the same string again, without end: the exception `WrapsToNothing`
  in `DecodingConsumes`.

## 5. What is proved

`tlapm` checks the proofs for all values of the constants that satisfy the
assumptions `LayoutAssumption`, `TransferAssumption`, `DownloadAssumption`,
`SessionAssumption`, `UrlTextAssumption`, `LinkAssumption`, `AnnounceAssumption`,
`Sha1Assumption`, `CodecAssumption`, `StreamAssumption`, `MetainfoAssumption`,
`IndexAssumption`, `CommandsAssumption`, `BencodeAssumption`, `ValuesAssumption`,
`ByteAssumption`, `SpellingAssumption` and `OrderAssumption`. They say what type
the constants have; `StreamAssumption` says also what the other end of a
connection may send (`IsFrame`): what this program writes, a request cut short,
a body that is no message, a negative length; `LinkAssumption` what the links
mean that are given (`Meaning`); `SpellingAssumption` and `OrderAssumption` what
the texts and the order of the values are. Where a fact needs induction over a
sequence or a number, the proof takes the least number for which it fails
(`LeastOf`), which the prover can follow; a recursive function is shown to be
defined by a table filled up to any place.

* `PieceTransfer_proofs`. Lemmas about the layout come first, here and in
  `DownloadFile_proofs`: blocks partition a piece, pieces the file, ranges the
  pieces. The invariant is built in layers. `TypeOK` first.
  `WindowInv` adds `WindowAccounting` (`pending = sendIdx - blocksReceived`,
  between 0 and the depth) and `WindowFull` (while receiving, the window is
  full or everything has been requested); the latter is needed because
  "something is pending" is not inductive alone: a receipt decrements `pending`
  before the next send. `RequestsInPlay` (what was sent is received, held by the
  peer or on its way) then gives `NoStall`: theorems `TypeCorrect`,
  `WindowCorrect`, `NeverStalls`. `DeliveryVerified`, `TransferImplementsService`
  and `AcceptedStable` follow from the steps and `TypeOK`, which says of every
  block on its way that it is no longer than `MaxBlock`, so of any length the
  peer may choose.
  `ConformingPeer` needs more: while the peer has not deviated, the messages
  under way are the right answers to outstanding requests, each once, and the
  received blocks hold the right bytes (`ExpectedExchange`); hence a complete
  piece has its hash. `RequestsAreBounded` counts instead: what the peer holds
  and what it has answered are together no more than `pending` and its
  deviations (`InFlightInv`). The answers must be counted in, because a request
  leaves `outstanding` when the peer answers it and `pending` only when the
  client reads that.
* `DownloadFile_proofs`. `PhaseInv` (what each phase of main means for file and
  workers) gives `TypeCorrect`, `Joins`, `WritesWhileOpen`. `Mutex` (the owner of
  the lock is the one worker between test and unlock, and the slot is empty when
  it stores) gives `FirstErrorKept`. `Progress` (the pieces of a range before
  `next` are in the file) with the lemmas on ranges gives `WritersDisjoint`; with
  `ErrorsRecorded` (no error is lost) it gives `OutcomeRight`, `SuccessComplete`
  and the refinement `DownloadImplementsDelivery`, for every number of peers and
  hashes: `FileDelivery` promises the pieces that have a hash.
* `PeerSession_proofs`. `SessionInv` is `TypeOK`, with what may be on its way in
  both directions, `ReplyFirst` (the peer's handshake is the first message it
  sends, and is taken before any other), `ModeInv` (which of the five functions
  can be at which step) and `Told` (once the client has the reply, it knows what
  the peer announced). `ReplyFirst` is what makes it inductive: without it a
  later message could be taken for the handshake. `Agreement` and `Readiness`
  follow, for every set of peers and any number of other messages.
  `TurnsInv` says whose turn it is: what the peer has been asked for (`Asked`),
  that it says nothing twice, and unasked only if it is of that kind (`Said`), what
  it can only have sent unasked when it closed before the client's last send
  (`LateInv`),
  and that nothing but the expected message of a patient peer is on its way
  (`Orderly`); hence `SignalsAreRare` and `PatientPeersGetThrough`. `WaitInv`
  says that nothing is lost while the connection is open: what the client waits
  for was asked for (`Requested`), and what the peer has sent and the client's
  path has not come by is still on its way (`Unread`). So if the wire is empty
  the peer has yet to say it, and `OnlySilentPeersHang` goes through the labels.
* `Announce_proofs`. Lemmas about a reply come first: the empty line, if there
  is one, is its third part (`TextShape`), the text of a dictionary ends with
  the one part that closes it, so that a dictionary is decoded only from the
  whole of a reply (`DictionaryIsWhole`), and the peers are the value of one of
  its entries with the key (`PeersOfDictionary`). The invariant `Received` says
  that nothing is received that was not sent, and that from the end of the
  stream on the connection is over and nothing more can come; with it
  `CompletePeers` and `CausedErrors` follow at the two steps that read the reply.
  What precedes the reply is about texts of any length. `Laid`
  gives every byte of a text its place in the spelling, and no escape begins in
  another or at the end, so that the spelling is decoded (`LaidDecodes`): hence
  `SpellingsAreDecoded` and `EncodingsAreDecoded`. The loop of `magnet::parse`
  drops from the link what it has read; it is at each parameter once
  (`TailOfParameter`), reads what is given there (`GivenIsRead`) and nothing that
  is not, but for a bare key at the end (`ReadIsGiven`), so what is assigned last
  is what the link gives last: `LinksAreUnderstood`. For the
  request, `PathOfRequest` finds the host and the path in the URL that
  `build_announce_url` glued together, and `QueryAnswers` the value of a parameter:
  no parameter before it has the same name, and none of its bytes ends it. The
  invariant `Told` carries both from the step that computes them to the end:
  `ReadLinks`, `NamedTorrent`.
* `Bencode_proofs`. `RestIsAnEnd` (what is left is an end of the text) makes
  `DecoderAdvances`: the position after a string is between the colon and the end,
  or has wrapped around once (`OnceAround`). Numbers are read as they are written,
  for any number of digits (`NumberIs`, `DecimalIs`). `DecodesSpellings` is about
  the end of a run and not inductive; `ReadsSpellings` says of every state before
  that there is a path from the value to what is being read (`IsPath`: at each
  level how many items have been read, and what comes after it), that the stack is
  what that path says (`Frames`) and what is left is what it still needs (`Due`),
  whole, followed by more or cut. A step opens a container and adds a level
  (`ContainerIsOpened`), reads an atom (`AtomIsRead`), ends a level
  (`StepsRead`), or runs out of text: `ValuesAreDecoded`,
  `CutValuesAreRefused`. For the encoder, `EncodeIs` shows that its recursion
  defines it for every value, `KeyOrderIsKept` that sorting leaves an ordered
  dictionary alone, and `EncodesOrdered` takes the shortest text that would be
  written otherwise; with `ValuesAreDecoded` it gives `OrderedValuesAreKept`.
* `MessageStream_proofs`. `DescriptorOwned`: `Owners` adds to the property that
  before and after the connection there is nothing open, so that the address that
  accepts finds no descriptor of another. `RoundTrip`: integers are read as they
  were written (`ReadWritten`, for any number of bytes), and so is every message.
  `BoundariesKept`: `FramesKeepBoundaries` alone does not say which bytes are
  still to come; `StreamInv` says that for some `k` the first `k` frames have been
  received and the buffer, the wire and what is unsent are together the bytes
  of the others, the length of the next perhaps taken off (`Position`). A step
  moves bytes between the three or `k` by one frame; that the length taken off is
  that of the frame is `RoundTrip` for what this program writes and `IsFrame` for
  the rest.
* `Commands_proofs`. `CommandsInv`, of eight parts: `Typed`; `InOrder` and
  `OfTheCommand` (the steps left are an end of the handler's list, and only steps
  of its kind); `Progress` (what the steps done have brought about, and those left
  have not); `TorrentInv`, `ConnsInv` (every connection open is main's or that of
  a worker that gets its pieces), `NamedInv` and `PieceInv`. A property about the
  end of a command, like `ZeroMeansWritten`, says nothing of the states before,
  and `Progress` is what makes it inductive. A dictionary whose keys are in
  order is the one `encode` writes (`SortedInOrder`), which gives the hash; lemmas
  about division that rounds towards zero give the piece that is asked for, say
  for which lengths the number of pieces overflows (`CountHasACause`), and that
  the offset of a piece the program comes to write is an `int64_t`
  (`OffsetFits`); that the hashes are no more than an `int` counts is an assumption
  there. The seven properties of the run follow.
* `Sha1Stream_proofs`: `BufferCorrect` says which byte of the message is at which
  place of the processed blocks and of the buffer; it is inductive with `TypeOK`
  and the fact that nothing is under way after `finalize`. `DigestCorrect`
  follows at `Finalize`, where the number of blocks of the padding is a division
  (`PaddedCount`) and every place of the last one or two blocks is compared with
  the reference `Padded` (`PaddedByte`).

Only model-checked:

* liveness (`Completes`, `Returns`, `Terminates`): it needs fairness and
  `ENABLED`, beyond the prover.

Every invariant and every action property of the runs is a theorem.

## 6. What is not modelled

* The vendored JSON library, `lib/nlohmann/json.hpp`, 24608 of the 27158 lines
  of the repository, used to print a decoded value and for nothing else. Of the
  2550 lines that are the program's own, blank lines and includes counted, 1617
  are mapped.
* The compression function of SHA-1: rounds over 32-bit words, without control.
* The bytes of the address and the port of a peer in a tracker's reply, which
  are copied; the number of peers is modelled.
* Formatting and output; that printing a string that is not UTF-8 throws is in
  `Commands`. Random ids, by their being two. The move assignment of `Socket`,
  which nothing uses.
* `bencode::find` has no module of its own: it returns the first entry with a
  key, and the models that use it have no key twice.
* `std::sort` is not stable: the order of two entries with the same key is left
  open by the code and by `KeyOrder` of `BencodeEncoder`, and fixed in `Metainfo`.

## 7. Plan

1. *(done)* layout, transfer, download: models, runs, refinements, proofs.
2. *(done)* peer session, bencode, sha1, announce: models and runs; sha1: proofs.
3. *(done)* messages over a stream, links and URLs, metainfo, indices, commands:
   models and runs; peer session and announce: proofs.
4. *(done)* proofs: the bound on requests in flight, the turns, signals and waits
   of the peer session, codec and framing, the commands.
5. *(done)* proofs: percent-coding, links and requests; the decoder on values of
   any depth, and the encoder. Every invariant of a run is proved.
6. Left: that `FileDelivery` and `PieceService` compose (a worker of
   `DownloadFile` may be replaced by a `PieceTransfer`).
