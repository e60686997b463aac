------------------------------ MODULE MCCommands ------------------------------
(***************************************************************************)
(* Small instances of Commands: hashes of two bytes, blocks of 16 bytes and *)
(* largest integers of 127 and 16383 in the place of 20, 16384, 2^31 - 1 and *)
(* 2^63 - 1, so that sizes near, at and beyond the width of an integer are  *)
(* small numbers.                                                           *)
(***************************************************************************)
EXTENDS Commands

SomeKeys == <<"announce", "info", "length", "name", "piece length", "pieces", "private">>

Integer(key, n) == Entry(key, "integer", n)
Hashes(n)       == Entry("pieces", "string", [k \in 1 .. 2 * n |-> k])

\* The info dictionary of a file of `length` bytes with n hashes.
InfoOf(length, pieceLength, n) ==
  <<Integer("length", length), Entry("name", "string", <<1>>),
    Integer("piece length", pieceLength), Hashes(n)>>

FileOf(info) == <<Entry("announce", "string", <<1>>), Entry("info", "dict", info)>>

Torrent(dict) == [readable |-> TRUE, dict |-> dict, spelling |-> "canonical"]

\* Whole pieces, a shorter last one, one piece, pieces whose blocks end at and
\* beyond the largest integer, widths that are narrowed to 0, to a negative and
\* to a large number, no piece length, negative sizes, hashes missing and too many,
\* a sum, a quotient and the offset of a piece that overflow.
Sizes == {<<32, 16, 2>>, <<40, 16, 3>>, <<5, 16, 1>>, <<240, 112, 3>>, <<240, 113, 3>>,
          <<400, 200, 2>>, <<300, 256, 2>>, <<40, 0, 3>>, <<40, -16, 3>>, <<40, -130, 3>>, <<-8, 16, 1>>,
          <<40, 16, 2>>, <<40, 16, 4>>, <<40, 16, 0>>,
          <<16370, 16, 2>>, <<-16382, -1, 1>>, <<-16382, -3, 1>>, <<100, 9000, 3>>}

Good == InfoOf(40, 16, 3)

OddInfos ==
  { << >>, SubSeq(Good, 1, 3), Tail(Good),
    Reverse(Good),                                    \* out of order
    Good \o <<Integer("length", 24)>>,                \* a key twice
    Good \o <<Integer("private", 1)>>,
    Good \o <<Hashes(1)>>,                            \* hashes twice
    Good \o <<Entry("pieces", "string", <<1>>)>>,     \* half a hash
    <<Entry("length", "string", <<4>>)>> \o Tail(Good) }

OddFiles ==
  { << >>, <<Entry("announce", "list", << >>), Entry("info", "dict", Good)>>,
    <<Entry("announce", "string", <<1>>), Entry("info", "string", <<1>>)>>,
    <<Entry("info", "dict", Good)>> }

SomeTorrents ==
  { Torrent(FileOf(InfoOf(z[1], z[2], z[3]))) : z \in Sizes }
    \cup { Torrent(dict) : dict \in OddFiles \cup { FileOf(info) : info \in OddInfos } }
    \cup { [Torrent(FileOf(Good)) EXCEPT !.spelling = "lenient"],
           [Torrent(FileOf(Good)) EXCEPT !.readable = FALSE] }

Argument(index) == [valid |-> TRUE, printable |-> TRUE, index |-> index]
NoArgument      == [Argument(0) EXCEPT !.valid = FALSE]

Call(command, argc, argument, disk) ==
  [command |-> command, argc |-> argc, argument |-> argument, disk |-> disk]

\* Every command with all its arguments and one less, every index that the bytes
\* of a bitfield tell apart, and the disk full where something is written.
SomeCalls ==
  { Call(c, MinArgs(c), Argument(0), "free") : c \in Commands }
    \cup { Call(c, MinArgs(c) - 1, Argument(0), "free") : c \in {"decode", "handshake", "download"} }
    \cup { Call("decode", 1, Argument(0), "free"), Call("unknown", 6, Argument(0), "free"),
           Call("decode", 3, [Argument(0) EXCEPT !.printable = FALSE], "free") }
    \cup { Call(c, 6, NoArgument, "free") :
             c \in {"decode", "download_piece", "handshake", "magnet_download_piece"} }
    \cup { Call(c, 6, Argument(0), "full") :
             c \in {"download_piece", "download", "magnet_download_piece", "magnet_download"} }
    \cup { Call(c, 6, Argument(n), "free") :
             c \in {"download_piece", "magnet_download_piece"}, n \in {-9, -8, -1, 1, 2, 3, 7, 8, 16} }

\* Peers with the three pieces of most torrents, with two, with every bit set,
\* more bytes than there are pieces, or none; lists of two peers, of one listed
\* twice, and of nobody.
SomeSwarms ==
  [peers : {<<0>>}, bits : {<<{5, 6, 7}>>, <<{6, 7}>>, <<0 .. 7, 0 .. 7>>, << >>},
   exclusive : BOOLEAN, honest : BOOLEAN]
    \cup [peers : {<< >>, <<0, 1>>, <<0, 0>>, <<0, 1, 1>>}, bits : {<<{5, 6, 7}>>}, exclusive : BOOLEAN, honest : {TRUE}]

=============================================================================
