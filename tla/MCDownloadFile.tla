--------------------------- MODULE MCDownloadFile ---------------------------
(***************************************************************************)
(* Small instances of DownloadFile: a file of three pieces with a short     *)
(* last one, up to three peers, so that ranges of one and of two pieces and *)
(* of no remainder occur, and every fault the code meets.                   *)
(***************************************************************************)
EXTENDS DownloadFile

AllFaultKinds   == AllFaults
NoFaults        == {}
UpToThreePeers  == 0 .. 3
TwoPeers        == {2}
FewerHashes     == {NumPieces - 1}
AnyHashes       == {0, NumPieces - 1, NumPieces, NumPieces + 1}

=============================================================================
