-------------------------- MODULE MCPieceTransfer --------------------------
(***************************************************************************)
(* Small instances of PieceTransfer: pieces of up to three blocks, the last *)
(* piece and its last block short, a window smaller than a piece.          *)
(***************************************************************************)
EXTENDS PieceTransfer

OpenHandover   == {"open"}
AnyHandover    == {"open", "rst pending", "broken"}
NoEvents       == {}
CloseEvents    == {"close", "reset"}
NoControls     == {}
SomeControls   == {"keep-alive", "unchoke", "have"}
ChokeControls  == {"choke", "unchoke"}
AllPieces      == {Pieces}
LastOrNot      == {Pieces, Pieces \ {NumPieces - 1}}

=============================================================================
