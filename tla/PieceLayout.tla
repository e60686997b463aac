---------------------------- MODULE PieceLayout ----------------------------
(***************************************************************************)
(* How a file of Length bytes is cut into pieces, a piece into blocks, and *)
(* the pieces into the contiguous ranges the workers of a download take.   *)
(* The arithmetic is that of peer::download_piece_on_connection and        *)
(* download::download_file.                                                *)
(*                                                                         *)
(* The content of the torrent is abstracted to the position of each byte:  *)
(* byte number b of the file has the value b, so a byte that lands at the  *)
(* wrong place, or comes from the wrong piece, is told from the right one. *)
(* SHA-1 is modelled as collision free: two pieces have equal hashes       *)
(* exactly when their bytes are equal.                                     *)
(***************************************************************************)
EXTENDS Integers

CONSTANTS
  Length,        \* Metainfo::length_, bytes in the file
  PieceLength,   \* Metainfo::piece_length_, bytes in every piece but the last
  BlockSize      \* message::kBlockSize, bytes in every block but the last

ASSUME LayoutAssumption ==
  /\ Length      \in Nat \ {0}
  /\ PieceLength \in Nat \ {0}
  /\ BlockSize   \in Nat \ {0}

----------------------------------------------------------------------------
(* Pieces *)

NumPieces == (Length + PieceLength - 1) \div PieceLength

Pieces == 0 .. NumPieces - 1

PieceOffset(p) == p * PieceLength

\* The last piece is short when PieceLength does not divide Length.
ActualPieceLen(p) ==
  IF p = NumPieces - 1 /\ Length % PieceLength # 0
  THEN Length % PieceLength
  ELSE PieceLength

Offsets(p) == 0 .. ActualPieceLen(p) - 1

\* The bytes of piece p, and a buffer of its size as std::string creates it.
Zero == -1
Content(p)     == [o \in Offsets(p) |-> PieceOffset(p) + o]
EmptyBuffer(p) == [o \in Offsets(p) |-> Zero]

----------------------------------------------------------------------------
(* Blocks: the table the loop "for (off = 0; off < len; off += kBlockSize)" *)
(* builds.                                                                  *)

NumBlocks(p) == (ActualPieceLen(p) + BlockSize - 1) \div BlockSize

Blocks(p) == 0 .. NumBlocks(p) - 1

BlockBegin(i) == i * BlockSize

BlockLength(p, i) ==
  LET rest == ActualPieceLen(p) - BlockBegin(i)
  IN  IF BlockSize < rest THEN BlockSize ELSE rest

----------------------------------------------------------------------------
(* Worker ranges: n pieces over k workers, the first n % k workers take one *)
(* piece more than the others.                                              *)

\* Faults: the remainder does not shift the ranges; nobody takes it.
RangeStartUnshifted(n, k, w) == w * (n \div k)
RangeEndNoRemainder(n, k, w) ==
  w * (n \div k) + (IF w < n % k THEN w ELSE n % k) + (n \div k)

RangeStart(n, k, w) ==
  w * (n \div k) + (IF w < n % k THEN w ELSE n % k)

RangeEnd(n, k, w) ==
  RangeStart(n, k, w) + (n \div k) + (IF w < n % k THEN 1 ELSE 0)

=============================================================================
