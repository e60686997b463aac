------------------------------ MODULE PieceIndex ------------------------------
(***************************************************************************)
(* What download_piece_on_connection computes from the index it is given,  *)
(* in the integers of the code: an int that may be negative or beyond the  *)
(* torrent, quotients that are rounded to zero, sums of 64 bits, lengths   *)
(* narrowed to 32.  PieceTransfer is about an index and lengths within     *)
(* range; here is what happens with the others.                            *)
(***************************************************************************)
EXTENDS Integers, Sequences

CONSTANTS
  Int32Max,   \* the largest int32_t, 2^31 - 1 in the code
  Int64Max,   \* the largest int64_t, 2^63 - 1 in the code
  BlockSize   \* message::kBlockSize

ASSUME IndexAssumption ==
  /\ Int32Max \in Nat /\ BlockSize \in 1 .. Int32Max
  /\ Int64Max \in Nat /\ Int64Max >= Int32Max * Int32Max

Int64 == -Int64Max - 1 .. Int64Max

\* C++ division.
Quotient(a, b) == IF (a < 0) = (b < 0) THEN
                    (IF a < 0 THEN -a ELSE a) \div (IF b < 0 THEN -b ELSE b)
                  ELSE -((IF a < 0 THEN -a ELSE a) \div (IF b < 0 THEN -b ELSE b))
Remainder(a, b) == a - b * Quotient(a, b)

ToInt32(n) == ((n + Int32Max + 1) % (2 * (Int32Max + 1))) - (Int32Max + 1)

----------------------------------------------------------------------------
(* message::has_piece.  A bitfield is a sequence of bytes, a byte the set   *)
(* of its bits that are one, 7 the highest.                                 *)

ByteIdx(index) == Quotient(index, 8)
BitIdx(index)  == 7 - Remainder(index, 8)

\* Fault: one byte too many is looked at.
BeyondBitfieldByOne(bits, index) == ByteIdx(index) > Len(bits)

BeyondBitfield(bits, index) == ByteIdx(index) >= Len(bits)

\* What has_piece may return.  Before or after the bytes it reads memory that
\* is not its own; a bit number above 7 is none of a byte.
HasPiece(bits, index) ==
  IF BeyondBitfield(bits, index) \/ BitIdx(index) > 7 THEN {FALSE}
  ELSE IF ByteIdx(index) \in 0 .. Len(bits) - 1
       THEN {BitIdx(index) \in bits[ByteIdx(index) + 1]}
       ELSE BOOLEAN

----------------------------------------------------------------------------
(* The length of the piece, for a pieceLength that is not zero *)

NumPieces(length, pieceLength) == Quotient(length + pieceLength - 1, pieceLength)

\* A sum, or the quotient, of NumPieces is no int64_t any more.
CountOverflows(length, pieceLength) ==
  \/ length + pieceLength \notin Int64
  \/ length + pieceLength - 1 \notin Int64
  \/ pieceLength = -1 /\ NumPieces(length, pieceLength) \notin Int64

\* Fault: the last piece is not shorter than the others.
ActualPieceLenFull(length, pieceLength, index) == ToInt32(pieceLength)

ActualPieceLen(length, pieceLength, index) ==
  IF index = NumPieces(length, pieceLength) - 1 /\ Remainder(length, pieceLength) # 0
  THEN ToInt32(Remainder(length, pieceLength))
  ELSE ToInt32(pieceLength)

\* The offset that ends the loop over the blocks is no int32_t any more.
OffsetOverflows(len) ==
  len > 0 /\ BlockSize * ((len + BlockSize - 1) \div BlockSize) > Int32Max

=============================================================================
