--------------------------- MODULE FileDelivery ---------------------------
(***************************************************************************)
(* What download::download_file promises to its caller: bytes of the       *)
(* torrent appear in the output file, in any order; the call returns       *)
(* normally only when every piece with a hash is there (the whole file,    *)
(* when each piece has one); and once it has returned, or the process has  *)
(* died, the file does not change any more.                                *)
(***************************************************************************)
EXTENDS PieceLayout

VARIABLES
  numHashes, \* the piece hashes in the metainfo: the pieces asked for
  file,      \* the Length first bytes of the output file, << >> before it is prepared
  outcome    \* "none" while the call runs, then "ok", "error" or "killed"

fvars == <<numHashes, file, outcome>>

Blank == [b \in 0 .. Length - 1 |-> Zero]

\* The bytes of piece p are at their place.
InPlace(p) ==
  \A o \in Offsets(p) : file[PieceOffset(p) + o] = Content(p)[o]

Init == numHashes \in Nat /\ file = << >> /\ outcome = "none"

\* The file is created with its final size.
Prepare ==
  /\ outcome = "none" /\ file = << >>
  /\ file' = Blank
  /\ UNCHANGED <<numHashes, outcome>>

\* Some bytes of one piece reach their place.
Fill ==
  /\ outcome = "none" /\ file # << >>
  /\ \E p \in Pieces : \E n \in 0 .. ActualPieceLen(p) :
       file' = [b \in DOMAIN file |->
                  IF b - PieceOffset(p) \in 0 .. n - 1 THEN b ELSE file[b]]
  /\ UNCHANGED <<numHashes, outcome>>

Succeed ==
  /\ outcome = "none" /\ file # << >>
  /\ \A p \in Pieces : p < numHashes => InPlace(p)
  /\ outcome' = "ok"
  /\ UNCHANGED <<numHashes, file>>

GiveUp ==
  /\ outcome = "none"
  /\ outcome' \in {"error", "killed"}
  /\ UNCHANGED <<numHashes, file>>

Next == Prepare \/ Fill \/ Succeed \/ GiveUp

Spec == Init /\ [][Next]_fvars

=============================================================================
