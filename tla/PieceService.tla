--------------------------- MODULE PieceService ---------------------------
(***************************************************************************)
(* What a worker of a download gets from one peer connection, whatever the *)
(* peer does: the pieces Start .. End-1 in order, each one whole and with  *)
(* the bytes of the torrent, until the service is done or stops for good.  *)
(* PieceTransfer implements it; DownloadFile is built on it.               *)
(***************************************************************************)
EXTENDS PieceLayout, Sequences

CONSTANTS
  Start,    \* first piece of the range
  End       \* one past the last piece

VARIABLES
  served,   \* the pieces handed to the worker, in order
  status    \* "running", "done", "failed" (exception) or "killed" (signal)

svars == <<served, status>>

Init == served = << >> /\ status = "running"

\* The next piece, verified, is returned by download_piece_on_connection.
Serve ==
  /\ status = "running"
  /\ Len(served) < End - Start
  /\ served' = Append(served, Content(Start + Len(served)))
  /\ UNCHANGED status

\* The worker's loop reaches its bound.
Finish ==
  /\ status = "running"
  /\ Len(served) = End - Start
  /\ status' = "done"
  /\ UNCHANGED served

\* An exception leaves the loop, or a signal ends the process.
Abort ==
  /\ status = "running"
  /\ status' \in {"failed", "killed"}
  /\ UNCHANGED served

Next == Serve \/ Finish \/ Abort

Spec == Init /\ [][Next]_svars

=============================================================================
