--------------------------- MODULE DownloadFile ---------------------------
(***************************************************************************)
(* download::download_file: the main thread prepares the output file,      *)
(* starts one worker thread per peer, each with a contiguous range of      *)
(* pieces, joins them, closes the file and rethrows the first error a      *)
(* worker recorded.                                                        *)
(*                                                                         *)
(* What a worker gets from its connection is PieceService, which           *)
(* PieceTransfer implements: its next piece, an exception, or a signal     *)
(* that ends the process.                                                  *)
(***************************************************************************)
EXTENDS PieceLayout

CONSTANTS
  PeerCounts,      \* the numbers of peers a call may be given
  HashCounts,      \* the numbers of piece hashes the metainfo may hold
  Faults           \* subset of AllFaults: what may go wrong in an instance

AllFaults == {"open", "ftruncate", "thread", "connect", "piece", "signal", "pwrite"}

ASSUME DownloadAssumption ==
  /\ PeerCounts \subseteq Nat /\ HashCounts \subseteq Nat
  /\ Faults \subseteq AllFaults

None == "none"
NoWorker == -1

VARIABLES
  numPeers,      \* peers.size()
  numHashes,     \* metainfo.piece_hashes_.size()
  mainPc,        \* "start", "opened", "spawn", "join", "close", "report", "unwind", "end"
  spawned,       \* workers.size()
  wpc,           \* "idle", "connect", "get", "write", "lock", "check",
                 \* "store", "unlock" or "ended", for every worker
  next,          \* pi, for every worker
  thrown,        \* the exception a worker is handling
  holder,        \* the worker that holds error_mutex
  firstError,    \* first_error
  errorState,    \* "alive", or "dead" once first_error and error_mutex are destroyed
  fd,            \* file_fd: "none", "open" or "closed"
  file,          \* the first Length bytes of the output file, << >> before ftruncate
  outcome,       \* "none", then "ok", "error" or "killed"
  reported       \* the exception that leaves download_file

arguments  == <<numPeers, numHashes>>
mainVars   == <<mainPc, spawned, outcome, reported>>
workerVars == <<wpc, next, thrown>>
errorVars  == <<holder, firstError, errorState>>
fileVars   == <<fd, file>>
vars       == <<arguments, mainVars, workerVars, errorVars, fileVars>>

NumWorkers == IF numPeers < numHashes THEN numPeers ELSE numHashes

Workers == 0 .. NumWorkers - 1

Start(w) == RangeStart(numHashes, NumWorkers, w)
End(w)   == RangeEnd(numHashes, NumWorkers, w)

Init ==
  /\ numPeers \in PeerCounts /\ numHashes \in HashCounts
  /\ mainPc = "start" /\ spawned = 0 /\ outcome = "none" /\ reported = None
  /\ wpc = [w \in Workers |-> "idle"]
  /\ next = [w \in Workers |-> 0]
  /\ thrown = [w \in Workers |-> None]
  /\ holder = NoWorker /\ firstError = None /\ errorState = "alive"
  /\ fd = "none" /\ file = << >>

----------------------------------------------------------------------------
(* The main thread *)

\* The call ends with exception e.
Raise(e) ==
  /\ mainPc' = "end"
  /\ outcome' = "error"
  /\ reported' = e

\* A signal or std::terminate: every thread stops where it is.
Die == outcome' = "killed"

RejectEmptyPeerList ==
  /\ mainPc = "start" /\ numPeers = 0
  /\ Raise("no peers")
  /\ UNCHANGED <<spawned, workerVars, errorVars, fileVars>>

OpenFile ==
  /\ mainPc = "start" /\ numPeers > 0
  /\ \/ /\ mainPc' = "opened" /\ fd' = "open"
        /\ UNCHANGED <<outcome, reported>>
     \/ /\ "open" \in Faults
        /\ Raise("open")
        /\ UNCHANGED fd
  /\ UNCHANGED <<spawned, workerVars, errorVars, file>>

Preallocate ==
  /\ mainPc = "opened"
  /\ \/ /\ mainPc' = "spawn"
        /\ file' = [b \in 0 .. Length - 1 |-> Zero]
        /\ UNCHANGED <<fd, outcome, reported>>
     \/ /\ "ftruncate" \in Faults
        /\ fd' = "closed"
        /\ Raise("ftruncate")
        /\ UNCHANGED file
  /\ UNCHANGED <<spawned, workerVars, errorVars>>

\* num_pieces / num_workers with no pieces: the division traps, or yields a
\* value nothing uses, since the loop that follows starts no worker.
DivideByZero ==
  /\ mainPc = "spawn" /\ NumWorkers = 0
  /\ Die
  /\ UNCHANGED <<mainPc, spawned, reported, workerVars, errorVars, fileVars>>

SpawnWorker ==
  /\ mainPc = "spawn" /\ spawned < NumWorkers
  /\ spawned' = spawned + 1
  /\ wpc' = [wpc EXCEPT ![spawned] = "connect"]
  /\ next' = [next EXCEPT ![spawned] = Start(spawned)]
  /\ UNCHANGED <<mainPc, outcome, reported, thrown, errorVars, fileVars>>

\* std::jthread throws when no thread can be started.  Unwinding destroys
\* error_mutex and first_error, declared after workers, before it joins the
\* workers that already run; file_fd is not closed.
SpawnFails ==
  /\ mainPc = "spawn" /\ spawned < NumWorkers
  /\ "thread" \in Faults
  /\ mainPc' = "unwind"
  /\ errorState' = "dead"
  /\ reported' = "thread"
  /\ UNCHANGED <<spawned, outcome, workerVars, holder, firstError, fileVars>>

AllSpawned ==
  /\ mainPc = "spawn" /\ spawned = NumWorkers
  /\ mainPc' = "join"
  /\ UNCHANGED <<spawned, outcome, reported, workerVars, errorVars, fileVars>>

\* Fault: only the first worker is waited for.
JoinedFirst == spawned > 0 => wpc[0] = "ended"

Joined == \A w \in Workers : w < spawned => wpc[w] = "ended"

JoinAll ==
  /\ mainPc = "join" /\ Joined
  /\ mainPc' = "close"
  /\ UNCHANGED <<spawned, outcome, reported, workerVars, errorVars, fileVars>>

CloseFile ==
  /\ mainPc = "close"
  /\ fd' = "closed"
  /\ mainPc' = "report"
  /\ UNCHANGED <<spawned, outcome, reported, workerVars, errorVars, file>>

Report ==
  /\ mainPc = "report"
  /\ \/ /\ firstError # None
        /\ Raise(firstError)
     \/ /\ firstError = None
        /\ mainPc' = "end" /\ outcome' = "ok"
        /\ UNCHANGED reported
  /\ UNCHANGED <<spawned, workerVars, errorVars, fileVars>>

\* The destructor of workers joins; then the exception leaves the call.
Unwind ==
  /\ mainPc = "unwind" /\ Joined
  /\ Raise(reported)
  /\ UNCHANGED <<spawned, workerVars, errorVars, fileVars>>

Main ==
  \/ RejectEmptyPeerList \/ OpenFile \/ Preallocate \/ DivideByZero
  \/ SpawnWorker \/ SpawnFails \/ AllSpawned
  \/ JoinAll \/ CloseFile \/ Report \/ Unwind

----------------------------------------------------------------------------
(* The workers *)

Goto(w, l) == wpc' = [wpc EXCEPT ![w] = l]

\* Fault: the exception is not kept.
CatchNothing(w, e) ==
  /\ Goto(w, "lock")
  /\ thrown' = [thrown EXCEPT ![w] = None]

\* The catch block is entered with exception e.
Catch(w, e) ==
  /\ Goto(w, "lock")
  /\ thrown' = [thrown EXCEPT ![w] = e]

Connect(w) ==
  /\ wpc[w] = "connect"
  /\ \/ /\ Goto(w, "get")
        /\ UNCHANGED thrown
     \/ /\ "connect" \in Faults
        /\ Catch(w, "connect")
  /\ UNCHANGED <<mainVars, next, errorVars, fileVars>>

\* PieceService!Serve.  A hash that has no piece in the file may be served too,
\* if a peer has bytes that match it.
GetPiece(w) ==
  /\ wpc[w] = "get" /\ next[w] < End(w)
  /\ Goto(w, "write")
  /\ UNCHANGED <<mainVars, next, thrown, errorVars, fileVars>>

\* PieceService!Finish.
RangeDone(w) ==
  /\ wpc[w] = "get" /\ next[w] >= End(w)
  /\ Goto(w, "ended")
  /\ UNCHANGED <<mainVars, next, thrown, errorVars, fileVars>>

\* PieceService!Abort, by an exception and by a signal.
PieceFails(w) ==
  /\ wpc[w] = "get" /\ next[w] < End(w)
  /\ "piece" \in Faults \/ next[w] \notin Pieces
  /\ Catch(w, "piece")
  /\ UNCHANGED <<mainVars, next, errorVars, fileVars>>

PieceKills(w) ==
  /\ wpc[w] = "get" /\ next[w] < End(w)
  /\ "signal" \in Faults
  /\ Die
  /\ UNCHANGED <<mainPc, spawned, reported, workerVars, errorVars, fileVars>>

\* The file after the first n bytes of piece p were written at its offset.
WriteAt(f, p, n) ==
  [b \in DOMAIN f |->
     IF b - PieceOffset(p) \in 0 .. n - 1 THEN Content(p)[b - PieceOffset(p)] ELSE f[b]]

\* Fault: the loop variable is not incremented.
AdvanceNever(w) == next' = next

\* ++pi
Advance(w) == next' = [next EXCEPT ![w] = @ + 1]

\* ::pwrite of one piece; a short or failed write is an error.
WritePiece(w) ==
  /\ wpc[w] = "write" /\ next[w] \in Pieces
  /\ \/ /\ file' = WriteAt(file, next[w], ActualPieceLen(next[w]))
        /\ Advance(w)
        /\ Goto(w, "get")
        /\ UNCHANGED thrown
     \/ /\ "pwrite" \in Faults
        /\ \E n \in 0 .. ActualPieceLen(next[w]) - 1 :
             file' = WriteAt(file, next[w], n)
        /\ Catch(w, "pwrite")
        /\ UNCHANGED next
  /\ UNCHANGED <<mainVars, errorVars, fd>>

\* What belongs to a hash too many is written at its own offset, which lies
\* behind the last byte of the file.
WriteBeyond(w) ==
  /\ wpc[w] = "write" /\ next[w] \notin Pieces
  /\ \/ Advance(w) /\ Goto(w, "get") /\ UNCHANGED thrown
     \/ "pwrite" \in Faults /\ Catch(w, "pwrite") /\ UNCHANGED next
  /\ UNCHANGED <<mainVars, errorVars, fileVars>>

\* Fault: the mutex is not taken.
LockErrorNever(w) ==
  /\ wpc[w] = "lock"
  /\ Goto(w, "check")
  /\ UNCHANGED <<mainVars, next, thrown, errorVars, fileVars>>

\* std::lock_guard lock(error_mutex).
LockError(w) ==
  /\ wpc[w] = "lock" /\ holder = NoWorker
  /\ holder' = w
  /\ Goto(w, "check")
  /\ UNCHANGED <<mainVars, next, thrown, firstError, errorState, fileVars>>

\* Locking the mutex after its destruction: undefined, so it may also throw
\* in the catch block, which terminates the process.
LockDestroyed(w) ==
  /\ wpc[w] = "lock" /\ errorState = "dead"
  /\ Die
  /\ UNCHANGED <<mainPc, spawned, reported, workerVars, errorVars, fileVars>>

\* Fault: the test is inverted.
CheckErrorInverted(w) ==
  /\ wpc[w] = "check"
  /\ Goto(w, IF firstError # None THEN "store" ELSE "unlock")
  /\ UNCHANGED <<mainVars, next, thrown, errorVars, fileVars>>

\* if (!first_error)
CheckError(w) ==
  /\ wpc[w] = "check"
  /\ Goto(w, IF firstError = None THEN "store" ELSE "unlock")
  /\ UNCHANGED <<mainVars, next, thrown, errorVars, fileVars>>

StoreError(w) ==
  /\ wpc[w] = "store"
  /\ firstError' = thrown[w]
  /\ Goto(w, "unlock")
  /\ UNCHANGED <<mainVars, next, thrown, holder, errorState, fileVars>>

UnlockError(w) ==
  /\ wpc[w] = "unlock"
  /\ holder' = NoWorker
  /\ Goto(w, "ended")
  /\ UNCHANGED <<mainVars, next, thrown, firstError, errorState, fileVars>>

Worker(w) ==
  \/ Connect(w) \/ GetPiece(w) \/ RangeDone(w) \/ PieceFails(w) \/ PieceKills(w)
  \/ WritePiece(w) \/ WriteBeyond(w)
  \/ LockError(w) \/ LockDestroyed(w) \/ CheckError(w) \/ StoreError(w) \/ UnlockError(w)

----------------------------------------------------------------------------

\* A dead process takes no step; a returned call none either.
Stopped == outcome # "none" /\ UNCHANGED vars

Next ==
  \/ /\ outcome = "none"
     /\ Main \/ \E w \in Workers : Worker(w)
     /\ UNCHANGED arguments
  \/ Stopped

Spec == Init /\ [][Next]_vars

WorkerIds == UNION {0 .. n - 1 : n \in PeerCounts}

\* Every thread keeps running, and every blocking call on a connection ends:
\* PieceTransfer!Completes, for a peer that keeps answering.
Fairness ==
  /\ WF_vars(outcome = "none" /\ Main /\ UNCHANGED arguments)
  /\ \A w \in WorkerIds :
       WF_vars(outcome = "none" /\ w \in Workers /\ Worker(w) /\ UNCHANGED arguments)

LiveSpec == Spec /\ Fairness

----------------------------------------------------------------------------
(* Properties *)

MainLabels   == {"start", "opened", "spawn", "join", "close", "report", "unwind", "end"}
WorkerLabels == {"idle", "connect", "get", "write", "lock", "check", "store", "unlock", "ended"}
WorkerErrors == {"connect", "piece", "pwrite"}
MainErrors   == {"no peers", "open", "ftruncate", "thread"}

\* The bytes a position of the file may hold: none yet, or a byte of the torrent.
FileBytes == {Zero} \cup 0 .. Length - 1

Whole == [b \in 0 .. Length - 1 |-> b]

\* Every variable keeps to its set, and the file exists once workers may run.
TypeOK ==
  /\ numPeers \in Nat /\ numHashes \in Nat
  /\ mainPc \in MainLabels
  /\ spawned \in 0 .. NumWorkers
  /\ wpc \in [Workers -> WorkerLabels]
  /\ next \in [Workers -> Nat]
  /\ thrown \in [Workers -> WorkerErrors \cup {None}]
  /\ \A w \in Workers :
       /\ wpc[w] \in {"lock", "check", "store", "unlock"} => thrown[w] # None
       /\ wpc[w] # "idle" => file # << >>
  /\ holder \in Workers \cup {NoWorker}
  /\ firstError \in WorkerErrors \cup {None}
  /\ errorState \in {"alive", "dead"}
  /\ fd \in {"none", "open", "closed"}
  /\ file = << >> \/ file \in [0 .. Length - 1 -> FileBytes]
  /\ outcome \in {"none", "ok", "error", "killed"}
  /\ reported \in WorkerErrors \cup MainErrors \cup {None}

\* A call that returns normally leaves the whole file, every byte at its
\* place, given a hash for every piece, however its workers interleaved; with
\* more hashes than pieces, something may follow it.
CompleteOnSuccess ==
  outcome = "ok" /\ numHashes >= NumPieces => file = Whole

\* The outcome is that of the workers: success means that none of them threw,
\* and an error that did not come from the main thread was thrown by one.
OutcomeIsTheWorkers ==
  /\ outcome = "ok" => \A w \in Workers : thrown[w] = None
  /\ reported \in WorkerErrors => \E w \in Workers : thrown[w] = reported

\* The first exception recorded is the one reported: concurrent failures do
\* not replace it (the check and the store are under error_mutex).
FirstErrorStable ==
  [][errorState = "alive" /\ firstError # None => firstError' = firstError]_vars

\* The file changes only while its descriptor is open.
NoWriteAfterClose ==
  [][file' # file => fd = "open"]_vars

\* No worker outlives the call: they use its arguments by reference.
JoinBeforeReturn ==
  mainPc = "end" => \A w \in Workers : wpc[w] \in {"idle", "ended"}

\* No two workers ever write the same piece.
DisjointWriters ==
  \A v, w \in Workers :
    v # w /\ wpc[v] = "write" /\ wpc[w] = "write" => next[v] # next[w]

\* A worker that fails does not stop the others, and main always gets through
\* its joins: the call ends.
Returns == <>(outcome # "none")

Delivery == INSTANCE FileDelivery

\* The download is an implementation of what its caller relies on.
ImplementsDelivery == Delivery!Spec

(* What the repository's documentation says *)

\* README: "Download the complete file".  Nothing relates the number of
\* hashes to the length of the file.
SuccessIsComplete == outcome = "ok" => file = Whole

=============================================================================
