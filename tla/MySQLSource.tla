----------------------------- MODULE MySQLSource -----------------------------
(***************************************************************************)
(* The MySQL data source of cdc-trigger (source/mysql.go), the canal       *)
(* library it drives and the position it keeps in the store.               *)
(*                                                                         *)
(* Two goroutines live here.  The one that called Run loads the position,  *)
(* starts canal and waits for either the context or canal to end; then it  *)
(* runs stop().  The canal goroutine reads the binlog and calls the two    *)
(* handlers: OnRow puts every row of a rows event into eventDataChan, and  *)
(* OnPosSynced stores the position of a transaction that is over.          *)
(*                                                                         *)
(* The binlog is a line of positions 1, 2, 3, ...  A position is either a  *)
(* row or the end of a transaction (an XID, a DDL statement, a rotation).  *)
(* A position names the event found there, so an event is its position.    *)
(***************************************************************************)
EXTENDS Naturals, Sequences, FiniteSets

CONSTANTS
  Cap,      \* capacity of eventDataChan (10240 in NewMySQLSource)
  MaxPos,   \* bound: the master writes no position beyond this one
  MaxRows,  \* bound: rows of one transaction
  Env       \* what the environment may do in this model, see EnvEvents

EnvEvents ==
  { "signal",  \* SIGINT or SIGTERM cancels the context
    "crash",   \* the process is killed
    "get",     \* reading the stored position fails
    "set",     \* writing the position fails
    "master",  \* asking MySQL for its current position fails
    "binlog",  \* canal ends with an error of its own
    "send",    \* the middleware refuses an event or its answer is lost
    "marshal"  \* an event has no JSON form
  }

ASSUME SourceAssumption ==
  /\ Cap \in Nat \ {0}
  /\ MaxPos \in Nat \ {0}
  /\ MaxRows \in Nat
  /\ Env \subseteq EnvEvents

VARIABLES
  written,        \* end of the binlog of the master
  commits,        \* positions that end a transaction
  saved,          \* position in the store, 0 when there is none
  runPc,          \* where Run is
  runErr,         \* whether Run returns an error
  closePos,       \* position canal.Close is about to have saved
  canalPc,        \* where the canal goroutine is
  canalErr,       \* whether canal returned an error
  canalCancelled, \* canal.Close was called
  masterPos,      \* position canal synced last, 0 before it began
  at,             \* position canal handled last
  last,           \* last row of the rows event OnRow is working on
  start,          \* position this run was started from
  getFailed,      \* reading the stored position failed when it was
  eventDataChan,  \* events read and not yet received
  chanClosed,     \* stop() closed the channel
  mu,             \* who holds the mutex of the source
  ctxDone         \* the context Run was called with is canceled

binlogVars == <<written, commits>>
startVars  == <<start, getFailed>>
runVars    == <<runPc, runErr, closePos, mu>>
canalVars  == <<canalPc, canalErr, masterPos, at, last>>
sourceVars == <<written, commits, saved, runPc, runErr, closePos, canalPc,
                canalErr, canalCancelled, masterPos, at, last, start,
                getFailed, eventDataChan, chanClosed, mu>>

Positions == 0 .. MaxPos

\* The positions that carry a row a consumer has to be told about.
Rows == (1 .. written) \ commits

\* The positions a run can be started from: what lies at or below them is whole
\* transactions.
Boundaries == commits \cup {0}

-----------------------------------------------------------------------------
(* The master, outside src/: it writes a transaction at once, rows first.  *)

\* The binlog is not empty: position 0 is no position of it, it is the zero
\* position, which a run reads as none and the master as the beginning.
MasterInit == written = 1 /\ commits = {1}

MasterCommit(k) ==
  /\ written + k + 1 <= MaxPos
  /\ written' = written + k + 1
  /\ commits' = commits \cup {written + k + 1}

-----------------------------------------------------------------------------
(* A source as NewMySQLSource leaves it.                                   *)

SourceIdle ==
  /\ runPc = "idle"
  /\ runErr = FALSE
  /\ closePos = 0
  /\ canalPc = "off"
  /\ canalErr = FALSE
  /\ canalCancelled = FALSE
  /\ masterPos = 0
  /\ at = 0
  /\ last = 0
  /\ start = 0
  /\ getFailed = FALSE
  /\ eventDataChan = << >>
  /\ chanClosed = FALSE
  /\ mu = "free"

\* The process is gone, and with it the source: the next one has a new source.
SourceDiscarded ==
  /\ runPc' = "idle"
  /\ runErr' = FALSE
  /\ closePos' = 0
  /\ canalPc' = "off"
  /\ canalErr' = FALSE
  /\ canalCancelled' = FALSE
  /\ masterPos' = 0
  /\ at' = 0
  /\ last' = 0
  /\ start' = 0
  /\ getFailed' = FALSE
  /\ eventDataChan' = << >>
  /\ chanClosed' = FALSE
  /\ mu' = "free"

\* Mutant of LoadPosition: a stored position is used only when the master does
\* not say where it is.
LoadPositionAsksMasterFirst(failed) ==
  {written} \cup (IF "master" \in Env THEN {IF failed THEN 0 ELSE saved} ELSE {})

\* loadPosition, whose reading of the store fails or not: the stored position
\* when it can be read and is not zero, the current position of the master
\* otherwise, the zero position when even that cannot be had.  Nothing is stored
\* for the position it settles on.
LoadPosition(failed) ==
  IF saved # 0 /\ ~failed
  THEN {saved}
  ELSE {written} \cup (IF "master" \in Env THEN {0} ELSE {})

\* Run up to its select: load the position and start the goroutine of canal.
\* That goroutine has done nothing yet, and canal does not know the position.
Run ==
  /\ runPc = "idle"
  /\ \E failed \in BOOLEAN :
       /\ failed => "get" \in Env
       /\ getFailed' = failed
       /\ \E p \in LoadPosition(failed) : start' = p /\ at' = p /\ last' = p
  /\ runPc' = "select"
  /\ canalPc' = "starting"
  /\ UNCHANGED <<written, commits, saved, runErr, closePos, canalErr,
                 canalCancelled, masterPos, eventDataChan, chanClosed, mu>>

-----------------------------------------------------------------------------
(* The canal goroutine.                                                    *)

\* The goroutine gets to run: RunFrom notes the position it is given as the one
\* synced last.  A canal that was closed by then ends there, with an error.
CanalStarts ==
  /\ canalPc = "starting"
  /\ masterPos' = start
  /\ canalPc' = IF canalCancelled THEN "exited" ELSE "read"
  /\ canalErr' = canalCancelled
  /\ UNCHANGED <<written, commits, saved, runVars, canalCancelled, at, last,
                 startVars, eventDataChan, chanClosed>>

\* The library hands over the next rows event, which holds one row or more of
\* the same transaction.  An event that was already received from the master
\* may still be handed over after the cancellation.
CanalRowsEvent ==
  /\ canalPc = "read"
  /\ \E q \in (at + 1) .. written :
       /\ ((at + 1) .. q) \cap commits = {}
       /\ last' = q
  /\ canalPc' = "send"
  /\ UNCHANGED <<written, commits, saved, runVars, canalErr, canalCancelled,
                 masterPos, at, startVars, eventDataChan, chanClosed>>

\* Mutant of OnRowSend: a full channel makes it discard the row.
OnRowDiscards ==
  /\ canalPc = "send"
  /\ ~chanClosed
  /\ eventDataChan' = IF Len(eventDataChan) < Cap
                      THEN Append(eventDataChan, at + 1) ELSE eventDataChan
  /\ at' = at + 1
  /\ canalPc' = IF at + 1 = last THEN "read" ELSE "send"
  /\ UNCHANGED <<written, commits, saved, runVars, canalErr, canalCancelled,
                 masterPos, last, startVars, chanClosed>>

\* Mutant of OnRowSend: a channel without end.
OnRowNeverBlocks ==
  /\ canalPc = "send"
  /\ ~chanClosed
  /\ eventDataChan' = Append(eventDataChan, at + 1)
  /\ at' = at + 1
  /\ canalPc' = IF at + 1 = last THEN "read" ELSE "send"
  /\ UNCHANGED <<written, commits, saved, runVars, canalErr, canalCancelled,
                 masterPos, last, startVars, chanClosed>>

\* Mutant of OnRowSend: the position of every row is stored.
OnRowSavesPosition ==
  /\ canalPc = "send"
  /\ ~chanClosed
  /\ Len(eventDataChan) < Cap
  /\ eventDataChan' = Append(eventDataChan, at + 1)
  /\ at' = at + 1
  /\ saved' = at + 1
  /\ canalPc' = IF at + 1 = last THEN "read" ELSE "send"
  /\ UNCHANGED <<written, commits, runVars, canalErr, canalCancelled,
                 masterPos, last, startVars, chanClosed>>

\* One turn of the loop of OnRow: the select sends the row.
OnRowSend ==
  /\ canalPc = "send"
  /\ ~chanClosed
  /\ Len(eventDataChan) < Cap
  /\ eventDataChan' = Append(eventDataChan, at + 1)
  /\ at' = at + 1
  /\ canalPc' = IF at + 1 = last THEN "read" ELSE "send"
  /\ UNCHANGED <<written, commits, saved, runVars, canalErr, canalCancelled,
                 masterPos, last, startVars, chanClosed>>

\* The select of OnRow finds its channel closed.  Choosing that case panics,
\* whether or not the context is done as well.
OnRowPanics == canalPc = "send" /\ chanClosed

\* The select of OnRow takes the cancellation: OnRow reports the error of the
\* context and canal ends.  Whether canal reports that error or takes it for a
\* normal end is the library's choice, so both are kept.
OnRowCancelled ==
  /\ canalPc = "send"
  /\ ctxDone
  /\ canalPc' = "exited"
  /\ canalErr' \in BOOLEAN
  /\ UNCHANGED <<written, commits, saved, runVars, canalCancelled, masterPos,
                 at, last, startVars, eventDataChan, chanClosed>>

\* The library meets the end of a transaction: it moves its own position there
\* and calls OnPosSynced.
CanalTransactionEnd ==
  /\ canalPc = "read"
  /\ at + 1 \in commits
  /\ at' = at + 1
  /\ last' = at + 1
  /\ masterPos' = at + 1
  /\ canalPc' = "sync"
  /\ UNCHANGED <<written, commits, saved, runVars, canalErr, canalCancelled,
                 startVars, eventDataChan, chanClosed>>

\* savePosition(p): the store takes the position.
SavePosition(p) == saved' = p

\* savePosition(p) reports an error.  A store behind a network may have taken
\* the position all the same.
SavePositionFails(p) ==
  /\ "set" \in Env
  /\ saved' \in {saved, p}

OnPosSynced ==
  /\ canalPc = "sync"
  /\ \/ /\ SavePosition(at)
        /\ canalPc' = "read"
        /\ canalErr' = canalErr
     \/ /\ SavePositionFails(at)
        /\ canalPc' = "exited"
        /\ canalErr' = TRUE
  /\ UNCHANGED <<written, commits, runVars, canalCancelled, masterPos, at,
                 last, startVars, eventDataChan, chanClosed>>

\* The library returns from RunFrom: without an error once it was closed, with
\* one when reading the binlog failed.
CanalReturns ==
  /\ canalPc = "read"
  /\ \/ canalCancelled /\ canalErr' = FALSE
     \/ "binlog" \in Env /\ canalErr' = TRUE
  /\ canalPc' = "exited"
  /\ UNCHANGED <<written, commits, saved, runVars, canalCancelled, masterPos,
                 at, last, startVars, eventDataChan, chanClosed>>

CanalStep ==
  \/ CanalStarts
  \/ CanalRowsEvent
  \/ OnRowSend
  \/ OnRowCancelled
  \/ CanalTransactionEnd
  \/ OnPosSynced
  \/ CanalReturns

-----------------------------------------------------------------------------
(* The goroutine of Run, from its select on.                               *)

\* The select of Run takes the context or the end of canal; stop() locks the
\* mutex and calls canal.Close, which cancels canal.
RunStops ==
  /\ runPc = "select"
  /\ mu = "free"
  /\ \/ ctxDone /\ runErr' = TRUE
     \/ canalPc = "exited" /\ runErr' = canalErr
  /\ mu' = "stop"
  /\ canalCancelled' = TRUE
  /\ runPc' = "cancelled"
  /\ UNCHANGED <<written, commits, saved, closePos, canalVars, startVars,
                 eventDataChan, chanClosed>>

\* canal.Close reads the position canal synced last, which is the zero position
\* when the goroutine of canal has not run yet ...
CloseReadsPosition ==
  /\ runPc = "cancelled"
  /\ closePos' = masterPos
  /\ runPc' = "closing"
  /\ UNCHANGED <<written, commits, saved, runErr, canalVars, canalCancelled,
                 startVars, eventDataChan, chanClosed, mu>>

\* Mutant of CloseSavesPosition: savePosition takes the lock that stop() holds
\* (the comment at mysql.go:400-402 says why it must not).
CloseSavesUnderLock ==
  /\ runPc = "closing"
  /\ mu = "free"
  /\ SavePosition(closePos) \/ SavePositionFails(closePos)
  /\ runPc' = "closed"
  /\ UNCHANGED <<written, commits, runErr, closePos, canalVars,
                 canalCancelled, startVars, eventDataChan, chanClosed, mu>>

\* ... and has it saved by OnPosSynced, on this goroutine and under the mutex
\* stop() holds.  What OnPosSynced reports is ignored.
CloseSavesPosition ==
  /\ runPc = "closing"
  /\ SavePosition(closePos) \/ SavePositionFails(closePos)
  /\ runPc' = "closed"
  /\ UNCHANGED <<written, commits, runErr, closePos, canalVars,
                 canalCancelled, startVars, eventDataChan, chanClosed, mu>>

\* The rest of stop() closes the channel, and Run returns.  Nothing waits for
\* the canal goroutine.
RunReturns ==
  /\ runPc = "closed"
  /\ chanClosed' = TRUE
  /\ mu' = "free"
  /\ runPc' = "returned"
  /\ UNCHANGED <<written, commits, saved, runErr, closePos, canalVars,
                 canalCancelled, startVars, eventDataChan>>

RunStep ==
  \/ Run
  \/ RunStops
  \/ CloseReadsPosition
  \/ CloseSavesPosition
  \/ RunReturns

-----------------------------------------------------------------------------

SourceTypeOK ==
  /\ written \in Positions
  /\ commits \subseteq 1 .. written
  /\ saved \in Positions
  /\ runPc \in {"idle", "select", "cancelled", "closing", "closed", "returned"}
  /\ runErr \in BOOLEAN
  /\ closePos \in Positions
  /\ canalPc \in {"off", "starting", "read", "send", "sync", "exited"}
  /\ canalErr \in BOOLEAN
  /\ canalCancelled \in BOOLEAN
  /\ masterPos \in Positions
  /\ at \in Positions
  /\ last \in Positions
  /\ start \in Positions
  /\ getFailed \in BOOLEAN
  /\ eventDataChan \in Seq(1 .. MaxPos)
  /\ Len(eventDataChan) <= Cap
  /\ chanClosed \in BOOLEAN
  /\ mu \in {"free", "stop"}
  /\ ctxDone \in BOOLEAN

=============================================================================
