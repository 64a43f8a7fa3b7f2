-------------------------------- MODULE Relay ---------------------------------
(***************************************************************************)
(* What cdc-trigger promises of its stream, without goroutines, channels   *)
(* or locks: rows are handed to the middleware one by one in the order of  *)
(* the binlog, the checkpoint stays within Cap rows of what was handed     *)
(* over, and a run begins at the checkpoint whenever there is one that can *)
(* be read.  It does not promise that every row arrives, nor that the      *)
(* checkpoint survives a run that is ended before it handed over a row.    *)
(***************************************************************************)
EXTENDS Naturals, FiniteSets

CONSTANTS
  Cap,         \* rows the checkpoint may be ahead
  MaxPos,      \* bound: positions of the binlog
  MaxRows      \* bound: rows of a transaction

VARIABLES
  written,    \* end of the binlog
  commits,    \* positions that end a transaction
  saved,      \* the checkpoint
  active,     \* a run is on
  unreadable, \* the checkpoint could not be read when it began
  start,      \* where it began
  cursor,     \* the row handed over last
  delivered,  \* rows that reached the middleware
  gaveUp      \* rows the relay gave up on

runVars == <<active, unreadable, start>>
abstractVars == <<written, commits, saved, runVars, cursor, delivered, gaveUp>>

RowsIn(lo, hi) == {p \in (1 .. written) \ commits : lo < p /\ p <= hi}

Boundary == commits \cup {0}

Init ==
  /\ written = 1
  /\ commits = {1}
  /\ saved = 0
  /\ active = FALSE
  /\ unreadable = FALSE
  /\ start = 0
  /\ cursor = 0
  /\ delivered = {}
  /\ gaveUp = {}

Commit ==
  /\ \E k \in 0 .. MaxRows :
       /\ written + k + 1 <= MaxPos
       /\ written' = written + k + 1
       /\ commits' = commits \cup {written + k + 1}
  /\ UNCHANGED <<saved, runVars, cursor, delivered, gaveUp>>

\* A run begins at the checkpoint.  Only when there is none, or none that can be
\* read, does it begin at the end of the binlog, as it is then, or at its
\* beginning.
Begin ==
  /\ ~active
  /\ active' = TRUE
  /\ unreadable' \in BOOLEAN
  /\ start' \in IF saved = 0 \/ unreadable' THEN {0, written} ELSE {saved}
  /\ cursor' = start'
  /\ UNCHANGED <<written, commits, saved, delivered, gaveUp>>

\* The next row is handed over once the one before it is through with.
Take ==
  /\ active
  /\ cursor \in delivered \cup gaveUp \cup {start}
  /\ RowsIn(cursor, written) # {}
  /\ cursor' \in RowsIn(cursor, written)
  /\ RowsIn(cursor, cursor' - 1) = {}
  /\ UNCHANGED <<written, commits, saved, runVars, delivered, gaveUp>>

\* The row in hand arrives, is given up, or both.
Settle ==
  /\ active
  /\ cursor > start
  /\ \/ delivered' = delivered \cup {cursor} /\ gaveUp' = gaveUp
     \/ delivered' = delivered /\ gaveUp' = gaveUp \cup {cursor}
     \/ delivered' = delivered \cup {cursor} /\ gaveUp' = gaveUp \cup {cursor}
  /\ UNCHANGED <<written, commits, saved, runVars, cursor>>

\* The checkpoint moves, back or forth, to the end of a transaction this run
\* has seen.  At most Cap rows below it are still to be handed over.
Checkpoint ==
  /\ active
  /\ \E p \in Boundary :
       /\ start <= p
       /\ Cardinality(RowsIn(cursor, p)) <= Cap
       /\ saved' = p
  /\ UNCHANGED <<written, commits, runVars, cursor, delivered, gaveUp>>

\* A run that is ended before it handed over a row may forget the checkpoint.
Forget ==
  /\ active
  /\ cursor = start
  /\ saved' = 0
  /\ UNCHANGED <<written, commits, runVars, cursor, delivered, gaveUp>>

End ==
  /\ active
  /\ active' = FALSE
  /\ unreadable' = FALSE
  /\ start' = 0
  /\ cursor' = 0
  /\ UNCHANGED <<written, commits, saved, delivered, gaveUp>>

Next == Commit \/ Begin \/ Take \/ Settle \/ Checkpoint \/ Forget \/ End

Spec == Init /\ [][Next]_abstractVars

=============================================================================
