-------------------------------- MODULE Listen --------------------------------
(***************************************************************************)
(* The cdc-trigger process (cmd/clisten.go): the MySQL source, the one     *)
(* consumer goroutine that takes its events to the middleware, and the     *)
(* main goroutine that waits for the source and closes the components.     *)
(*                                                                         *)
(* A session is one life of the process.  It ends when Listen returns, and *)
(* also when the process is killed or panics; the next session starts with *)
(* what the store kept.                                                    *)
(***************************************************************************)
EXTENDS MySQLSource

CONSTANTS
  MaxRetries,  \* retries of SendWithRetry (Listen passes 3)
  MaxSessions  \* bound: lives of the process

ASSUME ListenAssumption ==
  /\ MaxRetries \in Nat
  /\ MaxSessions \in Nat \ {0}

VARIABLES
  up,         \* the process is running
  sessions,   \* lives of the process so far
  mainPc,     \* where the main goroutine is
  consPc,     \* where the consumer goroutine is
  ev,         \* event the consumer received last, 0 before the first
  tries,      \* the i of SendWithRetry
  delivered,  \* rows the middleware has
  gaveUp,     \* rows SendWithRetry returned an error for
  panicked,   \* a goroutine panicked
  origin,     \* history: position the first session started from
  read        \* history: rows a session put into its channel

consumerVars == <<consPc, ev, tries, delivered, gaveUp>>
historyVars  == <<panicked, origin, read>>
listenVars   == <<up, sessions, mainPc, consumerVars, historyVars>>
vars         == <<sourceVars, ctxDone, listenVars>>

Running == up /\ runPc # "idle"

\* How far the consumer has come in the binlog.
LastTaken == IF ev = 0 THEN start ELSE ev

Settled == delivered \cup gaveUp

Queued == {eventDataChan[i] : i \in 1 .. Len(eventDataChan)}

Init ==
  /\ MasterInit
  /\ saved = 0
  /\ SourceIdle
  /\ ctxDone = FALSE
  /\ up = TRUE
  /\ sessions = 1
  /\ mainPc = "wait"
  /\ consPc = "recv"
  /\ ev = 0
  /\ tries = 0
  /\ delivered = {}
  /\ gaveUp = {}
  /\ panicked = FALSE
  /\ origin = 0
  /\ read = {}

-----------------------------------------------------------------------------
(* The source inside the process.                                          *)

\* Transactions are committed whether or not the process is running.
Commit ==
  /\ \E k \in 0 .. MaxRows : MasterCommit(k)
  /\ UNCHANGED <<saved, runVars, canalVars, canalCancelled, startVars,
                 eventDataChan, chanClosed, ctxDone, listenVars>>

RunMoves ==
  /\ up
  /\ RunStep
  /\ origin' = IF sessions = 1 THEN start' ELSE origin
  /\ UNCHANGED <<ctxDone, up, sessions, mainPc, consumerVars, panicked, read>>

CanalMoves ==
  /\ up
  /\ CanalStep
  /\ read' = read \cup {eventDataChan'[i] : i \in 1 .. Len(eventDataChan')}
  /\ UNCHANGED <<ctxDone, up, sessions, mainPc, consumerVars, panicked, origin>>

-----------------------------------------------------------------------------
(* The consumer goroutine.                                                 *)

ConsumerReceive ==
  /\ up /\ consPc = "recv"
  /\ eventDataChan # << >>
  /\ ev' = Head(eventDataChan)
  /\ eventDataChan' = Tail(eventDataChan)
  /\ tries' = 0
  /\ consPc' = "send"
  /\ UNCHANGED <<binlogVars, saved, runVars, canalVars, canalCancelled, startVars,
                 chanClosed, ctxDone, up, sessions, mainPc, delivered, gaveUp,
                 historyVars>>

\* Mutant of ConsumerExits: an empty channel ends the loop.
ConsumerExitsWhenEmpty ==
  /\ up /\ consPc = "recv"
  /\ eventDataChan = << >>
  /\ consPc' = "exited"
  /\ UNCHANGED <<sourceVars, ctxDone, up, sessions, mainPc, ev, tries,
                 delivered, gaveUp, historyVars>>

\* The select finds the channel closed and empty, or the context canceled.  It
\* picks the context even when events are left in the channel.
ConsumerExits ==
  /\ up /\ consPc = "recv"
  /\ (chanClosed /\ eventDataChan = << >>) \/ ctxDone
  /\ consPc' = "exited"
  /\ UNCHANGED <<sourceVars, ctxDone, up, sessions, mainPc, ev, tries,
                 delivered, gaveUp, historyVars>>

\* The common part of the steps of SendWithRetry.
Sending(pc) ==
  /\ up /\ consPc = pc
  /\ UNCHANGED <<sourceVars, ctxDone, up, sessions, mainPc, ev, historyVars>>

SendOk ==
  /\ Sending("send")
  /\ delivered' = delivered \cup {ev}
  /\ consPc' = "recv"
  /\ UNCHANGED <<tries, gaveUp>>

\* Mutant of SendFails: one retry too many.
SendFailsOnceMore ==
  /\ Sending("send")
  /\ "send" \in Env \/ ctxDone
  /\ delivered' \in {delivered, delivered \cup {ev}}
  /\ \/ tries <= MaxRetries /\ consPc' = "backoff" /\ gaveUp' = gaveUp
     \/ tries > MaxRetries /\ consPc' = "recv" /\ gaveUp' = gaveUp \cup {ev}
  /\ UNCHANGED tries

\* Mutant of SendFails: the error of the last try is forgotten.
SendFailureForgotten ==
  /\ Sending("send")
  /\ "send" \in Env \/ ctxDone
  /\ delivered' \in {delivered, delivered \cup {ev}}
  /\ consPc' = IF tries < MaxRetries THEN "backoff" ELSE "recv"
  /\ UNCHANGED <<tries, gaveUp>>

\* producer.Send reports an error that may pass.  The answer may be what was
\* lost, so the event may be with the middleware all the same.  A canceled
\* context makes it fail as well.
SendFails ==
  /\ Sending("send")
  /\ "send" \in Env \/ ctxDone
  /\ delivered' \in {delivered, delivered \cup {ev}}
  /\ \/ tries < MaxRetries /\ consPc' = "backoff" /\ gaveUp' = gaveUp
     \/ tries = MaxRetries /\ consPc' = "recv" /\ gaveUp' = gaveUp \cup {ev}
  /\ UNCHANGED tries

\* An error isRetriable tells apart: the event has no JSON form.
SendNotRetriable ==
  /\ Sending("send")
  /\ "marshal" \in Env
  /\ gaveUp' = gaveUp \cup {ev}
  /\ consPc' = "recv"
  /\ UNCHANGED <<tries, delivered>>

BackoffElapsed ==
  /\ Sending("backoff")
  /\ tries' = tries + 1
  /\ consPc' = "send"
  /\ UNCHANGED <<delivered, gaveUp>>

BackoffCancelled ==
  /\ Sending("backoff")
  /\ ctxDone
  /\ gaveUp' = gaveUp \cup {ev}
  /\ consPc' = "recv"
  /\ UNCHANGED <<tries, delivered>>

ConsumerStep ==
  \/ ConsumerReceive
  \/ ConsumerExits
  \/ SendOk
  \/ SendFails
  \/ SendNotRetriable
  \/ BackoffElapsed
  \/ BackoffCancelled

-----------------------------------------------------------------------------
(* The main goroutine and the life of the process.                         *)

\* SIGINT or SIGTERM.
Signal ==
  /\ "signal" \in Env
  /\ up /\ ~ctxDone
  /\ ctxDone' = TRUE
  /\ UNCHANGED <<sourceVars, listenVars>>

\* sourceErrChan delivers what Run returned; an error cancels the context.
\* Either way main now waits for the consumer.
MainSourceReturned ==
  /\ up /\ mainPc = "wait"
  /\ runPc = "returned"
  /\ ctxDone' = (ctxDone \/ runErr)
  /\ mainPc' = "join"
  /\ UNCHANGED <<sourceVars, up, sessions, consumerVars, historyVars>>

\* Mutant of MainCloses: nobody waits for the consumer.
MainClosesAtOnce ==
  /\ up /\ mainPc = "join"
  /\ mu = "free"
  /\ mainPc' = "closed"
  /\ UNCHANGED <<sourceVars, ctxDone, up, sessions, consumerVars, historyVars>>

\* consumerWg.Wait returns and CloseSetupComponents runs.  source.Close calls
\* stop, which takes the mutex and finds the source not running any more.
MainCloses ==
  /\ up /\ mainPc = "join"
  /\ consPc = "exited"
  /\ mu = "free"
  /\ mainPc' = "closed"
  /\ UNCHANGED <<sourceVars, ctxDone, up, sessions, consumerVars, historyVars>>

\* Everything in memory is gone.
ProcessEnds ==
  /\ up' = FALSE
  /\ SourceDiscarded
  /\ ctxDone' = FALSE
  /\ mainPc' = "wait"
  /\ consPc' = "recv"
  /\ ev' = 0
  /\ tries' = 0
  /\ UNCHANGED <<binlogVars, saved, sessions, delivered, gaveUp, origin, read>>

Exit ==
  /\ up /\ mainPc = "closed"
  /\ ProcessEnds
  /\ UNCHANGED panicked

Crash ==
  /\ "crash" \in Env
  /\ up
  /\ ProcessEnds
  /\ UNCHANGED panicked

Panic ==
  /\ up /\ OnRowPanics
  /\ ProcessEnds
  /\ panicked' = TRUE

Restart ==
  /\ ~up
  /\ sessions < MaxSessions
  /\ up' = TRUE
  /\ sessions' = sessions + 1
  /\ UNCHANGED <<sourceVars, ctxDone, mainPc, consumerVars, historyVars>>

MainStep == MainSourceReturned \/ MainCloses \/ Exit

\* Nothing is left to do: the last session is over, or the source waits for a
\* transaction the bounded master does not write any more.
Resting ==
  /\ \/ ~up /\ sessions = MaxSessions
     \/ /\ runPc = "select" /\ canalPc = "read" /\ ~ctxDone /\ at = written
        /\ consPc = "recv" /\ eventDataChan = << >>
  /\ UNCHANGED vars

Next ==
  \/ Commit
  \/ RunMoves
  \/ CanalMoves
  \/ ConsumerStep
  \/ Signal
  \/ MainStep
  \/ Crash
  \/ Panic
  \/ Restart
  \/ Resting

Spec == Init /\ [][Next]_vars

\* Every goroutine that can go on does so; a Send returns at some time.  The
\* master, signals, crashes and restarts are under no obligation.
Fairness ==
  /\ WF_vars(RunMoves)
  /\ WF_vars(CanalMoves)
  /\ WF_vars(ConsumerStep)
  /\ WF_vars(MainStep)

FairSpec == Spec /\ Fairness

-----------------------------------------------------------------------------
(* Safety.                                                                 *)

\* Every variable keeps to its type.
TypeOK ==
  /\ SourceTypeOK
  /\ up \in BOOLEAN
  /\ sessions \in 1 .. MaxSessions
  /\ mainPc \in {"wait", "join", "closed"}
  /\ consPc \in {"recv", "send", "backoff", "exited"}
  /\ ev \in Positions
  /\ tries \in 0 .. MaxRetries
  /\ delivered \subseteq Positions
  /\ gaveUp \subseteq Positions
  /\ panicked \in BOOLEAN
  /\ origin \in Positions
  /\ read \subseteq Positions

\* The channel holds exactly the rows between the last one the consumer took
\* and the last one canal read, each once and in the order of the binlog: OnRow
\* and the single consumer neither lose, nor repeat, nor reorder an event.
ChannelIsTheGap ==
  /\ Queued = {p \in Rows : LastTaken < p /\ p <= at}
  /\ \A i, j \in 1 .. Len(eventDataChan) :
       i < j => eventDataChan[i] < eventDataChan[j]

\* A run starts, and the store is left, at the end of a transaction: no restart
\* begins in the middle of one, whatever Close and OnPosSynced do to the
\* position at the same time.
CheckpointAtBoundary == {saved, start, masterPos, closePos} \subseteq Boundaries

\* The producer is closed when no Send is in flight and none can follow, and
\* the channel was closed by then (the comment at clisten.go:86-88).
NoCloseUnderSend ==
  mainPc = "closed" => consPc = "exited" /\ chanClosed

\* Rows a session read that neither it nor a later session brought to an end,
\* and that no session will read again: the store is past them.
Lost ==
  {p \in read : /\ p <= saved
                /\ p \notin Settled
                /\ ~(Running /\ start < p /\ LastTaken <= p)}

\* What a session loses when it ends is bounded by the channel and the event
\* in the hands of the consumer.  With an endless channel, or a position saved
\* ahead of what canal has read, it would not be.
LossBounded ==
  Cardinality(Lost) <= (Cap + 1) * (sessions - IF up THEN 1 ELSE 0)

\* The events reach the producer in the order of the binlog, each row of it:
\* the consumer takes the row that follows the one it took before.
InOrder ==
  [][ev' # ev /\ up' =>
       /\ ev' > LastTaken
       /\ ev' \in Rows
       /\ \A p \in Rows : LastTaken < p => ev' <= p]_vars

-----------------------------------------------------------------------------
(* Liveness.                                                               *)

\* A canceled context ends the process, and so does the end of canal, for
\* whatever reason: no goroutine waits for another for ever, in particular Close
\* does not wait for a lock it holds itself.
ShutdownCompletes == (up /\ (ctxDone \/ canalPc = "exited")) ~> ~up

\* While the process runs, every row after its start is sent or given up.
RowsSettle ==
  \A p \in 1 .. MaxPos :
    (Running /\ p \in Rows /\ start < p) ~> (p \in Settled \/ ctxDone \/ ~up)

-----------------------------------------------------------------------------
(* What comments and docs promise and the code does not keep: ListenNoPanic *)
(* checks the first, and the same configuration refutes the second; the     *)
(* third needs two sessions and the event crash.                            *)

\* mysql.go:63-64: chanClosed prevents the panic of a send on a closed channel.
NoPanic == ~panicked

\* mysql.go:245-247: a slow consumer slows down the reader of the binlog rather
\* than losing data.
NothingLost == Lost = {}

\* README.md: the stored positions make the process resume where it stopped.
\* Every row between the first start and the present one was read by some
\* session.  A session killed before its first checkpoint, a failing store and
\* a stop that forgets the position all break it.
NothingSkipped ==
  Running => \A p \in Rows : origin < p /\ p <= start => p \in read

\* The same: a position in the store is replaced by another, never taken away.
\* A stop that comes before the goroutine of canal has run stores the zero
\* position over it.
PositionKept == [][saved # 0 => saved' # 0]_vars

-----------------------------------------------------------------------------
(* The process implements the abstract relay.                              *)

Abstract == INSTANCE Relay WITH
              unreadable <- getFailed,
              active <- Running,
              cursor <- IF Running THEN LastTaken ELSE 0

RelaySpec == Abstract!Spec

=============================================================================
