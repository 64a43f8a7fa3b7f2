--------------------------------- MODULE Runner --------------------------------
(***************************************************************************)
(* The runner of the tasks (task/runner.go and runEach of                  *)
(* task/watchers.go).                                                      *)
(*                                                                         *)
(* The configuration is read once (NewRunner) and routes every change from *)
(* then on.  Goroutines call Run, RunByPrimaryKey and RunByTimeRange.  Run  *)
(* gives the consumer the handler.  The consumer calls it on goroutines of *)
(* its own, with any event that is not settled: in any order, with several *)
(* at once or with one again that another handler has, and also after      *)
(* Consume returned with what it had fetched, which is as much as the      *)
(* middlewares of IConsumer do.  Each run starts the tasks that watch a    *)
(* table, each in a goroutine of its own, and waits for all of them.       *)
(***************************************************************************)
EXTENDS Watchers

CONSTANTS
  Configurations,  \* bound: the lists of tasks and of changes there can be
  Explored,        \* bound: those of them with which the runner is used
  Callers,         \* goroutines that call the runner
  Handlers,        \* goroutines on which the consumer calls the handler
  MaxCalls,        \* bound: calls of the runner
  MaxFailures      \* bound: times a task fails or an acknowledgement is lost

ASSUME RunnerAssumption ==
  /\ \A cf \in Configurations :
       /\ cf.tasks \in Seq(ToSet(cf.tasks))
       /\ \A i \in DOMAIN cf.tasks : cf.tasks[i].Main \in Table /\ cf.tasks[i].Sub \in Seq(Table)
       /\ cf.changes \in Seq(ToSet(cf.changes))
       /\ \A k \in DOMAIN cf.changes :
            /\ Change(cf.changes[k])
            /\ cf.changes[k].database \in Names /\ cf.changes[k].table \in Names
  /\ Explored \subseteq Configurations
  /\ Callers \cap Handlers = {}
  /\ MaxCalls \in Nat
  /\ MaxFailures \in Nat

VARIABLES
  published,    \* the events of the middleware
  watched,      \* Runner.watched, the watchers in the order they were added
  hasConsumer,  \* Runner.consumer is not nil
  consuming,    \* Runner.consuming
  subscribed,   \* the consumer was given the handler
  closed,       \* the consumer is closed
  settled,      \* events the middleware was told to let go of
  calls,        \* what each caller is doing, or what its last call returned
  made,         \* calls that were made
  hand,         \* the event each handler has, 0 for none
  ran,          \* the goroutines of the runEach of each caller and handler
  succeeded,    \* pairs of an event and a task that ran for it
  failures      \* times a task failed or an acknowledgement was lost

config   == <<tasks, changes, built, published, watched, hasConsumer>>
consumer == <<subscribed, closed, settled, hand>>
vars     == <<config, consumer, consuming, calls, made, ran, succeeded, failures>>

Tasks == DOMAIN tasks

Events == DOMAIN published

\* The watchers of the change an event is about.
watchersFor(e) == of(watched, tableKeyOf(published[e].database, published[e].table))

\* The tasks of some watchers.
tasksOf(ws) == {t \in Tasks : \E k \in DOMAIN ws : ws[k].task = t}

\* Of those that watch the table of an event, the ones that find in it the row
\* they are to run for.
keyed(e) ==
  LET ws == watchersFor(e)
  IN  {t \in Tasks : \E k \in DOMAIN ws :
                       ws[k].task = t /\ mainPkVal(ws[k], published[e].data) # {}}

Idle == [pc |-> "idle", ctxDone |-> FALSE, result |-> "none"]

Init ==
  /\ \E cf \in Configurations :
       tasks = cf.tasks /\ changes = cf.changes /\ published = EventsOf(cf.changes)
  /\ watched = << >>
  /\ built = "none"
  /\ hasConsumer = FALSE
  /\ consuming = FALSE
  /\ subscribed = FALSE
  /\ closed = FALSE
  /\ settled = {}
  /\ calls = [c \in Callers |-> Idle]
  /\ made = 0
  /\ hand = [h \in Handlers |-> 0]
  /\ ran = [x \in Callers \cup Handlers |-> [t \in Tasks |-> "none"]]
  /\ succeeded = {}
  /\ failures = 0

\* NewRunner, with a consumer or without one.  A process whose configuration it
\* rejects closes the consumer and ends.
NewRunner ==
  /\ built = "none"
  /\ hasConsumer' \in BOOLEAN
  /\ IF rejected
     THEN built' = "failed" /\ closed' = hasConsumer' /\ UNCHANGED watched
     ELSE built' = "runner" /\ watched' = index /\ UNCHANGED closed
  /\ UNCHANGED <<tasks, changes, published, consuming, subscribed, settled, calls, made, hand,
                 ran, succeeded, failures>>

InUse == built = "runner" /\ [tasks |-> tasks, changes |-> changes] \in Explored

\* A goroutine calls the runner, with a context of its own.
Called(c, pc, result) ==
  /\ InUse
  /\ calls[c].pc = "idle"
  /\ made < MaxCalls
  /\ made' = made + 1
  /\ calls' = [calls EXCEPT ![c] = [Idle EXCEPT !.pc = pc, !.result = result]]

Returns(c, result) ==
  /\ calls' = [calls EXCEPT ![c] = [Idle EXCEPT !.result = result]]
  /\ UNCHANGED made

-----------------------------------------------------------------------------
(* Run.                                                                    *)

\* The check and the mark are one step under Runner.mu.
Consumes(c) ==
  /\ ~consuming /\ hasConsumer
  /\ Called(c, "consume", "none")
  /\ consuming' = TRUE
  /\ subscribed' = TRUE

\* Mutant of Run: the mark is deferred to be taken back before it is checked, so
\* a Run that is refused takes back that of the one that consumes.
RunDefersFirst(c) ==
  /\ \/ /\ consuming \/ ~hasConsumer
        /\ Called(c, "idle", "error")
        /\ consuming' = FALSE
        /\ UNCHANGED subscribed
     \/ Consumes(c)
  /\ UNCHANGED <<config, closed, settled, hand, ran, succeeded, failures>>

Run(c) ==
  /\ \/ /\ consuming \/ ~hasConsumer
        /\ Called(c, "idle", "error")
        /\ UNCHANGED <<consuming, subscribed>>
     \/ Consumes(c)
  /\ UNCHANGED <<config, closed, settled, hand, ran, succeeded, failures>>

\* Consume returns as IConsumer says, and the deferred function of Run with it.
\* The handlers may still run.
ConsumeReturns(c) ==
  /\ calls[c].pc = "consume"
  /\ \/ closed /\ Returns(c, "nil")
     \/ ~closed /\ calls[c].ctxDone /\ Returns(c, "error")
  /\ consuming' = FALSE
  /\ UNCHANGED <<config, consumer, ran, succeeded, failures>>

\* It returns as well when reading fails.
ReadingFails(c) ==
  /\ calls[c].pc = "consume"
  /\ Returns(c, "error")
  /\ consuming' = FALSE
  /\ UNCHANGED <<config, consumer, ran, succeeded, failures>>

-----------------------------------------------------------------------------
(* The handler.                                                            *)

\* runEach starts a goroutine for every watcher.  One that finds no key of its
\* row in the event only says so.
Start(x, ts) ==
  ran' = [ran EXCEPT ![x] = [t \in Tasks |-> IF t \in ts THEN "running" ELSE "none"]]

\* Mutant of Handle: a change nobody watches is reported as a failure.
HandleUnwatchedFails(h) ==
  /\ subscribed
  /\ hand[h] = 0
  /\ \E e \in Events \ settled :
       /\ watchersFor(e) # << >>
       /\ hand' = [hand EXCEPT ![h] = e]
       /\ Start(h, keyed(e))
  /\ UNCHANGED <<config, consuming, subscribed, closed, settled, calls, made, succeeded,
                 failures>>

\* The consumer calls handle with an event.  A change nobody watches is accepted.
\* With a canceled context nothing is started and the event is rejected, which
\* leaves no trace.
Handle(h) ==
  /\ subscribed
  /\ hand[h] = 0
  /\ \E e \in Events \ settled :
       \/ /\ watchersFor(e) = << >>
          /\ settled' = settled \cup {e}
          /\ UNCHANGED <<hand, ran>>
       \/ /\ watchersFor(e) # << >>
          /\ hand' = [hand EXCEPT ![h] = e]
          /\ Start(h, keyed(e))
          /\ UNCHANGED settled
  /\ UNCHANGED <<config, consuming, subscribed, closed, calls, made, succeeded, failures>>

-----------------------------------------------------------------------------
(* RunByPrimaryKey and RunByTimeRange.                                     *)

\* named: the table is written as the joined key, and somebody watches it.  One
\* without a dot is refused although it could not be watched anyway.
named(table) == HasDot(table) /\ of(watched, table) # << >>

\* A call for a table named refuses is refused, as one without a key, with an
\* empty range or with a canceled context is: nothing is started.
RunTable(c, table) ==
  /\ \/ /\ Called(c, "idle", "error")
        /\ UNCHANGED ran
     \/ /\ named(table)
        /\ Called(c, "wait", "none")
        /\ Start(c, tasksOf(of(watched, table)))
  /\ UNCHANGED <<config, consumer, consuming, succeeded, failures>>

\* What a caller may name: a table the tasks declare, or another one.
Nameable == {keyOf(w) : w \in ToSet(watched)} \cup {<<Dot>>}

RunByPrimaryKey(c) == \E table \in Nameable : RunTable(c, table)
RunByTimeRange(c) == \E table \in Nameable : RunTable(c, table)

-----------------------------------------------------------------------------
(* runEach.                                                                *)

\* A task returns.
TaskReturns(x, t) ==
  /\ ran[x][t] = "running"
  /\ \/ /\ ran' = [ran EXCEPT ![x][t] = "ok"]
        /\ succeeded' = IF x \in Handlers THEN succeeded \cup {<<hand[x], t>>} ELSE succeeded
        /\ UNCHANGED failures
     \/ /\ failures < MaxFailures
        /\ ran' = [ran EXCEPT ![x][t] = "failed"]
        /\ failures' = failures + 1
        /\ UNCHANGED succeeded
  /\ UNCHANGED <<config, consumer, consuming, calls, made>>

\* Mutant of Finished: the first task that is through ends the wait.
FinishedOnce(x) ==
  \/ \A t \in Tasks : ran[x][t] # "running"
  \/ \E t \in Tasks : ran[x][t] = "ok"

\* The wait group is done.
Finished(x) == \A t \in Tasks : ran[x][t] # "running"

\* Mutant of Failed: only when every task failed is it reported.
FailedEverywhere(x) ==
  /\ \E t \in Tasks : ran[x][t] = "failed"
  /\ \A t \in Tasks : ran[x][t] # "ok"

\* errors.Join finds an error.
Failed(x) == \E t \in Tasks : ran[x][t] = "failed"

Through(x) == ran' = [ran EXCEPT ![x] = [t \in Tasks |-> "none"]]

\* runEach has waited for every goroutine and joins their errors.  The consumer
\* settles the event or keeps it.  An acknowledgement may get lost, and does
\* not get through once the consumer is closed.
HandleReturns(h) ==
  /\ hand[h] # 0
  /\ Finished(h)
  /\ Through(h)
  /\ hand' = [hand EXCEPT ![h] = 0]
  /\ \/ /\ ~Failed(h)
        /\ settled' = settled \cup {hand[h]}
        /\ UNCHANGED failures
     \/ /\ Failed(h) \/ closed
        /\ UNCHANGED <<settled, failures>>
     \/ /\ failures < MaxFailures
        /\ failures' = failures + 1
        /\ UNCHANGED settled
  /\ UNCHANGED <<config, consuming, subscribed, closed, calls, made, succeeded>>

\* The same for a call of RunByPrimaryKey or RunByTimeRange.
AskedReturns(c) ==
  /\ calls[c].pc = "wait"
  /\ Finished(c)
  /\ Through(c)
  /\ Returns(c, IF Failed(c) THEN "error" ELSE "nil")
  /\ UNCHANGED <<config, consumer, consuming, succeeded, failures>>

-----------------------------------------------------------------------------
Cancel(c) ==
  /\ calls[c].pc # "idle"
  /\ ~calls[c].ctxDone
  /\ calls' = [calls EXCEPT ![c].ctxDone = TRUE]
  /\ UNCHANGED <<config, consumer, consuming, made, ran, succeeded, failures>>

\* Close closes the consumer, if there is one.
Close ==
  /\ InUse /\ hasConsumer
  /\ ~closed
  /\ closed' = TRUE
  /\ UNCHANGED <<config, consuming, subscribed, settled, calls, made, hand, ran, succeeded,
                 failures>>

\* No call and no handler is under way.
Resting ==
  /\ built # "none"
  /\ \A c \in Callers : calls[c].pc = "idle"
  /\ \A h \in Handlers : hand[h] = 0
  /\ UNCHANGED vars

Next ==
  \/ \E c \in Callers :
       \/ Run(c) \/ RunByPrimaryKey(c) \/ RunByTimeRange(c)
       \/ ConsumeReturns(c) \/ ReadingFails(c) \/ AskedReturns(c) \/ Cancel(c)
  \/ \E h \in Handlers : Handle(h) \/ HandleReturns(h)
  \/ \E x \in Callers \cup Handlers : \E t \in Tasks : TaskReturns(x, t)
  \/ NewRunner \/ Close
  \/ Resting

Spec == Init /\ [][Next]_vars

\* While a Run consumes, the consumer calls the handler in the end when one is
\* free and an event is not settled; a handler that can go on does, and so do the
\* tasks it waits for.
FairSpec ==
  /\ Spec
  /\ WF_vars(\E h \in Handlers : consuming /\ Handle(h))
  /\ \A h \in Handlers : WF_vars(HandleReturns(h)) /\ WF_vars(\E t \in Tasks : TaskReturns(h, t))

-----------------------------------------------------------------------------
Call ==
  [pc : {"idle", "consume", "wait"}, ctxDone : BOOLEAN, result : {"none", "nil", "error"}]

\* Every variable has its type.
TypeOK ==
  /\ built \in {"none", "failed", "runner"}
  /\ watched \in {<< >>, index}
  /\ hasConsumer \in BOOLEAN /\ consuming \in BOOLEAN
  /\ subscribed \in BOOLEAN /\ closed \in BOOLEAN
  /\ settled \subseteq Events
  /\ calls \in [Callers -> Call]
  /\ made \in 0 .. MaxCalls
  /\ hand \in [Handlers -> {0} \cup Events]
  /\ ran \in [Callers \cup Handlers -> [Tasks -> {"none", "running", "ok", "failed"}]]
  /\ succeeded \subseteq Events \X Tasks
  /\ failures \in 0 .. MaxFailures

\* The tables a task declares, each with the column the row it runs for is in.
Declared(t) == {<<t.Main, t.Main.PrimaryKey>>} \cup {<<d, d.RefColumn>> : d \in ToSet(t.Sub)}

\* The author of a task means it to run for an event: it declares the table, and
\* the column it declares for that table holds a key.
MeantFor(t, event) ==
  \E d \in Declared(t) :
    /\ d[1].Database = event.database /\ d[1].Name = event.table
    /\ d[2] \in DOMAIN event.data
    /\ LET key == event.data[d[2]]
       IN  key.go # "nil" /\ (key.go = "string" => key.v # "")

\* An event the middleware lets go of has been through every task that is meant
\* to run for it, whoever failed or was canceled before, and it has been through
\* no other: a joined key that two tables share, an empty column or a column of
\* another table starts nothing.
SettledForEveryTask ==
  /\ \A e \in settled : \A t \in Tasks :
       MeantFor(tasks[t], published[e]) => <<e, t>> \in succeeded
  /\ \A p \in succeeded : MeantFor(tasks[p[2]], published[p[1]])

\* One call of Run at a time reads from the consumer, however many goroutines call
\* it, are refused or come back with an error in between: consuming is what the
\* calls together say it is.
OneRunConsumes ==
  /\ TypeOK
  /\ \A c, d \in Callers : calls[c].pc = "consume" /\ calls[d].pc = "consume" => c = d
  /\ consuming => \E c \in Callers : calls[c].pc = "consume"

\* Every event is settled in the end while one Run goes on, also the ones no
\* task watches, those that failed or whose acknowledgement was lost before, and
\* those that several handlers had at once.
EverythingSettles ==
  (\E c \in Callers : <>[](calls[c].pc = "consume" /\ ~calls[c].ctxDone /\ ~closed))
    => <>(settled = Events)

-----------------------------------------------------------------------------
(* What the comment of Runner says and the code does not keep.             *)

\* A run that stops because its context is canceled reports the cancellation: not
\* RunByPrimaryKey and RunByTimeRange, whose tasks may all succeed.
CancellationReported ==
  [][\A c \in Callers :
       calls[c].ctxDone /\ ~closed /\ calls'[c].pc = "idle" => calls'[c].result = "error"]_vars

\* Nothing is left running behind it: not when the consumer is one whose Consume
\* returns before the handlers it called.
NothingLeftBehind ==
  [][\A c \in Callers :
       calls[c].pc # "idle" /\ calls'[c].pc = "idle" => \A h \in Handlers : hand[h] = 0]_vars

=============================================================================
