----------------------------- MODULE KafkaConsumer ----------------------------
(***************************************************************************)
(* The Kafka consumers of one group on one partition                       *)
(* (queue/consumer/kafka.go).                                              *)
(*                                                                         *)
(* The partition is a log, the group keeps one committed offset, and the   *)
(* consumer the partition is assigned to reads from it.  A message that    *)
(* was handled is committed by its offset, which covers everything below.  *)
(* An assignment ends when the group rebalances, also under a consumer     *)
(* that is in the middle of a message.                                     *)
(*                                                                         *)
(* Offsets are counted from one; the committed offset is the last one that *)
(* will not be read again.  The group is not empty and starts at the       *)
(* oldest message.                                                         *)
(***************************************************************************)
EXTENDS Naturals, FiniteSets

CONSTANTS
  Consumers,      \* processes of the group
  NoConsumer,     \* no process
  N,              \* messages in the partition
  Junk,           \* those whose payload is not an event
  MaxRejects,     \* bound: times a handler fails
  MaxRebalances,  \* bound: times the partition is assigned
  MaxStarts,      \* bound: starts of each process
  Env             \* what can happen, see EnvEvents

EnvEvents ==
  { "stop",    \* the context of Consume is canceled
    "close",   \* the consumer is closed
    "crash",   \* a process is killed
    "broker"   \* a read or a commit fails for good
  }

Messages == 1 .. N

ASSUME KafkaAssumption ==
  /\ NoConsumer \notin Consumers
  /\ N \in Nat
  /\ Junk \subseteq Messages
  /\ MaxRejects \in Nat
  /\ MaxRebalances \in Nat
  /\ MaxStarts \in Nat
  /\ Env \subseteq EnvEvents

VARIABLES
  committed,  \* the offset of the group
  owner,      \* whom the partition is assigned to
  procs,      \* the consumers
  accepted,   \* messages a handler accepted at least once
  rejected,   \* messages a handler rejected at least once
  rejects,    \* times a handler rejected one
  rebalances  \* assignments so far

history == <<accepted, rejected, rejects>>
vars == <<committed, owner, procs, history, rebalances>>

Stopped == [pc |-> "off", at |-> 0, msg |-> 0, ctxDone |-> FALSE, closed |-> FALSE,
            result |-> "none", starts |-> 0]

Init ==
  /\ committed = 0
  /\ owner = NoConsumer
  /\ procs = [c \in Consumers |-> Stopped]
  /\ accepted = {} /\ rejected = {} /\ rejects = 0
  /\ rebalances = 0

Running(c) == procs[c].pc \notin {"off", "ended"}

\* Consume was asked to end.
Asked(c) == procs[c].ctxDone \/ procs[c].closed

\* Consume returns, TaskRun closes the reader, and its process leaves the group.
Returns(c, result) ==
  /\ procs' = [procs EXCEPT ![c].pc = "ended", ![c].result = result]
  /\ owner' = IF owner = c THEN NoConsumer ELSE owner

\* What Consume makes of an error of the reader.
EndsOnError(c) ==
  \/ procs[c].closed /\ Returns(c, "nil")
  \/ ~procs[c].closed /\ procs[c].ctxDone /\ Returns(c, "canceled")
  \/ /\ ~procs[c].closed /\ ~procs[c].ctxDone
     /\ "broker" \in Env
     /\ Returns(c, "failed")

-----------------------------------------------------------------------------
(* Consume.                                                                *)

\* Mutant of Fetch: the offset is committed with the read, as ReadMessage
\* would do.
FetchCommits(c) ==
  /\ procs[c].pc = "fetch"
  /\ owner = c
  /\ procs[c].at < N
  /\ procs' = [procs EXCEPT ![c].pc = "handle", ![c].at = @ + 1,
                            ![c].msg = procs[c].at + 1]
  /\ committed' = procs[c].at + 1
  /\ UNCHANGED <<owner, history, rebalances>>

\* FetchMessage returns the next message of the assignment.
Fetch(c) ==
  /\ procs[c].pc = "fetch"
  /\ owner = c
  /\ procs[c].at < N
  /\ procs' = [procs EXCEPT ![c].pc = "handle", ![c].at = @ + 1,
                            ![c].msg = procs[c].at + 1]
  /\ UNCHANGED <<committed, owner, history, rebalances>>

\* Mutant of FetchFails: the reads go on under a canceled context.
FetchFailsWhenClosed(c) ==
  /\ procs[c].pc = "fetch"
  /\ procs[c].closed
  /\ EndsOnError(c)
  /\ UNCHANGED <<committed, history, rebalances>>

\* FetchMessage fails: the reader was closed, the context was canceled, or the
\* library gave up.
FetchFails(c) ==
  /\ procs[c].pc = "fetch"
  /\ EndsOnError(c)
  /\ UNCHANGED <<committed, history, rebalances>>

\* processMessage: a rejected message is left uncommitted and the next one is
\* fetched, any other one goes on to the commit.
ProcessMessage(c) ==
  LET m == procs[c].msg
  IN  /\ procs[c].pc = "handle"
      /\ \/ /\ m \in Junk
            /\ procs' = [procs EXCEPT ![c].pc = "commit"]
            /\ UNCHANGED history
         \/ /\ m \notin Junk
            /\ accepted' = accepted \cup {m}
            /\ procs' = [procs EXCEPT ![c].pc = "commit"]
            /\ UNCHANGED <<rejected, rejects>>
         \/ /\ m \notin Junk
            /\ rejects < MaxRejects
            /\ rejected' = rejected \cup {m}
            /\ rejects' = rejects + 1
            /\ procs' = [procs EXCEPT ![c].pc = "fetch"]
            /\ UNCHANGED accepted
      /\ UNCHANGED <<committed, owner, rebalances>>

\* Mutant of Commit: the offset after the next message is committed.
CommitsOneMore(c) ==
  /\ procs[c].pc = "commit"
  /\ committed' = IF procs[c].msg < N THEN procs[c].msg + 1 ELSE N
  /\ procs' = [procs EXCEPT ![c].pc = "fetch"]
  /\ UNCHANGED <<owner, history, rebalances>>

\* CommitMessages succeeds.  The broker does not ask whether the partition is
\* still assigned to this consumer, as long as it is in the group, nor whether
\* the offset goes back.
Commit(c) ==
  /\ procs[c].pc = "commit"
  /\ committed' = procs[c].msg
  /\ procs' = [procs EXCEPT ![c].pc = "fetch"]
  /\ UNCHANGED <<owner, history, rebalances>>

\* It fails, before the broker stored the offset or after.
CommitFails(c) ==
  /\ procs[c].pc = "commit"
  /\ committed' \in {committed, procs[c].msg}
  /\ EndsOnError(c)
  /\ UNCHANGED <<history, rebalances>>

ConsumeStep(c) ==
  Fetch(c) \/ FetchFails(c) \/ ProcessMessage(c) \/ Commit(c) \/ CommitFails(c)

-----------------------------------------------------------------------------
(* The group and the processes.                                            *)

\* A process starts, with a reader that joins the group.
Start(c) ==
  /\ ~Running(c)
  /\ procs[c].starts < MaxStarts
  /\ procs' = [procs EXCEPT ![c] = [Stopped EXCEPT !.pc = "fetch",
                                                   !.starts = procs[c].starts + 1]]
  /\ UNCHANGED <<committed, owner, history, rebalances>>

\* The partition is assigned to a member of the group, which reads on from the
\* committed offset.  The member that had it is not waited for.
Rebalance(c) ==
  /\ Running(c)
  /\ owner # c
  /\ owner = NoConsumer \/ rebalances < MaxRebalances
  /\ owner' = c
  /\ rebalances' = IF owner = NoConsumer THEN rebalances ELSE rebalances + 1
  /\ procs' = [procs EXCEPT ![c].at = committed]
  /\ UNCHANGED <<committed, history>>

Cancel(c) ==
  /\ "stop" \in Env
  /\ Running(c) /\ ~procs[c].ctxDone
  /\ procs' = [procs EXCEPT ![c].ctxDone = TRUE]
  /\ UNCHANGED <<committed, owner, history, rebalances>>

\* Close: the flag, and the reader, whose next answer is an error or a message
\* it still had.
Close(c) ==
  /\ "close" \in Env
  /\ Running(c) /\ ~procs[c].closed
  /\ procs' = [procs EXCEPT ![c].closed = TRUE]
  /\ UNCHANGED <<committed, owner, history, rebalances>>

Crash(c) ==
  /\ "crash" \in Env
  /\ Running(c)
  /\ Returns(c, "crashed")
  /\ UNCHANGED <<committed, history, rebalances>>

\* Every process waits for a message or is over.
Resting ==
  /\ \A c \in Consumers : ~Running(c) \/ procs[c].pc = "fetch"
  /\ UNCHANGED vars

Next ==
  \/ \E c \in Consumers :
       \/ ConsumeStep(c)
       \/ Start(c) \/ Rebalance(c) \/ Cancel(c) \/ Close(c) \/ Crash(c)
  \/ Resting

Spec == Init /\ [][Next]_vars

\* The loop of a consumer goes on as long as there is something to read, the
\* library answers a reader that was closed or canceled, a stopped process is
\* started again, and the group assigns a partition nobody has.
Fairness ==
  /\ \A c \in Consumers :
       /\ WF_vars(Fetch(c) \/ (Asked(c) /\ FetchFails(c)))
       /\ WF_vars(ProcessMessage(c))
       /\ WF_vars(Commit(c) \/ CommitFails(c))
       /\ WF_vars(Start(c))
  /\ WF_vars(owner = NoConsumer /\ \E c \in Consumers : Rebalance(c))

FairSpec == Spec /\ Fairness

-----------------------------------------------------------------------------
Process ==
  [pc : {"off", "fetch", "handle", "commit", "ended"}, at : 0 .. N, msg : 0 .. N,
   ctxDone : BOOLEAN, closed : BOOLEAN,
   result : {"none", "nil", "canceled", "failed", "crashed"}, starts : 0 .. MaxStarts]

\* Every variable has its type, and the partition is assigned to a process
\* that runs.
TypeOK ==
  /\ committed \in 0 .. N
  /\ owner \in Consumers \cup {NoConsumer}
  /\ procs \in [Consumers -> Process]
  /\ accepted \subseteq Messages /\ rejected \subseteq Messages
  /\ rejects \in 0 .. MaxRejects
  /\ rebalances \in 0 .. MaxRebalances
  /\ owner # NoConsumer => Running(owner)

\* No message is committed that no handler has seen: whatever crashes, rebalances
\* or commits late, the group passes a message only after it was accepted or
\* rejected, or turned out to be no event.
CommittedWasHandled ==
  /\ TypeOK
  /\ 1 .. committed \subseteq accepted \cup rejected \cup Junk

\* A message that no handler rejects is handled in the end, even when consumers
\* are stopped, crash or lose the partition in between, as long as one of them
\* is left running.
EverythingHandled ==
  []<>(\E c \in Consumers : Running(c) /\ ~Asked(c))
    => <>(Messages \subseteq accepted \cup rejected \cup Junk)

\* A shutdown ends Consume.
EndsWhenAsked ==
  \A c \in Consumers :
    (Running(c) /\ Asked(c)) ~> ~Running(c)

\* The comment of Consume: the offset of a message the handler rejects is left
\* uncommitted, so that message is read again after a rebalance or a restart.
\* A commit past the message means it never is.
RejectedIsReadAgain == rejected \cap (1 .. committed) \subseteq accepted

=============================================================================
