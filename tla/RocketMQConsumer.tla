---------------------------- MODULE RocketMQConsumer ---------------------------
(***************************************************************************)
(* The RocketMQ consumer (queue/consumer/rocket.go) of one group.          *)
(*                                                                         *)
(* Every Consume starts a push consumer of the library and shuts it down   *)
(* before it returns.  The library gives the messages to the callback, in  *)
(* batches and in a goroutine of its own.  A batch that succeeded is one   *)
(* whose offset can be stored, from time to time and at the shutdown; one  *)
(* that is to be retried is sent back to the broker or kept for another    *)
(* try.  What the library has pulled and not given to the callback counts  *)
(* as being at the broker still, where a shutdown or a crash leaves it.    *)
(* The shutdown does not wait for the callback, so the goroutine of a      *)
(* Consume that returned can still be with the handler: each Consume has a *)
(* callback of its own.                                                    *)
(***************************************************************************)
EXTENDS Consumer

CONSTANT MaxBatch  \* bound: messages of a batch

VARIABLES
  handled,   \* messages the library is through with and whose offset is not stored
  batch,     \* the batch it waits for the callback with
  rejected,  \* the callback found a message to retry in it
  left       \* what the callback of each Consume has not looked at

own  == <<handled, batch, rejected, left>>
vars == <<common, own>>

OwnInit ==
  /\ handled = {} /\ batch = {} /\ rejected = FALSE
  /\ left = [r \in 1 .. MaxRuns |-> {}]

Init == CommonInit /\ OwnInit

-----------------------------------------------------------------------------
(* Consume.                                                                *)

Consume ==
  /\ Called
  /\ \/ closed /\ pc' = "idle" /\ result' = "nil"
     \/ ~closed /\ pc' = "start" /\ result' = "none"
  /\ UNCHANGED <<broker, library, stops, msg, history, crashes, own>>

\* NewPushConsumer, Subscribe and Start, each of which can fail.
Start ==
  /\ pc = "start"
  /\ \/ library' = "open" /\ Goes("wait")
     \/ "refuse" \in Env /\ Returns("failed") /\ UNCHANGED library
  /\ UNCHANGED <<broker, stops, msg, history, crashes, own>>

\* Mutant of Stop: a canceled Consume returns at once.
StopWithoutShutdown ==
  /\ pc = "wait"
  /\ ctxDone \/ closing = "done"
  /\ IF ctxDone THEN Returns("canceled") ELSE Goes("shutdown")
  /\ UNCHANGED <<broker, library, stops, msg, history, crashes, own>>

\* The select: the context is done, or the channel Close closes.
Stop ==
  /\ pc = "wait"
  /\ ctxDone \/ closing = "done"
  /\ Goes("shutdown")
  /\ UNCHANGED <<broker, library, stops, msg, history, crashes, own>>

\* Shutdown stores the offsets of what was handled, as far as it gets: an error
\* of it is logged.  The broker gives the rest to the next consumer.
Shutdown ==
  /\ pc = "shutdown"
  /\ library' = "closed"
  /\ \E stored \in SUBSET handled : backlog' = backlog \cup batch \cup (handled \ stored)
  /\ handled' = {} /\ batch' = {} /\ rejected' = FALSE
  /\ Goes("leave")
  /\ UNCHANGED <<pushed, delayed, stops, msg, history, crashes, left>>

Leave ==
  /\ pc = "leave"
  /\ Returns(IF closed THEN "nil" ELSE "canceled")
  /\ UNCHANGED <<broker, library, stops, msg, history, crashes, own>>

ConsumeStep == Start \/ Stop \/ Shutdown \/ Leave

-----------------------------------------------------------------------------
(* The callback.                                                           *)

\* The library hands a batch to its goroutine.
Dispatch ==
  /\ library = "open"
  /\ batch = {}
  /\ \E S \in SUBSET backlog :
       /\ Cardinality(S) \in 1 .. MaxBatch
       /\ backlog' = backlog \ S
       /\ batch' = S
       /\ left' = [left EXCEPT ![runs] = S]
  /\ UNCHANGED <<pushed, delayed, library, stops, consume, history, crashes, handled, rejected>>

\* The callback of a Consume that has not returned, or has and left it behind.
Live(r) == r = runs /\ library = "open"

\* Mutant of Callback: a rejected message does not end the loop, and the verdict
\* is the one on the last.
CallbackGoesOn(r) ==
  /\ \E m \in left[r], d \in Dispositions :
       /\ processMessage(m, d)
       /\ left' = [left EXCEPT ![r] = @ \ {m}]
       /\ rejected' = (Live(r) /\ d = "retry" /\ left[r] = {m})
  /\ UNCHANGED <<broker, library, stops, consume, crashes, handled, batch>>

\* One message of the loop in the callback.  The first that is to be retried
\* ends it.  A library that was shut down does not wait for the verdict.
Callback(r) ==
  /\ \E m \in left[r], d \in Dispositions :
       /\ processMessage(m, d)
       /\ left' = [left EXCEPT ![r] = IF d = "retry" THEN {} ELSE @ \ {m}]
       /\ rejected' = IF Live(r) THEN d = "retry" ELSE rejected
  /\ UNCHANGED <<broker, library, stops, consume, crashes, handled, batch>>

\* ConsumeSuccess.
Succeeds ==
  /\ batch # {} /\ left[runs] = {} /\ ~rejected
  /\ batch' = {}
  /\ handled' = handled \cup batch
  /\ UNCHANGED <<common, rejected, left>>

\* ConsumeRetryLater: the whole batch comes again.  The broker has a copy of it
\* then, and the library is through with the one it had; or the broker refused
\* the copy and the library tries the one it has.
RetriesLater ==
  /\ rejected
  /\ batch' = {} /\ rejected' = FALSE
  /\ backlog' = backlog \cup batch
  /\ \/ handled' = handled \cup batch
     \/ "refuse" \in Env /\ UNCHANGED handled
  /\ UNCHANGED <<pushed, delayed, library, stops, consume, history, crashes, left>>

CallbackStep(r) == Callback(r) \/ (r = runs /\ (Succeeds \/ RetriesLater))

-----------------------------------------------------------------------------
(* Close, the library and the broker.                                      *)

Close ==
  /\ TakesClose
  /\ closing' = "taken"
  /\ UNCHANGED <<broker, library, consume, history, crashes, own>>

\* The channel a running Consume waits for is closed after the mutex.
CloseDone ==
  /\ closing = "taken"
  /\ closing' = "done"
  /\ UNCHANGED <<broker, library, closed, consume, history, crashes, own>>

\* The library stores an offset.
StoresOffset ==
  /\ library = "open"
  /\ \E m \in handled : handled' = handled \ {m}
  /\ UNCHANGED <<common, batch, rejected, left>>

Cancel == CancelContext /\ UNCHANGED own

\* What has no stored offset comes again.
Crash ==
  /\ Killed
  /\ backlog' = backlog \cup batch \cup handled
  /\ handled' = {} /\ batch' = {} /\ rejected' = FALSE
  /\ left' = [r \in 1 .. MaxRuns |-> {}]
  /\ UNCHANGED delayed

Resting ==
  /\ pc \in {"idle", "wait"}
  /\ UNCHANGED vars

Next ==
  \/ Consume \/ ConsumeStep
  \/ \E r \in 1 .. MaxRuns : CallbackStep(r)
  \/ Dispatch \/ StoresOffset \/ Close \/ CloseDone \/ Cancel \/ Crash
  \/ Resting

-----------------------------------------------------------------------------
\* Messages the group is not through with.
Kept == backlog \cup batch \cup handled

\* Every variable has its type; the callback of the running library works on the
\* batch it waits for, and no Consume that has not begun has one.
TypeOK ==
  /\ handled \subseteq Messages
  /\ batch \subseteq Messages /\ Cardinality(batch) <= MaxBatch
  /\ left \in [1 .. MaxRuns -> SUBSET Messages]
  /\ rejected => batch # {} /\ left[runs] = {}
  /\ batch # {} => library = "open"
  /\ library = "open" => left[runs] \subseteq batch
  /\ \A r \in 1 .. MaxRuns : r > runs => left[r] = {}
  /\ pc \in {"idle", "start", "wait", "shutdown", "leave"}

\* A Consume that returned has shut its library down, whatever it returned.
Released == pc = "idle" => library # "open"

\* The comment of Runner: nothing of a run is left behind when it returns.
NoCallbackLeft == pc = "idle" => \A r \in 1 .. MaxRuns : left[r] = {}

=============================================================================
