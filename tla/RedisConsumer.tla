------------------------------ MODULE RedisConsumer ----------------------------
(***************************************************************************)
(* The Redis consumer and producer (queue/consumer/redis.go and            *)
(* queue/producer/redis.go) on one list.                                   *)
(*                                                                         *)
(* Send pushes at the head of the list and Consume pops at its tail.  The  *)
(* pop is all the acknowledgement there is: a message whose answer is lost *)
(* or that the handler rejects is gone.  A push whose answer is lost is    *)
(* done a second time by the caller of Send.                               *)
(***************************************************************************)
EXTENDS Consumer, Sequences, SequencesExt

CONSTANT MaxBreaks  \* bound: answers of Redis that are lost

VARIABLES
  list,   \* the list, its head first
  sent,   \* messages whose Send returned nil
  reply,  \* the answer of a pop on its way, a sequence of at most one
  breaks  \* answers lost so far

own  == <<list, sent, reply, breaks>>
vars == <<common, own>>

OwnInit == list = << >> /\ sent = 0 /\ reply = << >> /\ breaks = 0

Init == CommonInit /\ OwnInit

-----------------------------------------------------------------------------
(* Send.                                                                   *)

\* LPUSH of the next message.  The one whose answer is lost is sent again.
Send ==
  /\ sent < N
  /\ list' = <<sent + 1>> \o list
  /\ \/ sent' = sent + 1 /\ UNCHANGED breaks
     \/ breaks < MaxBreaks /\ breaks' = breaks + 1 /\ UNCHANGED sent
  /\ UNCHANGED <<common, reply>>

-----------------------------------------------------------------------------
(* Consume.                                                                *)

Consume ==
  /\ Called
  /\ pc' = "loop" /\ result' = "none"
  /\ UNCHANGED <<broker, library, stops, msg, history, crashes, own>>

\* The head of the loop looks at Close and at the context.
Loop ==
  /\ pc = "loop"
  /\ \/ closed /\ Returns("nil")
     \/ ~closed /\ ctxDone /\ Returns("canceled")
     \/ ~closed /\ ~ctxDone /\ Goes("pop")
  /\ UNCHANGED <<broker, library, stops, msg, history, crashes, own>>

\* Mutant of BRPop: the newest message is popped.
BLPop ==
  /\ pc = "pop" /\ library # "closed"
  /\ list # << >> /\ reply = << >>
  /\ reply' = <<Head(list)>>
  /\ list' = Tail(list)
  /\ UNCHANGED <<common, sent, breaks>>

\* Redis pops the oldest message and answers.
BRPop ==
  /\ pc = "pop" /\ library # "closed"
  /\ list # << >> /\ reply = << >>
  /\ reply' = <<Last(list)>>
  /\ list' = Front(list)
  /\ UNCHANGED <<common, sent, breaks>>

\* Mutant of Popped: a context that was canceled by now ends the loop here.
PoppedUnlessCanceled ==
  /\ pc = "pop" /\ library # "closed"
  /\ reply # << >>
  /\ reply' = << >>
  /\ IF ctxDone THEN Goes("loop") /\ UNCHANGED msg ELSE Goes("handle") /\ msg' = ToSet(reply)
  /\ UNCHANGED <<broker, library, stops, history, crashes, list, sent, breaks>>

\* The answer arrives.
Popped ==
  /\ pc = "pop" /\ library # "closed"
  /\ reply # << >>
  /\ reply' = << >>
  /\ msg' = ToSet(reply)
  /\ Goes("handle")
  /\ UNCHANGED <<broker, library, stops, history, crashes, list, sent, breaks>>

\* The timeout of the read is over and the answer is empty.
TimesOut ==
  /\ pc = "pop" /\ library # "closed"
  /\ list = << >> /\ reply = << >>
  /\ Goes("loop")
  /\ UNCHANGED <<broker, library, stops, msg, history, crashes, own>>

\* The connection breaks with the answer.  The client pops again on another one,
\* or reports an error.
ReplyIsLost ==
  /\ reply # << >>
  /\ breaks < MaxBreaks
  /\ breaks' = breaks + 1
  /\ reply' = << >>
  /\ Goes("pop") \/ Goes("error")
  /\ UNCHANGED <<broker, library, stops, msg, history, crashes, list, sent>>

\* The read fails before anything is popped: the client finds the context
\* canceled or Redis out of reach.  A client that is closed fails in any case.
PopFails ==
  /\ pc = "pop"
  /\ \/ library = "closed"
     \/ reply = << >> /\ (ctxDone \/ "refuse" \in Env)
  /\ reply' = << >>
  /\ Goes("error")
  /\ UNCHANGED <<broker, library, stops, msg, history, crashes, list, sent, breaks>>

\* Mutant of Failed: every error is taken for a timeout.
FailedGoesOn ==
  /\ pc = "error"
  /\ Goes("pop")
  /\ UNCHANGED <<broker, library, stops, msg, history, crashes, own>>

Failed ==
  /\ pc = "error"
  /\ Returns(IF closed THEN "nil" ELSE IF ctxDone THEN "canceled" ELSE "failed")
  /\ UNCHANGED <<broker, library, stops, msg, history, crashes, own>>

\* What processMessage says is not looked at.
Process ==
  /\ pc = "handle"
  /\ \E m \in msg, d \in Dispositions : processMessage(m, d)
  /\ msg' = {}
  /\ Goes("loop")
  /\ UNCHANGED <<broker, library, stops, crashes, own>>

ConsumeStep == Loop \/ Popped \/ TimesOut \/ Failed \/ Process

-----------------------------------------------------------------------------
(* Close and the process.                                                  *)

Close ==
  /\ TakesClose
  /\ closing' = "taken"
  /\ UNCHANGED <<broker, library, consume, history, crashes, own>>

CloseClient ==
  /\ closing = "taken"
  /\ closing' = "done"
  /\ library' = "closed"
  /\ UNCHANGED <<broker, closed, consume, history, crashes, own>>

Cancel == CancelContext /\ UNCHANGED own

\* The list is in Redis, the answer and the message in hand are not.
Crash ==
  /\ Killed
  /\ reply' = << >>
  /\ UNCHANGED <<backlog, delayed, list, sent, breaks>>

Resting ==
  /\ pc = "idle"
  /\ UNCHANGED vars

Next ==
  \/ Send \/ Consume \/ ConsumeStep \/ BRPop \/ ReplyIsLost \/ PopFails
  \/ Close \/ CloseClient \/ Cancel \/ Crash
  \/ Resting

-----------------------------------------------------------------------------
\* Every variable has its type; an answer is on its way only to a read.
TypeOK ==
  /\ list \in Seq(Messages)
  /\ sent \in 0 .. N
  /\ reply \in Seq(Messages) /\ Len(reply) <= 1
  /\ reply # << >> => pc = "pop"
  /\ msg # {} => pc = "handle"
  /\ breaks \in 0 .. MaxBreaks
  /\ pc \in {"idle", "loop", "pop", "error", "handle"}

\* Close has closed the client when it returns.
Released == closing = "done" => library = "closed"

\* Messages that were sent and are neither on their way nor dealt with.
Lost == 1 .. sent \ (ToSet(list) \cup ToSet(reply) \cup msg \cup accepted \cup Junk)

\* A pop is final, so messages do get lost, but only so: one by each rejection,
\* each broken answer and each crash, and one by a Close that runs against the
\* pop.  A Consume that is canceled hands over what it has popped.
LostOnlySo ==
  Cardinality(Lost) <= rejects + breaks + crashes + Cardinality({TRUE} \cap {closing = "done"})

\* Messages are handled in the order they were sent: from the one in hand to the
\* head of the list none is older than the one before it, and what was accepted
\* is not newer than any of them.
OldestFirst ==
  LET queue == list \o reply \o SetToSeq(msg)
  IN  /\ \A i, j \in DOMAIN queue : i < j => queue[i] >= queue[j]
      /\ \A m \in accepted, i \in DOMAIN queue : m <= queue[i]

=============================================================================
