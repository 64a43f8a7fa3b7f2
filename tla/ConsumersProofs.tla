----------------------------- MODULE ConsumersProofs ---------------------------
(* Theorems about Consumers, for any messages, batches, runs and faults, in    *)
(* every environment.                                                          *)
EXTENDS Consumers, FiniteSetTheorems, SequenceTheorems, TLAPS

LEMMA Bounds ==
  /\ N \in Nat /\ MaxRuns \in Nat /\ MaxRejects \in Nat /\ MaxCrashes \in Nat
  /\ MaxBatch \in Nat /\ MaxBreaks \in Nat
  /\ Junk \subseteq Messages
  BY ConsumerAssumption, ConsumersAssumption DEF ConsumerAssumption, ConsumersAssumption

\* What all consumers have: at most one message in hand.
Common ==
  /\ CommonTypeOK
  /\ msg = {} \/ \E m \in Messages : msg = {m}

Done == accepted \cup Junk

\* The library is open while PulsarConsumer has it or Close is about to close it.
\* A message in hand is kept, and nothing is acknowledged that was not accepted.
PulsarInv ==
  /\ Pulsar!TypeOK
  /\ unacked \subseteq Messages
  /\ library = "open" <=> consumer \/ closing = "taken"
  /\ consumer => ~closed
  /\ library # "open" => pushed = {} /\ unacked = {}
  /\ msg # {} => pc \in {"handle", "settle"}
  /\ library = "open" => msg \subseteq unacked \ (acks \cup delayed)
  /\ msg \subseteq Pulsar!Kept
  /\ acks \subseteq Done
  /\ pc = "settle" /\ verdict = "ack" => msg \subseteq Done

\* The library is open while Consume waits or shuts it down.  What the callback
\* is through with in its batch is accepted, unless it found one to retry, and
\* what is handled is accepted or the broker has a copy of it.
RocketInv ==
  /\ Rocket!TypeOK
  /\ pc # "idle" => runs \in 1 .. MaxRuns
  /\ library = "open" => pc \in {"wait", "shutdown"}
  /\ pc = "start" => left[runs] = {}
  /\ Messages \subseteq Rocket!Kept \cup Done
  /\ library = "open" /\ ~rejected => batch \ left[runs] \subseteq Done
  /\ handled \subseteq Done \cup backlog \cup batch

\* A message that the client or the process holds when the client is closed will
\* be the one that a Close may cost.
Held == reply # << >> \/ msg # {}

One(b) == IF b THEN 1 ELSE 0

\* What is paid for so far, and what may be lost for that.
Paid == rejects + breaks + crashes
Bill == Cardinality(Redis!Lost) + One(closing = "done" /\ Held) <= Paid + One(closing = "done")

\* What is left in the list is sorted, the newest at its head, and what left it
\* is older; nothing is newer than the next message to be sent.
Sorted ==
  /\ \A i, j \in DOMAIN list : i < j => list[i] >= list[j]
  /\ \A i \in DOMAIN list : \A m \in Redis!ToSet(reply) \cup msg \cup accepted : m <= list[i]
  /\ \A m \in Redis!ToSet(reply) \cup msg : \A a \in accepted : a <= m
  /\ \A m \in Redis!ToSet(list) \cup Redis!ToSet(reply) \cup msg \cup accepted : m <= sent + 1

RedisInv ==
  /\ Redis!TypeOK
  /\ library = "closed" <=> closing = "done"
  /\ Bill
  /\ Sorted

IInv ==
  /\ type \in Types
  /\ Common
  /\ IF type = "pulsar" THEN PulsarInv ELSE Pulsar!OwnInit
  /\ IF type = "rocketmq" THEN RocketInv ELSE Rocket!OwnInit
  /\ IF type = "redis" THEN RedisInv ELSE Redis!OwnInit

-----------------------------------------------------------------------------
(* Sets of messages.                                                       *)

LEMMA Singletons == \A S : S = {} \/ (\E m : S = {m}) => IsFiniteSet(S) /\ Cardinality(S) <= 1
<1>1. IsFiniteSet({}) /\ Cardinality({}) <= 1
  BY FS_EmptySet
<1>2. \A m : IsFiniteSet({m}) /\ Cardinality({m}) <= 1
  <2>1. \A m : IsFiniteSet({m}) /\ Cardinality({m}) = 1
    BY FS_Singleton
  <2>2. 1 <= 1
    OBVIOUS
  <2> QED
    BY <2>1, <2>2
<1> QED
  BY <1>1, <1>2

\* A counter below its bound can be advanced.
LEMMA OneMore ==
  ASSUME NEW max \in Nat, NEW n \in 0 .. max, n < max
  PROVE  n + 1 \in 0 .. max
  OBVIOUS

-----------------------------------------------------------------------------
(* The calls of IConsumer.                                                 *)

\* What a call, its end, a cancelation, Close and a crash leave of the types.
LEMMA CommonKeeps ==
  ASSUME Common,
         backlog' \subseteq Messages, pushed' \subseteq Messages, delayed' \subseteq Messages,
         library' \in {"none", "open", "closed"},
         closed' \in BOOLEAN, closing' \in {"no", "taken", "done"}, closed' <=> closing' # "no",
         msg' = {} \/ (\E m \in Messages : msg' = {m}),
         result' \in {"none", "nil", "canceled", "failed"}, ctxDone' \in BOOLEAN,
         runs' \in 0 .. MaxRuns, accepted' \subseteq Messages \ Junk,
         rejects' \in 0 .. MaxRejects, crashes' \in 0 .. MaxCrashes
  PROVE  Common'
<1>1. Cardinality(msg') <= 1 /\ msg' \subseteq Messages
  BY Singletons
<1> QED
  BY <1>1 DEF Common, CommonTypeOK

-----------------------------------------------------------------------------
(* Pulsar.                                                                 *)

LEMMA PulsarCommon ==
  ASSUME Common, PulsarInv, Pulsar!Next
  PROVE  Common'
<1> USE Bounds DEF Common, CommonTypeOK, PulsarInv, Pulsar!TypeOK,
        Pulsar!own, Pulsar!broker, Pulsar!stops, Pulsar!consume, Pulsar!history, Pulsar!common
<1>1. CASE Pulsar!Consume
  <2>1. runs \in 0 .. MaxRuns /\ runs < MaxRuns /\ runs' = runs + 1
    BY <1>1 DEF Pulsar!Consume, Pulsar!Called
  <2>2. runs' \in 0 .. MaxRuns
    BY <2>1, Bounds, OneMore, Zenon
  <2> QED
    BY <1>1, <2>2, CommonKeeps DEF Pulsar!Consume, Pulsar!Called
<1>2. CASE Pulsar!Subscribe
  BY <1>2, CommonKeeps DEF Pulsar!Subscribe, Pulsar!Returns, Pulsar!Goes
<1>3. CASE Pulsar!Refused
  BY <1>3, CommonKeeps DEF Pulsar!Refused, Pulsar!Returns
<1>4. CASE Pulsar!Receive
  BY <1>4, CommonKeeps DEF Pulsar!Receive, Pulsar!Goes
<1>5. CASE Pulsar!ReceiveFails
  BY <1>5, CommonKeeps DEF Pulsar!ReceiveFails, Pulsar!Returns
<1>6. CASE Pulsar!Process
  BY <1>6, CommonKeeps DEF Pulsar!Process, Pulsar!Goes, Pulsar!processMessage, Pulsar!Dispositions
<1>7. CASE Pulsar!Ack
  BY <1>7, CommonKeeps DEF Pulsar!Ack, Pulsar!Goes
<1>8. CASE Pulsar!AckFails
  BY <1>8, CommonKeeps DEF Pulsar!AckFails, Pulsar!Returns
<1>9. CASE Pulsar!Nack
  BY <1>9, CommonKeeps DEF Pulsar!Nack, Pulsar!Goes
<1>10. CASE Pulsar!Close
  BY <1>10, CommonKeeps DEF Pulsar!Close, Pulsar!TakesClose
<1>11. CASE Pulsar!CloseLibrary
  BY <1>11, CommonKeeps DEF Pulsar!CloseLibrary
<1>12. CASE Pulsar!Cancel
  BY <1>12, CommonKeeps DEF Pulsar!Cancel, Pulsar!CancelContext
<1>13. CASE Pulsar!Crash
  <2>1. crashes \in 0 .. MaxCrashes /\ crashes < MaxCrashes /\ crashes' = crashes + 1
    BY <1>13 DEF Pulsar!Crash, Pulsar!Killed
  <2>2. crashes' \in 0 .. MaxCrashes
    BY <2>1, Bounds, OneMore, Zenon
  <2> QED
    BY <1>13, <2>2, CommonKeeps DEF Pulsar!Crash, Pulsar!Killed
<1>14. CASE Pulsar!BrokerPushes
  BY <1>14, CommonKeeps DEF Pulsar!BrokerPushes, Pulsar!BrokerDelivers
<1>15. CASE Pulsar!BrokerAcks
  BY <1>15, CommonKeeps DEF Pulsar!BrokerAcks
<1>16. CASE Pulsar!Redelivers
  BY <1>16, CommonKeeps DEF Pulsar!Redelivers
<1>17. CASE Pulsar!Resting
  BY <1>17, CommonKeeps DEF Pulsar!Resting, Pulsar!vars
<1> QED
  BY <1>1, <1>2, <1>3, <1>4, <1>5, <1>6, <1>7, <1>8, <1>9, <1>10, <1>11, <1>12, <1>13, <1>14, <1>15, <1>16, <1>17
  DEF Pulsar!Next, Pulsar!ConsumeStep

LEMMA PulsarKeeps ==
  ASSUME Common, PulsarInv, Pulsar!Next
  PROVE  PulsarInv'
<1> USE DEF Common, CommonTypeOK, PulsarInv, Pulsar!TypeOK, Pulsar!Kept, Done,
        Pulsar!own, Pulsar!broker, Pulsar!stops, Pulsar!consume, Pulsar!history, Pulsar!common
<1>1. CASE Pulsar!Consume
  BY <1>1 DEF Pulsar!Consume, Pulsar!Called
<1>2. CASE Pulsar!Subscribe
  <2>1. msg = {}
    BY <1>2 DEF Pulsar!Subscribe
  <2>2. CASE library' = library /\ consumer' = consumer
    BY <1>2, <2>1, <2>2 DEF Pulsar!Subscribe, Pulsar!Returns, Pulsar!Goes
  <2>3. CASE ~closed /\ ~consumer /\ library' = "open" /\ consumer' = TRUE /\ pc' = "receive"
    <3>1. library # "open"
      BY <2>3
    <3> QED
      BY <1>2, <2>1, <2>3, <3>1 DEF Pulsar!Subscribe
  <2> QED
    BY <1>2, <2>2, <2>3 DEF Pulsar!Subscribe, Pulsar!Goes
<1>3. CASE Pulsar!Refused
  BY <1>3 DEF Pulsar!Refused, Pulsar!Returns
<1>4. CASE Pulsar!Receive
  BY <1>4 DEF Pulsar!Receive, Pulsar!Goes
<1>5. CASE Pulsar!ReceiveFails
  BY <1>5 DEF Pulsar!ReceiveFails, Pulsar!Returns
<1>6. CASE Pulsar!Process
  BY <1>6 DEF Pulsar!Process, Pulsar!Goes, Pulsar!processMessage, Pulsar!Dispositions
<1>7. CASE Pulsar!Ack
  BY <1>7 DEF Pulsar!Ack, Pulsar!Goes
<1>8. CASE Pulsar!AckFails
  BY <1>8 DEF Pulsar!AckFails, Pulsar!Returns
<1>9. CASE Pulsar!Nack
  BY <1>9 DEF Pulsar!Nack, Pulsar!Goes
<1>10. CASE Pulsar!Close
  BY <1>10 DEF Pulsar!Close, Pulsar!TakesClose
<1>11. CASE Pulsar!CloseLibrary
  BY <1>11 DEF Pulsar!CloseLibrary
<1>12. CASE Pulsar!Cancel
  BY <1>12 DEF Pulsar!Cancel, Pulsar!CancelContext
<1>13. CASE Pulsar!Crash
  BY <1>13 DEF Pulsar!Crash, Pulsar!Killed
<1>14. CASE Pulsar!BrokerPushes
  BY <1>14 DEF Pulsar!BrokerPushes, Pulsar!BrokerDelivers
<1>15. CASE Pulsar!BrokerAcks
  BY <1>15 DEF Pulsar!BrokerAcks
<1>16. CASE Pulsar!Redelivers
  BY <1>16 DEF Pulsar!Redelivers
<1>17. CASE Pulsar!Resting
  BY <1>17 DEF Pulsar!Resting, Pulsar!vars
<1> QED
  BY <1>1, <1>2, <1>3, <1>4, <1>5, <1>6, <1>7, <1>8, <1>9, <1>10, <1>11, <1>12, <1>13, <1>14, <1>15, <1>16, <1>17
  DEF Pulsar!Next, Pulsar!ConsumeStep

\* What a step may do to the messages that are kept and accepted: one is accepted
\* that is kept, or some that need not be kept are let go of.
Moves(kept, next) ==
  \/ next = kept /\ accepted' = accepted
  \/ next = kept /\ \E m \in kept \ Junk : accepted' = accepted \cup {m}
  \/ accepted' = accepted /\ \E S \in SUBSET (kept \cap Done) : next = kept \ S

LEMMA PulsarMoves ==
  ASSUME Common, PulsarInv, Pulsar!Next
  PROVE  Moves(Pulsar!Kept, Pulsar!Kept')
<1> USE DEF Moves, Common, CommonTypeOK, PulsarInv, Pulsar!TypeOK, Pulsar!Kept, Done,
        Pulsar!own, Pulsar!broker, Pulsar!stops, Pulsar!consume, Pulsar!history, Pulsar!common
<1>1. CASE Pulsar!Consume
  BY <1>1 DEF Pulsar!Consume, Pulsar!Called
<1>2. CASE Pulsar!Subscribe
  BY <1>2 DEF Pulsar!Subscribe, Pulsar!Returns, Pulsar!Goes
<1>3. CASE Pulsar!Refused
  BY <1>3 DEF Pulsar!Refused, Pulsar!Returns
<1>4. CASE Pulsar!Receive
  BY <1>4 DEF Pulsar!Receive, Pulsar!Goes
<1>5. CASE Pulsar!ReceiveFails
  BY <1>5 DEF Pulsar!ReceiveFails, Pulsar!Returns
<1>6. CASE Pulsar!Process
  BY <1>6 DEF Pulsar!Process, Pulsar!Goes, Pulsar!processMessage, Pulsar!Dispositions
<1>7. CASE Pulsar!Ack
  BY <1>7 DEF Pulsar!Ack, Pulsar!Goes
<1>8. CASE Pulsar!AckFails
  BY <1>8 DEF Pulsar!AckFails, Pulsar!Returns
<1>9. CASE Pulsar!Nack
  BY <1>9 DEF Pulsar!Nack, Pulsar!Goes
<1>10. CASE Pulsar!Close
  BY <1>10 DEF Pulsar!Close, Pulsar!TakesClose
<1>11. CASE Pulsar!CloseLibrary
  BY <1>11 DEF Pulsar!CloseLibrary
<1>12. CASE Pulsar!Cancel
  BY <1>12 DEF Pulsar!Cancel, Pulsar!CancelContext
<1>13. CASE Pulsar!Crash
  BY <1>13 DEF Pulsar!Crash, Pulsar!Killed
<1>14. CASE Pulsar!BrokerPushes
  BY <1>14 DEF Pulsar!BrokerPushes, Pulsar!BrokerDelivers
<1>15. CASE Pulsar!BrokerAcks
  <2>1. PICK m \in acks : unacked' = unacked \ {m}
    BY <1>15 DEF Pulsar!BrokerAcks
  <2>2. backlog' = backlog /\ pushed' = pushed /\ accepted' = accepted
    BY <1>15 DEF Pulsar!BrokerAcks
  <2>3. {m} \in SUBSET (Pulsar!Kept \cap Done) /\ Pulsar!Kept' = Pulsar!Kept \ {m}
    BY <2>1, <2>2
  <2> QED
    BY <2>2, <2>3
<1>16. CASE Pulsar!Redelivers
  BY <1>16 DEF Pulsar!Redelivers
<1>17. CASE Pulsar!Resting
  BY <1>17 DEF Pulsar!Resting, Pulsar!vars
<1> QED
  BY <1>1, <1>2, <1>3, <1>4, <1>5, <1>6, <1>7, <1>8, <1>9, <1>10, <1>11, <1>12, <1>13, <1>14, <1>15, <1>16, <1>17
  DEF Pulsar!Next, Pulsar!ConsumeStep

-----------------------------------------------------------------------------
(* RocketMQ.                                                               *)

\* What the module of the consumer takes from Consumer and FiniteSets.
LEMMA RocketNames ==
  /\ Rocket!Messages = Messages
  /\ \A S : Rocket!Cardinality(S) = Cardinality(S)
<1>1. Rocket!Messages = Messages
  BY DEF Rocket!Messages, Messages
<1>2. \A S : Rocket!Cardinality(S) = Cardinality(S)
  BY Zenon DEF Rocket!Cardinality, Cardinality
<1> QED
  BY <1>1, <1>2

LEMMA RocketCommon ==
  ASSUME Common, RocketInv, Rocket!Next
  PROVE  Common'
<1>0. /\ batch \subseteq Messages /\ handled \subseteq Messages
      /\ left \in [1 .. MaxRuns -> SUBSET Messages]
  BY RocketNames DEF RocketInv, Rocket!TypeOK
<1> USE Bounds DEF Common, CommonTypeOK,
        Rocket!own, Rocket!broker, Rocket!stops, Rocket!consume, Rocket!history, Rocket!common
<1>1. CASE Rocket!Consume
  <2>1. runs \in 0 .. MaxRuns /\ runs < MaxRuns /\ runs' = runs + 1
    BY <1>1 DEF Rocket!Consume, Rocket!Called
  <2>2. runs' \in 0 .. MaxRuns
    BY <2>1, Bounds, OneMore, Zenon
  <2> QED
    BY <1>1, <2>2, CommonKeeps DEF Rocket!Consume, Rocket!Called
<1>2. CASE Rocket!Start
  BY <1>2, <1>0, CommonKeeps DEF Rocket!Start, Rocket!Goes, Rocket!Returns
<1>3. CASE Rocket!Stop
  BY <1>3, <1>0, CommonKeeps DEF Rocket!Stop, Rocket!Goes
<1>4. CASE Rocket!Shutdown
  <2>1. backlog' \subseteq Messages
    BY <1>4, <1>0 DEF Rocket!Shutdown
  <2> QED
    BY <1>4, <2>1, CommonKeeps DEF Rocket!Shutdown, Rocket!Goes
<1>5. CASE Rocket!Leave
  BY <1>5, <1>0, CommonKeeps DEF Rocket!Leave, Rocket!Returns
<1>6. CASE \E r \in 1 .. MaxRuns : Rocket!Callback(r)
  <2>1. PICK r \in 1 .. MaxRuns : Rocket!Callback(r)
    BY <1>6
  <2>2. PICK m \in left[r], d \in Rocket!Dispositions : Rocket!processMessage(m, d)
    BY <2>1 DEF Rocket!Callback
  <2>3. m \in Messages
    BY <1>0, <2>2
  <2>4. accepted' \subseteq Messages \ Junk /\ rejects' \in 0 .. MaxRejects
    BY <2>2, <2>3 DEF Rocket!processMessage, Rocket!Dispositions
  <2>5. UNCHANGED <<backlog, pushed, delayed, library, closed, closing, msg, result, ctxDone, runs, crashes>>
    BY <2>1 DEF Rocket!Callback
  <2> QED
    BY <2>4, <2>5, CommonKeeps
<1>7. CASE Rocket!Succeeds
  BY <1>7, <1>0, CommonKeeps DEF Rocket!Succeeds
<1>8. CASE Rocket!RetriesLater
  BY <1>8, <1>0, CommonKeeps DEF Rocket!RetriesLater
<1>9. CASE Rocket!Dispatch
  BY <1>9, <1>0, CommonKeeps DEF Rocket!Dispatch
<1>10. CASE Rocket!StoresOffset
  BY <1>10, <1>0, CommonKeeps DEF Rocket!StoresOffset
<1>11. CASE Rocket!Close
  BY <1>11, <1>0, CommonKeeps DEF Rocket!Close, Rocket!TakesClose
<1>12. CASE Rocket!CloseDone
  BY <1>12, <1>0, CommonKeeps DEF Rocket!CloseDone
<1>13. CASE Rocket!Cancel
  BY <1>13, <1>0, CommonKeeps DEF Rocket!Cancel, Rocket!CancelContext
<1>14. CASE Rocket!Crash
  <2>1. crashes \in 0 .. MaxCrashes /\ crashes < MaxCrashes /\ crashes' = crashes + 1
    BY <1>14 DEF Rocket!Crash, Rocket!Killed
  <2>2. crashes' \in 0 .. MaxCrashes
    BY <2>1, Bounds, OneMore, Zenon
  <2> QED
    BY <1>14, <1>0, <2>2, CommonKeeps DEF Rocket!Crash, Rocket!Killed
<1>15. CASE Rocket!Resting
  BY <1>15, <1>0, CommonKeeps DEF Rocket!Resting, Rocket!vars
<1> QED
  BY <1>1, <1>2, <1>3, <1>4, <1>5, <1>6, <1>7, <1>8, <1>9, <1>10, <1>11, <1>12, <1>13, <1>14, <1>15
  DEF Rocket!Next, Rocket!ConsumeStep, Rocket!CallbackStep

LEMMA EmptyBatch == Cardinality({}) <= MaxBatch
  BY FS_EmptySet, Bounds

LEMMA RocketKeeps ==
  ASSUME Common, RocketInv, Rocket!Next
  PROVE  RocketInv'
<1> USE Bounds, RocketNames DEF Common, CommonTypeOK, RocketInv, Rocket!TypeOK, Rocket!Kept, Done,
        Rocket!own, Rocket!broker, Rocket!stops, Rocket!consume, Rocket!history, Rocket!common
<1>1. CASE Rocket!Consume
  BY <1>1 DEF Rocket!Consume, Rocket!Called
<1>2. CASE Rocket!Start
  BY <1>2 DEF Rocket!Start, Rocket!Goes, Rocket!Returns
<1>3. CASE Rocket!Stop
  BY <1>3 DEF Rocket!Stop, Rocket!Goes
<1>4. CASE Rocket!Shutdown
  <2>1. PICK stored \in SUBSET handled : backlog' = backlog \cup batch \cup (handled \ stored)
    BY <1>4 DEF Rocket!Shutdown
  <2>2. Cardinality(batch') <= MaxBatch /\ batch' = {} /\ rejected' = FALSE
    BY <1>4, EmptyBatch DEF Rocket!Shutdown
  <2>3. Messages \subseteq backlog' \cup Done
    BY <2>1
  <2> QED
    BY <1>4, <2>2, <2>3 DEF Rocket!Shutdown, Rocket!Goes
<1>5. CASE Rocket!Leave
  BY <1>5 DEF Rocket!Leave, Rocket!Returns
<1>6. CASE \E r \in 1 .. MaxRuns : Rocket!Callback(r)
  <2>1. PICK r \in 1 .. MaxRuns : Rocket!Callback(r)
    BY <1>6
  <2>2. PICK m \in left[r], d \in Rocket!Dispositions :
          /\ Rocket!processMessage(m, d)
          /\ left' = [left EXCEPT ![r] = IF d = "retry" THEN {} ELSE @ \ {m}]
          /\ rejected' = IF Rocket!Live(r) THEN d = "retry" ELSE rejected
    BY <2>1 DEF Rocket!Callback
  <2>3. UNCHANGED <<backlog, library, pc, runs, handled, batch>>
    BY <2>1 DEF Rocket!Callback
  <2>4. /\ left'[r] \subseteq left[r] /\ (d = "retry" => left'[r] = {})
        /\ (d # "retry" => left'[r] = left[r] \ {m})
        /\ \A q \in 1 .. MaxRuns : q # r => left'[q] = left[q]
        /\ left' \in [1 .. MaxRuns -> SUBSET Messages]
    <3>1. left \in [1 .. MaxRuns -> SUBSET Messages]
      OBVIOUS
    <3> QED
      BY <2>2, <3>1
  <2>5. d \in {"ack", "retry"} /\ accepted \subseteq accepted' /\ (d = "ack" => {m} \subseteq accepted' \cup Junk)
    BY <2>2 DEF Rocket!processMessage, Rocket!Dispositions
  <2>6. CASE Rocket!Live(r)
    <3>1. r = runs /\ library = "open" /\ m \in batch /\ ~rejected
      BY <2>6 DEF Rocket!Live
    <3>2. rejected' = (d = "retry")
      BY <2>2, <2>6
    <3> QED
      BY <2>3, <2>4, <2>5, <3>1, <3>2
  <2>7. CASE ~Rocket!Live(r)
    <3>1. rejected' = rejected /\ (library = "open" => r # runs)
      BY <2>2, <2>7 DEF Rocket!Live
    <3> QED
      BY <2>3, <2>4, <2>5, <3>1
  <2> QED
    BY <2>6, <2>7
<1>7. CASE Rocket!Succeeds
  <2>1. Cardinality(batch') <= MaxBatch /\ batch' = {} /\ ~rejected'
    BY <1>7, EmptyBatch DEF Rocket!Succeeds
  <2>2. library = "open" /\ batch \subseteq Done
    BY <1>7 DEF Rocket!Succeeds
  <2> QED
    BY <1>7, <2>1, <2>2 DEF Rocket!Succeeds
<1>8. CASE Rocket!RetriesLater
  <2>1. Cardinality(batch') <= MaxBatch /\ batch' = {} /\ ~rejected'
    BY <1>8, EmptyBatch DEF Rocket!RetriesLater
  <2>2. library = "open" /\ left[runs] = {}
    BY <1>8 DEF Rocket!RetriesLater
  <2> QED
    BY <1>8, <2>1, <2>2 DEF Rocket!RetriesLater
<1>9. CASE Rocket!Dispatch
  <2>1. PICK S \in SUBSET backlog :
          Cardinality(S) \in 1 .. MaxBatch /\ backlog' = backlog \ S /\ batch' = S
            /\ left' = [left EXCEPT ![runs] = S]
    BY <1>9 DEF Rocket!Dispatch
  <2>2. Cardinality(batch') <= MaxBatch
    BY <2>1
  <2>3. runs \in 1 .. MaxRuns /\ library = "open" /\ ~rejected /\ batch = {}
    BY <1>9 DEF Rocket!Dispatch
  <2>4. S # {}
    <3>1. Cardinality({}) = 0
      BY FS_EmptySet
    <3>2. Cardinality(S) # 0
      BY <2>1
    <3> QED
      BY <3>1, <3>2
  <2>5. /\ left'[runs] = S /\ left' \in [1 .. MaxRuns -> SUBSET Messages]
        /\ \A r \in 1 .. MaxRuns : r # runs => left'[r] = left[r]
    BY <2>1, <2>3
  <2> QED
    BY <1>9, <2>1, <2>2, <2>3, <2>4, <2>5 DEF Rocket!Dispatch
<1>10. CASE Rocket!StoresOffset
  BY <1>10 DEF Rocket!StoresOffset
<1>11. CASE Rocket!Close
  BY <1>11 DEF Rocket!Close, Rocket!TakesClose
<1>12. CASE Rocket!CloseDone
  BY <1>12 DEF Rocket!CloseDone
<1>13. CASE Rocket!Cancel
  BY <1>13 DEF Rocket!Cancel, Rocket!CancelContext
<1>14. CASE Rocket!Crash
  <2>1. Cardinality(batch') <= MaxBatch /\ batch' = {} /\ ~rejected' /\ handled' = {}
    BY <1>14, EmptyBatch DEF Rocket!Crash
  <2>2. left' \in [1 .. MaxRuns -> SUBSET Messages] /\ \A r \in 1 .. MaxRuns : left'[r] = {}
    BY <1>14 DEF Rocket!Crash
  <2>3. library' = "none" /\ pc' = "idle" /\ UNCHANGED <<runs, accepted>>
    BY <1>14 DEF Rocket!Crash, Rocket!Killed
  <2>4. backlog' = backlog \cup batch \cup handled
    BY <1>14 DEF Rocket!Crash
  <2> QED
    BY <2>1, <2>2, <2>3, <2>4
<1>15. CASE Rocket!Resting
  BY <1>15 DEF Rocket!Resting, Rocket!vars
<1> QED
  BY <1>1, <1>2, <1>3, <1>4, <1>5, <1>6, <1>7, <1>8, <1>9, <1>10, <1>11, <1>12, <1>13, <1>14, <1>15
  DEF Rocket!Next, Rocket!ConsumeStep, Rocket!CallbackStep

LEMMA RocketMoves ==
  ASSUME Common, RocketInv, Rocket!Next
  PROVE  Moves(Rocket!Kept, Rocket!Kept')
<1> USE RocketNames DEF Moves, Common, CommonTypeOK, RocketInv, Rocket!TypeOK, Rocket!Kept, Done,
        Rocket!own, Rocket!broker, Rocket!stops, Rocket!consume, Rocket!history, Rocket!common
<1>1. CASE Rocket!Consume
  BY <1>1 DEF Rocket!Consume, Rocket!Called
<1>2. CASE Rocket!Start
  BY <1>2 DEF Rocket!Start, Rocket!Goes, Rocket!Returns
<1>3. CASE Rocket!Stop
  BY <1>3 DEF Rocket!Stop, Rocket!Goes
<1>4. CASE Rocket!Shutdown
  <2>1. PICK stored \in SUBSET handled : backlog' = backlog \cup batch \cup (handled \ stored)
    BY <1>4 DEF Rocket!Shutdown
  <2>2. handled' = {} /\ batch' = {} /\ accepted' = accepted
    BY <1>4 DEF Rocket!Shutdown
  <2> DEFINE S == stored \ (backlog \cup batch)
  <2>3. S \in SUBSET (Rocket!Kept \cap Done) /\ Rocket!Kept' = Rocket!Kept \ S
    BY <2>1, <2>2
  <2> QED
    BY <2>2, <2>3
<1>5. CASE Rocket!Leave
  BY <1>5 DEF Rocket!Leave, Rocket!Returns
<1>6. CASE \E r \in 1 .. MaxRuns : Rocket!Callback(r)
  <2>1. PICK r \in 1 .. MaxRuns : Rocket!Callback(r)
    BY <1>6
  <2>2. PICK m \in left[r], d \in Rocket!Dispositions : Rocket!processMessage(m, d)
    BY <2>1 DEF Rocket!Callback
  <2>3. Rocket!Kept' = Rocket!Kept
    BY <2>1 DEF Rocket!Callback
  <2>4. m \in Rocket!Kept \cup accepted \cup Junk
    BY <2>2
  <2>5. accepted' = accepted \/ accepted' = accepted \cup ({m} \ Junk)
    BY <2>2 DEF Rocket!processMessage
  <2>6. CASE m \in accepted \cup Junk
    <3>1. accepted \cup ({m} \ Junk) = accepted
      BY <2>6
    <3> QED
      BY <2>3, <2>5, <3>1
  <2>7. CASE m \in Rocket!Kept \ Junk
    <3>1. accepted' = accepted \/ accepted' = accepted \cup {m}
      BY <2>5, <2>7
    <3> QED
      BY <2>3, <2>7, <3>1
  <2> QED
    BY <2>4, <2>6, <2>7
<1>7. CASE Rocket!Succeeds
  BY <1>7 DEF Rocket!Succeeds
<1>8. CASE Rocket!RetriesLater
  BY <1>8 DEF Rocket!RetriesLater
<1>9. CASE Rocket!Dispatch
  BY <1>9 DEF Rocket!Dispatch
<1>10. CASE Rocket!StoresOffset
  <2>1. PICK m \in handled : handled' = handled \ {m}
    BY <1>10 DEF Rocket!StoresOffset
  <2>2. backlog' = backlog /\ batch' = batch /\ accepted' = accepted
    BY <1>10 DEF Rocket!StoresOffset
  <2> DEFINE S == {m} \ (backlog \cup batch)
  <2>3. S \in SUBSET (Rocket!Kept \cap Done) /\ Rocket!Kept' = Rocket!Kept \ S
    BY <2>1, <2>2
  <2> QED
    BY <2>2, <2>3
<1>11. CASE Rocket!Close
  BY <1>11 DEF Rocket!Close, Rocket!TakesClose
<1>12. CASE Rocket!CloseDone
  BY <1>12 DEF Rocket!CloseDone
<1>13. CASE Rocket!Cancel
  BY <1>13 DEF Rocket!Cancel, Rocket!CancelContext
<1>14. CASE Rocket!Crash
  BY <1>14 DEF Rocket!Crash, Rocket!Killed
<1>15. CASE Rocket!Resting
  BY <1>15 DEF Rocket!Resting, Rocket!vars
<1> QED
  BY <1>1, <1>2, <1>3, <1>4, <1>5, <1>6, <1>7, <1>8, <1>9, <1>10, <1>11, <1>12, <1>13, <1>14, <1>15
  DEF Rocket!Next, Rocket!ConsumeStep, Rocket!CallbackStep

-----------------------------------------------------------------------------
(* Redis.                                                                  *)

\* What the module of the consumer takes from Consumer and from the libraries.
LEMMA RedisNames ==
  /\ Redis!Messages = Messages
  /\ \A S : Redis!Cardinality(S) = Cardinality(S)
  /\ \A s : Redis!ToSet(s) = {s[i] : i \in DOMAIN s}
  /\ \A s : Redis!Last(s) = s[Len(s)]
  /\ \A s : Redis!Front(s) = SubSeq(s, 1, Len(s) - 1)
<1>1. Redis!Messages = Messages
  BY DEF Redis!Messages, Messages
<1>2. \A S : Redis!Cardinality(S) = Cardinality(S)
  BY Zenon DEF Redis!Cardinality, Cardinality
<1>3. \A s : Redis!ToSet(s) = {s[i] : i \in DOMAIN s}
  BY DEF Redis!ToSet
<1>4. \A s : Redis!Last(s) = s[Len(s)]
  BY DEF Redis!Last
<1>5. \A s : Redis!Front(s) = SubSeq(s, 1, Len(s) - 1)
  BY DEF Redis!Front
<1> QED
  BY <1>1, <1>2, <1>3, <1>4, <1>5

\* The answer on its way is one message, and none is then in hand.
LEMMA ReplyIsOne ==
  ASSUME RedisInv
  PROVE  /\ reply = << >> => Redis!ToSet(reply) = {}
         /\ reply # << >> => (\E m \in Messages : Redis!ToSet(reply) = {m}) /\ msg = {}
         /\ Redis!ToSet(<< >>) = {}
         /\ list \in Seq(Messages) /\ Redis!ToSet(list) \subseteq Messages
<1>1. reply \in Seq(Messages) /\ Len(reply) <= 1 /\ list \in Seq(Messages)
  BY RedisNames DEF RedisInv, Redis!TypeOK
<1>2. Redis!ToSet(<< >>) = {}
  BY RedisNames
<1>3. ASSUME reply # << >>
      PROVE  \E m \in Messages : Redis!ToSet(reply) = {m}
  <2>1. Len(reply) = 1 /\ DOMAIN reply = 1 .. Len(reply)
    <3>1. PICK n \in Nat \ {0} : n = Len(reply)
      BY <1>1, <1>3, EmptySeq
    <3>2. DOMAIN reply = 1 .. Len(reply)
      BY <1>1, LenProperties
    <3>3. n <= 1
      BY <1>1, <3>1
    <3> QED
      BY <3>1, <3>2, <3>3
  <2>2. reply[1] \in Messages
    BY <1>1, <2>1
  <2>3. DOMAIN reply = {1}
    BY <2>1
  <2>4. Redis!ToSet(reply) = {reply[1]}
    BY <2>3, RedisNames
  <2> QED
    BY <2>2, <2>4
<1>4. reply # << >> => msg = {}
  BY DEF RedisInv, Redis!TypeOK
<1>5. Redis!ToSet(list) \subseteq Messages
  <2>1. \A i \in DOMAIN list : list[i] \in Messages
    BY <1>1, LenProperties
  <2> QED
    BY <2>1, RedisNames
<1> QED
  BY <1>1, <1>2, <1>3, <1>4, <1>5

LEMMA RedisCommon ==
  ASSUME Common, RedisInv, Redis!Next
  PROVE  Common'
<1>0. reply # << >> => \E m \in Messages : Redis!ToSet(reply) = {m}
  BY ReplyIsOne
<1> USE Bounds, RedisNames DEF Common, CommonTypeOK,
        Redis!own, Redis!broker, Redis!stops, Redis!consume, Redis!history, Redis!common
<1>1. CASE Redis!Send
  BY <1>1, CommonKeeps DEF Redis!Send
<1>2. CASE Redis!Consume
  <2>1. runs \in 0 .. MaxRuns /\ runs < MaxRuns /\ runs' = runs + 1
    BY <1>2 DEF Redis!Consume, Redis!Called
  <2>2. runs' \in 0 .. MaxRuns
    BY <2>1, Bounds, OneMore, Zenon
  <2> QED
    BY <1>2, <2>2, CommonKeeps DEF Redis!Consume, Redis!Called
<1>3. CASE Redis!Loop
  BY <1>3, CommonKeeps DEF Redis!Loop, Redis!Returns, Redis!Goes
<1>4. CASE Redis!Popped
  BY <1>4, <1>0, CommonKeeps DEF Redis!Popped, Redis!Goes
<1>5. CASE Redis!TimesOut
  BY <1>5, CommonKeeps DEF Redis!TimesOut, Redis!Goes
<1>6. CASE Redis!Failed
  BY <1>6, CommonKeeps DEF Redis!Failed, Redis!Returns
<1>7. CASE Redis!Process
  <2>1. PICK m \in msg, d \in Redis!Dispositions : Redis!processMessage(m, d)
    BY <1>7 DEF Redis!Process
  <2>2. accepted' \subseteq Messages \ Junk /\ rejects' \in 0 .. MaxRejects
    BY <2>1 DEF Redis!processMessage, Redis!Dispositions
  <2> QED
    BY <1>7, <2>2, CommonKeeps DEF Redis!Process, Redis!Goes
<1>8. CASE Redis!BRPop
  BY <1>8, CommonKeeps DEF Redis!BRPop
<1>9. CASE Redis!ReplyIsLost
  BY <1>9, CommonKeeps DEF Redis!ReplyIsLost, Redis!Goes
<1>10. CASE Redis!PopFails
  BY <1>10, CommonKeeps DEF Redis!PopFails, Redis!Goes
<1>11. CASE Redis!Close
  BY <1>11, CommonKeeps DEF Redis!Close, Redis!TakesClose
<1>12. CASE Redis!CloseClient
  BY <1>12, CommonKeeps DEF Redis!CloseClient
<1>13. CASE Redis!Cancel
  BY <1>13, CommonKeeps DEF Redis!Cancel, Redis!CancelContext
<1>14. CASE Redis!Crash
  <2>1. crashes \in 0 .. MaxCrashes /\ crashes < MaxCrashes /\ crashes' = crashes + 1
    BY <1>14 DEF Redis!Crash, Redis!Killed
  <2>2. crashes' \in 0 .. MaxCrashes
    BY <2>1, Bounds, OneMore, Zenon
  <2> QED
    BY <1>14, <2>2, CommonKeeps DEF Redis!Crash, Redis!Killed
<1>15. CASE Redis!Resting
  BY <1>15, CommonKeeps DEF Redis!Resting, Redis!vars
<1> QED
  BY <1>1, <1>2, <1>3, <1>4, <1>5, <1>6, <1>7, <1>8, <1>9, <1>10, <1>11, <1>12, <1>13, <1>14, <1>15
  DEF Redis!Next, Redis!ConsumeStep

\* LPUSH.
LEMMA Pushing ==
  ASSUME NEW s \in Seq(Messages), NEW x \in Messages
  PROVE  /\ <<x>> \o s \in Seq(Messages)
         /\ DOMAIN (<<x>> \o s) = 1 .. (Len(s) + 1)
         /\ (<<x>> \o s)[1] = x
         /\ \A i \in 2 .. (Len(s) + 1) : i - 1 \in DOMAIN s /\ (<<x>> \o s)[i] = s[i - 1]
         /\ Redis!ToSet(<<x>> \o s) = Redis!ToSet(s) \cup {x}
<1> DEFINE t == <<x>> \o s
<1>1. <<x>> \in Seq(Messages) /\ Len(<<x>>) = 1 /\ <<x>>[1] = x
  OBVIOUS
<1>2. Len(s) \in Nat /\ DOMAIN s = 1 .. Len(s)
  BY LenProperties
<1>3. /\ t \in Seq(Messages) /\ Len(t) = Len(s) + 1
      /\ \A i \in 1 .. (Len(s) + 1) : t[i] = IF i <= 1 THEN <<x>>[i] ELSE s[i - 1]
  BY <1>1, <1>2, ConcatProperties
<1>4. DOMAIN t = 1 .. (Len(s) + 1)
  BY <1>3, LenProperties
<1>5. t[1] = x
  BY <1>1, <1>2, <1>3
<1>6. \A i \in 2 .. (Len(s) + 1) : i - 1 \in DOMAIN s /\ t[i] = s[i - 1]
  <2>1. \A i \in 2 .. (Len(s) + 1) : i - 1 \in 1 .. Len(s) /\ i \in 1 .. (Len(s) + 1) /\ ~(i <= 1)
    BY <1>2
  <2> QED
    BY <1>2, <1>3, <2>1
<1> HIDE DEF t
<1>7. Redis!ToSet(t) = Redis!ToSet(s) \cup {x}
  <2>1. Redis!ToSet(t) = {t[i] : i \in DOMAIN t} /\ Redis!ToSet(s) = {s[i] : i \in DOMAIN s}
    BY RedisNames
  <2>2. ASSUME NEW i \in DOMAIN t
        PROVE  t[i] \in Redis!ToSet(s) \cup {x}
    <3>1. i = 1 \/ i \in 2 .. (Len(s) + 1)
      BY <1>2, <1>4, <2>2
    <3> QED
      BY <1>5, <1>6, <2>1, <3>1
  <2>3. ASSUME NEW i \in DOMAIN s
        PROVE  \E j \in DOMAIN t : t[j] = s[i]
    <3>1. i + 1 \in 2 .. (Len(s) + 1) /\ i + 1 \in DOMAIN t /\ (i + 1) - 1 = i
      BY <1>2, <1>4, <2>3
    <3> QED
      BY <1>6, <3>1
  <2>4. 1 \in DOMAIN t
    BY <1>2, <1>4
  <2> QED
    BY <1>5, <2>1, <2>2, <2>3, <2>4
<1> QED
  BY <1>3, <1>4, <1>5, <1>6, <1>7 DEF t

\* BRPOP.
LEMMA Popping ==
  ASSUME NEW s \in Seq(Messages), s # << >>
  PROVE  /\ Redis!Front(s) \in Seq(Messages)
         /\ \A i \in DOMAIN Redis!Front(s) : i \in DOMAIN s /\ i < Len(s) /\ Redis!Front(s)[i] = s[i]
         /\ Len(s) \in DOMAIN s /\ DOMAIN s = 1 .. Len(s) /\ Redis!Last(s) = s[Len(s)]
         /\ Redis!ToSet(s) = Redis!ToSet(Redis!Front(s)) \cup {Redis!Last(s)}
         /\ <<Redis!Last(s)>> \in Seq(Messages) /\ Len(<<Redis!Last(s)>>) = 1
         /\ Redis!ToSet(<<Redis!Last(s)>>) = {Redis!Last(s)}
<1> DEFINE t == Redis!Front(s)
           x == Redis!Last(s)
<1>1. PICK n \in Nat : n = Len(s)
  BY LenProperties
<1>2. n >= 1 /\ DOMAIN s = 1 .. n /\ n \in DOMAIN s /\ \A i \in 1 .. n : s[i] \in Messages
  <2>1. n # 0
    BY <1>1, EmptySeq
  <2>2. DOMAIN s = 1 .. n /\ s \in [1 .. n -> Messages]
    BY <1>1, LenProperties
  <2> QED
    BY <2>1, <2>2
<1>3. t = SubSeq(s, 1, n - 1) /\ x = s[n]
  BY <1>1, RedisNames
<1>4. /\ t \in Seq(Messages) /\ Len(t) = n - 1
      /\ \A i \in 1 .. (n - 1) : t[i] = s[i]
  <2>1. 1 \in Int /\ n - 1 \in Int /\ \A i \in 1 .. (n - 1) : s[i] \in Messages
    BY <1>2
  <2>2. /\ SubSeq(s, 1, n - 1) \in Seq(Messages)
        /\ Len(SubSeq(s, 1, n - 1)) = IF 1 <= n - 1 THEN (n - 1) - 1 + 1 ELSE 0
        /\ \A i \in 1 .. (n - 1) - 1 + 1 : SubSeq(s, 1, n - 1)[i] = s[1 + i - 1]
    BY <2>1, SubSeqProperties
  <2>3. (n - 1) - 1 + 1 = n - 1 /\ \A i \in 1 .. (n - 1) : 1 + i - 1 = i
    BY <1>2
  <2> QED
    BY <1>2, <1>3, <2>2, <2>3
<1>5. DOMAIN t = 1 .. (n - 1)
  BY <1>4, LenProperties
<1>6. <<x>> \in Seq(Messages) /\ Len(<<x>>) = 1 /\ Redis!ToSet(<<x>>) = {x}
  <2>1. x \in Messages
    BY <1>2, <1>3
  <2>2. <<x>> \in Seq(Messages) /\ Len(<<x>>) = 1 /\ DOMAIN <<x>> = {1} /\ <<x>>[1] = x
    BY <2>1
  <2> QED
    BY <2>2, RedisNames
<1> HIDE DEF t, x
<1>7. \A i \in DOMAIN t : i \in DOMAIN s /\ i < n /\ t[i] = s[i]
  BY <1>2, <1>4, <1>5
<1>8. Redis!ToSet(s) = Redis!ToSet(t) \cup {x}
  <2>1. Redis!ToSet(t) = {t[i] : i \in DOMAIN t} /\ Redis!ToSet(s) = {s[i] : i \in DOMAIN s}
    BY RedisNames
  <2>2. \A i \in DOMAIN s : i = n \/ i \in DOMAIN t
    BY <1>2, <1>5
  <2>3. \A i \in DOMAIN s : s[i] \in Redis!ToSet(t) \cup {x}
    BY <1>3, <1>7, <2>1, <2>2
  <2> QED
    BY <1>2, <1>3, <1>7, <2>1, <2>3
<1> QED
  BY <1>1, <1>2, <1>3, <1>4, <1>6, <1>7, <1>8 DEF t, x

\* The types of the consumer, and the client is closed by Close alone.
LEMMA RedisTyped ==
  ASSUME Common, RedisInv, Redis!Next
  PROVE  Redis!TypeOK' /\ (library' = "closed" <=> closing' = "done")
<1>0. << >> \in Seq(Messages) /\ Len(<< >>) = 0
  BY EmptySeq
<1> USE Bounds, RedisNames, <1>0 DEF Common, CommonTypeOK, RedisInv, Redis!TypeOK,
        Redis!own, Redis!broker, Redis!stops, Redis!consume, Redis!history, Redis!common
<1>1. CASE Redis!Send
  <2>1. sent + 1 \in Messages /\ sent + 1 \in 0 .. N
    BY <1>1 DEF Redis!Send, Messages
  <2>2. list' \in Seq(Messages)
    <3>1. list \in Seq(Messages) /\ list' = <<sent + 1>> \o list
      BY <1>1 DEF Redis!Send
    <3> QED
      BY <2>1, <3>1, Pushing
  <2>3. sent' \in 0 .. N /\ breaks' \in 0 .. MaxBreaks
    <3>1. sent \in 0 .. N /\ breaks \in 0 .. MaxBreaks
      OBVIOUS
    <3>2. CASE sent' = sent + 1 /\ UNCHANGED breaks
      BY <2>1, <3>1, <3>2
    <3>3. CASE breaks < MaxBreaks /\ breaks' = breaks + 1 /\ UNCHANGED sent
      <4>1. breaks' \in 0 .. MaxBreaks
        BY <3>1, <3>3, Bounds, OneMore, Zenon
      <4> QED
        BY <3>1, <3>3, <4>1
    <3> QED
      BY <1>1, <3>2, <3>3 DEF Redis!Send
  <2>4. UNCHANGED <<library, closing, pc, msg, reply>>
    BY <1>1 DEF Redis!Send
  <2> QED
    BY <2>2, <2>3, <2>4
<1>2. CASE Redis!Consume
  BY <1>2 DEF Redis!Consume, Redis!Called
<1>3. CASE Redis!Loop
  BY <1>3 DEF Redis!Loop, Redis!Returns, Redis!Goes
<1>4. CASE Redis!Popped
  BY <1>4 DEF Redis!Popped, Redis!Goes
<1>5. CASE Redis!TimesOut
  BY <1>5 DEF Redis!TimesOut, Redis!Goes
<1>6. CASE Redis!Failed
  BY <1>6 DEF Redis!Failed, Redis!Returns
<1>7. CASE Redis!Process
  BY <1>7 DEF Redis!Process, Redis!Goes
<1>8. CASE Redis!BRPop
  <2>1. list \in Seq(Messages) /\ list # << >>
    BY <1>8 DEF Redis!BRPop
  <2>2. list' \in Seq(Messages) /\ reply' \in Seq(Messages) /\ Len(reply') = 1
    BY <1>8, <2>1, Popping DEF Redis!BRPop
  <2>3. pc = "pop" /\ msg = {} /\ UNCHANGED <<library, closing, pc, msg, sent, breaks>>
    BY <1>8 DEF Redis!BRPop
  <2> QED
    BY <2>2, <2>3
<1>9. CASE Redis!ReplyIsLost
  BY <1>9 DEF Redis!ReplyIsLost, Redis!Goes
<1>10. CASE Redis!PopFails
  BY <1>10 DEF Redis!PopFails, Redis!Goes
<1>11. CASE Redis!Close
  BY <1>11 DEF Redis!Close, Redis!TakesClose
<1>12. CASE Redis!CloseClient
  BY <1>12 DEF Redis!CloseClient
<1>13. CASE Redis!Cancel
  BY <1>13 DEF Redis!Cancel, Redis!CancelContext
<1>14. CASE Redis!Crash
  BY <1>14 DEF Redis!Crash, Redis!Killed
<1>15. CASE Redis!Resting
  BY <1>15 DEF Redis!Resting, Redis!vars
<1> QED
  BY <1>1, <1>2, <1>3, <1>4, <1>5, <1>6, <1>7, <1>8, <1>9, <1>10, <1>11, <1>12, <1>13, <1>14, <1>15
  DEF Redis!Next, Redis!ConsumeStep

\* What a step that neither sends, pops nor handles does to the order: nothing.
LEMMA SortedStays ==
  ASSUME Sorted, UNCHANGED <<list, sent, accepted>>,
         Redis!ToSet(reply') \cup msg' \subseteq Redis!ToSet(reply) \cup msg
  PROVE  Sorted'
  BY DEF Sorted

LEMMA RedisSorted ==
  ASSUME Common, RedisInv, Redis!Next
  PROVE  Sorted'
<1>0. Sorted /\ Redis!ToSet(<< >>) = {}
  BY ReplyIsOne DEF RedisInv
<1> USE <1>0 DEF Redis!own, Redis!broker, Redis!stops, Redis!consume, Redis!history, Redis!common
<1>1. CASE Redis!Send
  <2>1. sent \in Nat /\ sent + 1 \in Messages /\ list \in Seq(Messages)
    BY <1>1, Bounds, RedisNames DEF Redis!Send, Messages, RedisInv, Redis!TypeOK
  <2>2. list' = <<sent + 1>> \o list /\ UNCHANGED <<reply, msg, accepted>>
    BY <1>1 DEF Redis!Send
  <2>3. sent' \in Nat /\ sent <= sent'
    BY <1>1, <2>1 DEF Redis!Send
  <2>4. PICK n \in Nat : n = Len(list)
    BY <2>1, LenProperties
  <2>5. /\ DOMAIN list' = 1 .. (n + 1)
        /\ list'[1] = sent + 1
        /\ \A i \in 2 .. (n + 1) : i - 1 \in DOMAIN list /\ list'[i] = list[i - 1]
        /\ Redis!ToSet(list') = Redis!ToSet(list) \cup {sent + 1}
    BY <2>1, <2>2, <2>4, Pushing
  <2>6. \A i \in DOMAIN list' : i = 1 \/ i \in 2 .. (n + 1)
    BY <2>4, <2>5
  <2>7. /\ Redis!ToSet(list) \subseteq Nat /\ Redis!ToSet(reply) \subseteq Nat
        /\ msg \subseteq Nat /\ accepted \subseteq Nat
    <3>1. Messages \subseteq Nat
      BY Bounds DEF Messages
    <3>2. Redis!ToSet(list) \subseteq Messages /\ Redis!ToSet(reply) \subseteq Messages
      BY ReplyIsOne
    <3> QED
      BY <3>1, <3>2 DEF Common, CommonTypeOK
  <2>8. \A m \in Redis!ToSet(list) \cup Redis!ToSet(reply) \cup msg \cup accepted : m <= sent + 1
    BY DEF Sorted
  <2>9. \A i \in DOMAIN list : list[i] \in Redis!ToSet(list)
    BY RedisNames
  <2>10. ASSUME NEW i \in DOMAIN list', NEW j \in DOMAIN list', i < j
         PROVE  list'[i] >= list'[j]
    <3>1. j \in 2 .. (n + 1)
      BY <2>4, <2>5, <2>6, <2>10
    <3>2. j - 1 \in DOMAIN list /\ list'[j] = list[j - 1]
      BY <2>5, <3>1
    <3>3. CASE i = 1
      BY <2>1, <2>5, <2>7, <2>8, <2>9, <3>2, <3>3
    <3>4. CASE i \in 2 .. (n + 1)
      <4>1. i - 1 \in DOMAIN list /\ list'[i] = list[i - 1]
        BY <2>5, <3>4
      <4>2. i - 1 < j - 1
        BY <2>4, <2>10, <3>1, <3>4
      <4> QED
        BY <3>2, <4>1, <4>2 DEF Sorted
    <3> QED
      BY <2>6, <3>3, <3>4
  <2>11. ASSUME NEW i \in DOMAIN list', NEW m \in Redis!ToSet(reply) \cup msg \cup accepted
         PROVE  m <= list'[i]
    <3>1. CASE i = 1
      BY <2>5, <2>8, <3>1
    <3>2. CASE i \in 2 .. (n + 1)
      BY <2>5, <3>2 DEF Sorted
    <3> QED
      BY <2>6, <3>1, <3>2
  <2>12. ASSUME NEW m \in Redis!ToSet(list') \cup Redis!ToSet(reply) \cup msg \cup accepted
         PROVE  m <= sent' + 1
    <3>1. m \in Nat /\ m <= sent + 1
      <4>1. CASE m = sent + 1
        BY <2>1, <4>1
      <4>2. CASE m \in Redis!ToSet(list) \cup Redis!ToSet(reply) \cup msg \cup accepted
        BY <2>7, <2>8, <4>2
      <4> QED
        BY <2>5, <2>12, <4>1, <4>2
    <3>2. \A a, b, c \in Nat : a <= b + 1 /\ b <= c => a <= c + 1
      OBVIOUS
    <3> QED
      BY <2>1, <2>3, <3>1, <3>2, Zenon
  <2>13. \A m \in Redis!ToSet(reply) \cup msg : \A a \in accepted : a <= m
    BY DEF Sorted
  <2> QED
    BY <2>2, <2>10, <2>11, <2>12, <2>13 DEF Sorted
<1>2. CASE Redis!Consume
  BY <1>2, SortedStays DEF Redis!Consume, Redis!Called
<1>3. CASE Redis!Loop
  BY <1>3, SortedStays DEF Redis!Loop, Redis!Returns, Redis!Goes
<1>4. CASE Redis!Popped
  BY <1>4, SortedStays DEF Redis!Popped, Redis!Goes
<1>5. CASE Redis!TimesOut
  BY <1>5, SortedStays DEF Redis!TimesOut, Redis!Goes
<1>6. CASE Redis!Failed
  BY <1>6, SortedStays DEF Redis!Failed, Redis!Returns
<1>7. CASE Redis!Process
  <2>1. PICK m \in msg, d \in Redis!Dispositions : Redis!processMessage(m, d)
    BY <1>7 DEF Redis!Process
  <2>2. accepted' \subseteq accepted \cup msg
    BY <2>1 DEF Redis!processMessage
  <2>3. msg' = {} /\ UNCHANGED <<list, sent, reply>>
    BY <1>7 DEF Redis!Process
  <2>4. Redis!ToSet(reply) = {}
    BY <2>1, ReplyIsOne
  <2> QED
    BY <2>2, <2>3, <2>4 DEF Sorted
<1>8. CASE Redis!BRPop
  <2>1. list \in Seq(Messages) /\ list # << >> /\ msg = {}
    BY <1>8, RedisNames DEF Redis!BRPop, RedisInv, Redis!TypeOK
  <2>2. UNCHANGED <<sent, msg, accepted>>
    BY <1>8 DEF Redis!BRPop
  <2> DEFINE x == Redis!Last(list)
  <2>3. list' = Redis!Front(list) /\ Redis!ToSet(reply') = {x}
    BY <1>8, <2>1, Popping DEF Redis!BRPop
  <2>4. PICK n : n = Len(list)
    OBVIOUS
  <2>5. \A i \in DOMAIN list' : i \in DOMAIN list /\ i < n /\ list'[i] = list[i]
    BY <2>1, <2>3, <2>4, Popping
  <2>6. n \in DOMAIN list /\ x = list[n] /\ Redis!ToSet(list) = Redis!ToSet(list') \cup {x}
    BY <2>1, <2>3, <2>4, Popping
  <2> HIDE DEF x
  <2>7. \A i, j \in DOMAIN list' : i < j => list'[i] >= list'[j]
    BY <2>5 DEF Sorted
  <2>8. \A i \in DOMAIN list' : \A m \in accepted : m <= list'[i]
    BY <2>5 DEF Sorted
  <2>9. \A i \in DOMAIN list' : x <= list'[i]
    <3>1. \A i \in DOMAIN list' : list[i] >= x
      BY <2>5, <2>6 DEF Sorted
    <3>2. \A i \in DOMAIN list : list[i] \in Nat
      <4>1. \A i \in DOMAIN list : list[i] \in Redis!ToSet(list)
        BY RedisNames
      <4> QED
        BY <4>1, ReplyIsOne, Bounds DEF Messages
    <3> QED
      BY <2>5, <2>6, <3>1, <3>2
  <2>10. \A a \in accepted : a <= x
    BY <2>6 DEF Sorted
  <2>11. \A m \in Redis!ToSet(list') \cup {x} \cup accepted : m <= sent + 1
    BY <2>6 DEF Sorted
  <2> QED
    BY <2>1, <2>2, <2>3, <2>7, <2>8, <2>9, <2>10, <2>11 DEF Sorted
<1>9. CASE Redis!ReplyIsLost
  BY <1>9, SortedStays DEF Redis!ReplyIsLost, Redis!Goes
<1>10. CASE Redis!PopFails
  BY <1>10, SortedStays DEF Redis!PopFails, Redis!Goes
<1>11. CASE Redis!Close
  BY <1>11, SortedStays DEF Redis!Close, Redis!TakesClose
<1>12. CASE Redis!CloseClient
  BY <1>12, SortedStays DEF Redis!CloseClient
<1>13. CASE Redis!Cancel
  BY <1>13, SortedStays DEF Redis!Cancel, Redis!CancelContext
<1>14. CASE Redis!Crash
  BY <1>14, SortedStays DEF Redis!Crash, Redis!Killed
<1>15. CASE Redis!Resting
  BY <1>15, SortedStays DEF Redis!Resting, Redis!vars
<1> QED
  BY <1>1, <1>2, <1>3, <1>4, <1>5, <1>6, <1>7, <1>8, <1>9, <1>10, <1>11, <1>12, <1>13, <1>14, <1>15
  DEF Redis!Next, Redis!ConsumeStep

LEMMA LostIsFinite ==
  ASSUME RedisInv
  PROVE  IsFiniteSet(Redis!Lost) /\ Cardinality(Redis!Lost) \in Nat
<1>1. sent \in Int
  BY Bounds DEF RedisInv, Redis!TypeOK
<1>2. IsFiniteSet(1 .. sent)
  BY <1>1, FS_Interval
<1>3. Redis!Lost \in SUBSET (1 .. sent)
  BY DEF Redis!Lost
<1>4. IsFiniteSet(Redis!Lost)
  BY <1>2, <1>3, FS_Subset
<1> QED
  BY <1>4, FS_CardinalityType

\* As far as the set of the lost messages grows it grows by one.
LEMMA LostGrows ==
  ASSUME RedisInv, NEW X, X = {} \/ (\E m : X = {m}), Redis!Lost' \subseteq Redis!Lost \cup X
  PROVE  /\ Cardinality(Redis!Lost) \in Nat /\ Cardinality(Redis!Lost') \in Nat
         /\ Cardinality(Redis!Lost') <= Cardinality(Redis!Lost) + 1
         /\ X = {} => Cardinality(Redis!Lost') <= Cardinality(Redis!Lost)
<1> DEFINE L == Redis!Lost
           K == Redis!Lost'
<1>1. IsFiniteSet(L) /\ Cardinality(L) \in Nat
  BY LostIsFinite
<1>2. K \subseteq L \cup X
  OBVIOUS
<1> HIDE DEF L, K
<1>3. CASE X = {}
  <2>1. K \in SUBSET L
    BY <1>2, <1>3
  <2>2. IsFiniteSet(K) /\ Cardinality(K) <= Cardinality(L)
    BY <1>1, <2>1, FS_Subset
  <2>3. Cardinality(K) \in Nat
    BY <2>2, FS_CardinalityType
  <2> QED
    BY <1>1, <2>2, <2>3 DEF L, K
<1>4. ASSUME NEW m, X = {m}
      PROVE  Cardinality(K) \in Nat /\ Cardinality(K) <= Cardinality(L) + 1
  <2>1. K \in SUBSET (L \cup {m})
    BY <1>2, <1>4
  <2>2. /\ IsFiniteSet(L \cup {m})
        /\ Cardinality(L \cup {m}) = IF m \in L THEN Cardinality(L) ELSE Cardinality(L) + 1
    BY <1>1, FS_AddElement
  <2>3. IsFiniteSet(K) /\ Cardinality(K) <= Cardinality(L \cup {m})
    BY <2>1, <2>2, FS_Subset
  <2>4. Cardinality(K) \in Nat
    BY <2>3, FS_CardinalityType
  <2> QED
    BY <1>1, <2>2, <2>3, <2>4
<1>5. ASSUME NEW m, X = {m}
      PROVE  X # {}
  BY <1>5
<1> QED
  BY <1>1, <1>3, <1>4, <1>5 DEF L, K

\* A step at which nothing is lost and Close is where it was.
LEMMA FreeStep ==
  ASSUME RedisInv, Redis!Lost' \subseteq Redis!Lost \cup {}, closing = "done" /\ Held' => Held,
         closing' = "done" <=> closing = "done",
         Paid \in Nat, Paid' \in Nat, Paid <= Paid'
  PROVE  Bill'
<1>1. /\ Cardinality(Redis!Lost) \in Nat /\ Cardinality(Redis!Lost') \in Nat
      /\ Cardinality(Redis!Lost') <= Cardinality(Redis!Lost)
  BY LostGrows
<1>2. Bill
  BY DEF RedisInv
<1> QED
  BY <1>1, <1>2 DEF Bill, One

\* A step that is paid for, and may lose a message.
LEMMA PaidStep ==
  ASSUME RedisInv, NEW m, Redis!Lost' \subseteq Redis!Lost \cup {m}, Held' => Held,
         closing' = "done" <=> closing = "done",
         Paid \in Nat, Paid' = Paid + 1
  PROVE  Bill'
<1>1. /\ Cardinality(Redis!Lost) \in Nat /\ Cardinality(Redis!Lost') \in Nat
      /\ Cardinality(Redis!Lost') <= Cardinality(Redis!Lost) + 1
  BY LostGrows
<1>2. Bill
  BY DEF RedisInv
<1> QED
  BY <1>1, <1>2 DEF Bill, One

\* A closed client loses the answer that was on its way when it was closed.
LEMMA ClosedStep ==
  ASSUME RedisInv, NEW m, Redis!Lost' \subseteq Redis!Lost \cup {m}, Held, ~Held',
         closing = "done", closing' = "done",
         Paid \in Nat, Paid' = Paid
  PROVE  Bill'
<1>1. /\ Cardinality(Redis!Lost) \in Nat /\ Cardinality(Redis!Lost') \in Nat
      /\ Cardinality(Redis!Lost') <= Cardinality(Redis!Lost) + 1
  BY LostGrows
<1>2. Bill
  BY DEF RedisInv
<1> QED
  BY <1>1, <1>2 DEF Bill, One

\* The client is closed: from here on a message that is held may be lost.
LEMMA ClosingStep ==
  ASSUME RedisInv, Redis!Lost' \subseteq Redis!Lost \cup {},
         closing # "done", closing' = "done",
         Paid \in Nat, Paid' = Paid
  PROVE  Bill'
<1>1. /\ Cardinality(Redis!Lost) \in Nat /\ Cardinality(Redis!Lost') \in Nat
      /\ Cardinality(Redis!Lost') <= Cardinality(Redis!Lost)
  BY LostGrows
<1>2. Bill
  BY DEF RedisInv
<1> QED
  BY <1>1, <1>2 DEF Bill, One

\* A crash loses what is held and forgets the Close.
LEMMA CrashStep ==
  ASSUME RedisInv, NEW X, X = {} \/ (\E m : X = {m}), ~Held => X = {},
         Redis!Lost' \subseteq Redis!Lost \cup X,
         closing' # "done",
         Paid \in Nat, Paid' = Paid + 1
  PROVE  Bill'
<1>1. Bill
  BY DEF RedisInv
<1>2. CASE Held
  <2>1. /\ Cardinality(Redis!Lost) \in Nat /\ Cardinality(Redis!Lost') \in Nat
        /\ Cardinality(Redis!Lost') <= Cardinality(Redis!Lost) + 1
    BY <1>2, LostGrows
  <2> QED
    BY <1>1, <1>2, <2>1 DEF Bill, One
<1>3. CASE ~Held
  <2>1. /\ Cardinality(Redis!Lost) \in Nat /\ Cardinality(Redis!Lost') \in Nat
        /\ Cardinality(Redis!Lost') <= Cardinality(Redis!Lost)
    BY <1>3, LostGrows
  <2> QED
    BY <1>1, <1>3, <2>1 DEF Bill, One
<1> QED
  BY <1>2, <1>3

\* Nothing is lost that is not paid for.
LEMMA RedisLoses ==
  ASSUME Common, RedisInv, Redis!Next
  PROVE  Bill'
<1>0. rejects \in Nat /\ breaks \in Nat /\ crashes \in Nat /\ Paid \in Nat
  BY Bounds DEF RedisInv, Redis!TypeOK, Common, CommonTypeOK, Paid
<1> USE DEF Paid, Redis!own, Redis!broker, Redis!stops, Redis!consume, Redis!history, Redis!common
<1>1. CASE Redis!Send
  <2>1. /\ sent \in Nat /\ sent + 1 \in Messages /\ list \in Seq(Messages)
        /\ rejects \in Nat /\ breaks \in Nat /\ crashes \in Nat
    BY <1>1, Bounds, RedisNames DEF Redis!Send, Messages, RedisInv, Redis!TypeOK, Common, CommonTypeOK
  <2>2. Redis!ToSet(list') = Redis!ToSet(list) \cup {sent + 1}
    BY <1>1, <2>1, Pushing DEF Redis!Send
  <2>3. UNCHANGED <<reply, msg, accepted, closing, rejects, crashes>>
    BY <1>1 DEF Redis!Send
  <2>4. (sent' = sent + 1 \/ sent' = sent) /\ (breaks' = breaks \/ breaks' = breaks + 1)
    BY <1>1 DEF Redis!Send
  <2>5. \A k \in 1 .. sent' : k \in 1 .. sent \/ k = sent + 1
    BY <2>1, <2>4
  <2>6. Redis!Lost' \subseteq Redis!Lost \cup {}
    BY <2>2, <2>3, <2>5 DEF Redis!Lost
  <2>7. Paid <= Paid'
    BY <2>1, <2>3, <2>4
  <2>8. Paid' \in Nat
    BY <2>1, <2>3, <2>4
  <2> QED
    BY <1>0, <2>3, <2>6, <2>7, <2>8, FreeStep DEF Held
<1>2. CASE Redis!Consume
  <2>1. /\ UNCHANGED <<list, sent, reply, msg, accepted, rejects, breaks, crashes>>
        /\ closing' = "done" <=> closing = "done"
    BY <1>2 DEF Redis!Consume, Redis!Called
  <2>2. Redis!Lost' \subseteq Redis!Lost \cup {}
    BY <2>1 DEF Redis!Lost
  <2> QED
    BY <1>0, <2>1, <2>2, FreeStep DEF Held
<1>3. CASE Redis!Loop
  <2>1. /\ UNCHANGED <<list, sent, reply, msg, accepted, rejects, breaks, crashes>>
        /\ closing' = "done" <=> closing = "done"
    BY <1>3 DEF Redis!Loop, Redis!Returns, Redis!Goes
  <2>2. Redis!Lost' \subseteq Redis!Lost \cup {}
    BY <2>1 DEF Redis!Lost
  <2> QED
    BY <1>0, <2>1, <2>2, FreeStep DEF Held
<1>4. CASE Redis!Popped
  <2>1. msg' = Redis!ToSet(reply) /\ reply' = << >> /\ reply # << >>
    BY <1>4 DEF Redis!Popped
  <2>2. Redis!ToSet(reply') = {} /\ Held
    BY <2>1, ReplyIsOne DEF Held
  <2>3. UNCHANGED <<list, sent, accepted, closing, rejects, breaks, crashes>>
    BY <1>4 DEF Redis!Popped
  <2>4. msg = {}
    BY <2>1, ReplyIsOne
  <2>5. Redis!Lost' \subseteq Redis!Lost \cup {}
    BY <2>1, <2>2, <2>3, <2>4 DEF Redis!Lost
  <2> QED
    BY <1>0, <2>2, <2>3, <2>5, FreeStep
<1>5. CASE Redis!TimesOut
  <2>1. /\ UNCHANGED <<list, sent, reply, msg, accepted, rejects, breaks, crashes>>
        /\ closing' = "done" <=> closing = "done"
    BY <1>5 DEF Redis!TimesOut, Redis!Goes
  <2>2. Redis!Lost' \subseteq Redis!Lost \cup {}
    BY <2>1 DEF Redis!Lost
  <2> QED
    BY <1>0, <2>1, <2>2, FreeStep DEF Held
<1>6. CASE Redis!Failed
  <2>1. /\ UNCHANGED <<list, sent, reply, msg, accepted, rejects, breaks, crashes>>
        /\ closing' = "done" <=> closing = "done"
    BY <1>6 DEF Redis!Failed, Redis!Returns
  <2>2. Redis!Lost' \subseteq Redis!Lost \cup {}
    BY <2>1 DEF Redis!Lost
  <2> QED
    BY <1>0, <2>1, <2>2, FreeStep DEF Held
<1>7. CASE Redis!Process
  <2>1. PICK m \in msg, d \in Redis!Dispositions : Redis!processMessage(m, d)
    BY <1>7 DEF Redis!Process
  <2>2. msg' = {} /\ UNCHANGED <<list, sent, reply, closing, breaks, crashes>>
    BY <1>7 DEF Redis!Process
  <2>3. msg = {m} /\ reply = << >>
    BY <2>1, ReplyIsOne DEF Common
  <2>4. ~Held'
    BY <2>2, <2>3 DEF Held
  <2>5. CASE accepted' = accepted \cup ({m} \ Junk) /\ rejects' = rejects
    <3>1. Redis!Lost' \subseteq Redis!Lost \cup {}
      BY <2>2, <2>3, <2>5 DEF Redis!Lost
    <3> QED
      BY <1>0, <2>2, <2>4, <2>5, <3>1, FreeStep
  <2>6. CASE accepted' = accepted /\ rejects' = rejects + 1
    <3>1. Redis!Lost' \subseteq Redis!Lost \cup {m}
      BY <2>2, <2>3, <2>6 DEF Redis!Lost
    <3>2. Paid' = Paid + 1
      BY <1>0, <2>2, <2>6
    <3> QED
      BY <1>0, <2>2, <2>4, <3>1, <3>2, PaidStep
  <2> QED
    BY <2>1, <2>5, <2>6 DEF Redis!processMessage
<1>8. CASE Redis!BRPop
  <2>1. list \in Seq(Messages) /\ list # << >> /\ msg = {} /\ reply = << >> /\ library # "closed"
    BY <1>8, RedisNames DEF Redis!BRPop, RedisInv, Redis!TypeOK
  <2>2. UNCHANGED <<sent, msg, accepted, closing, rejects, breaks, crashes>>
    BY <1>8 DEF Redis!BRPop
  <2>3. closing # "done"
    BY <2>1 DEF RedisInv
  <2>4. Redis!ToSet(list) = Redis!ToSet(list') \cup Redis!ToSet(reply')
    BY <1>8, <2>1, Popping DEF Redis!BRPop
  <2>5. Redis!ToSet(reply) = {}
    BY <2>1, ReplyIsOne
  <2>6. Redis!Lost' \subseteq Redis!Lost \cup {}
    BY <2>2, <2>4, <2>5 DEF Redis!Lost
  <2> QED
    BY <1>0, <2>2, <2>3, <2>6, FreeStep
<1>9. CASE Redis!ReplyIsLost
  <2>1. PICK m : Redis!ToSet(reply) = {m}
    BY <1>9, ReplyIsOne DEF Redis!ReplyIsLost
  <2>2. UNCHANGED <<list, sent, msg, accepted, closing, rejects, crashes>> /\ breaks' = breaks + 1
    BY <1>9 DEF Redis!ReplyIsLost
  <2>3. Redis!Lost' \subseteq Redis!Lost \cup {m}
    BY <2>1, <2>2 DEF Redis!Lost
  <2>4. Held
    BY <1>9 DEF Redis!ReplyIsLost, Held
  <2>5. Paid' = Paid + 1
    BY <1>0, <2>2
  <2> QED
    BY <1>0, <2>2, <2>3, <2>4, <2>5, PaidStep
<1>10. CASE Redis!PopFails
  <2>1. reply' = << >> /\ UNCHANGED <<list, sent, msg, accepted, closing, rejects, breaks, crashes>>
    BY <1>10 DEF Redis!PopFails
  <2>2. CASE reply = << >>
    <3>1. Redis!Lost' \subseteq Redis!Lost \cup {}
      BY <2>1, <2>2 DEF Redis!Lost
    <3>2. Held' => Held
      BY <2>1, <2>2 DEF Held
    <3> QED
      BY <1>0, <2>1, <3>1, <3>2, FreeStep
  <2>3. CASE reply # << >>
    <3>1. closing = "done"
      BY <1>10, <2>3 DEF Redis!PopFails, RedisInv
    <3>2. PICK m : Redis!ToSet(reply) = {m}
      BY <2>3, ReplyIsOne
    <3>3. Redis!Lost' \subseteq Redis!Lost \cup {m}
      BY <2>1, <3>2 DEF Redis!Lost
    <3>4. Held /\ ~Held'
      BY <2>1, <2>3, ReplyIsOne DEF Held
    <3> QED
      BY <1>0, <2>1, <3>1, <3>3, <3>4, ClosedStep
  <2> QED
    BY <2>2, <2>3
<1>11. CASE Redis!Close
  <2>1. /\ UNCHANGED <<list, sent, reply, msg, accepted, rejects, breaks, crashes>>
        /\ closing' = "done" <=> closing = "done"
    BY <1>11 DEF Redis!Close, Redis!TakesClose, Common, CommonTypeOK
  <2>2. Redis!Lost' \subseteq Redis!Lost \cup {}
    BY <2>1 DEF Redis!Lost
  <2> QED
    BY <1>0, <2>1, <2>2, FreeStep DEF Held
<1>12. CASE Redis!CloseClient
  <2>1. closing # "done" /\ closing' = "done"
    BY <1>12 DEF Redis!CloseClient
  <2>2. UNCHANGED <<list, sent, reply, msg, accepted, rejects, breaks, crashes>>
    BY <1>12 DEF Redis!CloseClient
  <2>3. Redis!Lost' \subseteq Redis!Lost \cup {}
    BY <2>2 DEF Redis!Lost
  <2> QED
    BY <1>0, <2>1, <2>2, <2>3, ClosingStep
<1>13. CASE Redis!Cancel
  <2>1. /\ UNCHANGED <<list, sent, reply, msg, accepted, rejects, breaks, crashes>>
        /\ closing' = "done" <=> closing = "done"
    BY <1>13 DEF Redis!Cancel, Redis!CancelContext
  <2>2. Redis!Lost' \subseteq Redis!Lost \cup {}
    BY <2>1 DEF Redis!Lost
  <2> QED
    BY <1>0, <2>1, <2>2, FreeStep DEF Held
<1>14. CASE Redis!Crash
  <2>1. /\ closing' # "done" /\ reply' = << >> /\ msg' = {}
        /\ UNCHANGED <<list, sent, accepted, rejects, breaks>> /\ crashes' = crashes + 1
    BY <1>14 DEF Redis!Crash, Redis!Killed
  <2>2. Paid' = Paid + 1
    BY <1>0, <2>1
  <2>3. CASE ~Held
    <3>1. Redis!Lost' \subseteq Redis!Lost \cup {}
      BY <2>1, <2>3 DEF Redis!Lost, Held
    <3> QED
      BY <1>0, <2>1, <2>2, <2>3, <3>1, CrashStep
  <2>4. CASE Held
    <3>1. PICK m : Redis!ToSet(reply) \cup msg = {m}
      BY <2>4, ReplyIsOne DEF Held, Common
    <3>2. Redis!Lost' \subseteq Redis!Lost \cup {m}
      BY <2>1, <3>1 DEF Redis!Lost
    <3> QED
      BY <1>0, <2>1, <2>2, <2>4, <3>2, CrashStep
  <2> QED
    BY <2>3, <2>4
<1>15. CASE Redis!Resting
  <2>1. /\ UNCHANGED <<list, sent, reply, msg, accepted, rejects, breaks, crashes>>
        /\ closing' = "done" <=> closing = "done"
    BY <1>15 DEF Redis!Resting, Redis!vars
  <2>2. Redis!Lost' \subseteq Redis!Lost \cup {}
    BY <2>1 DEF Redis!Lost
  <2> QED
    BY <1>0, <2>1, <2>2, FreeStep DEF Held
<1> QED
  BY <1>1, <1>2, <1>3, <1>4, <1>5, <1>6, <1>7, <1>8, <1>9, <1>10, <1>11, <1>12, <1>13, <1>14, <1>15
  DEF Redis!Next, Redis!ConsumeStep

LEMMA RedisKeeps ==
  ASSUME Common, RedisInv, Redis!Next
  PROVE  RedisInv'
  BY RedisTyped, RedisSorted, RedisLoses DEF RedisInv

-----------------------------------------------------------------------------
(* The consumer of the configuration.                                      *)

LEMMA Starts == Init => IInv
<1> SUFFICES ASSUME Init
             PROVE  IInv
  OBVIOUS
<1> USE DEF Init, CommonInit, Pulsar!OwnInit, Rocket!OwnInit, Redis!OwnInit
<1>1. Common
  <2>1. Cardinality(msg) <= 1
    BY Singletons
  <2>2. runs \in 0 .. MaxRuns /\ rejects \in 0 .. MaxRejects /\ crashes \in 0 .. MaxCrashes
    <3>1. \A n \in Nat : 0 \in 0 .. n
      OBVIOUS
    <3> QED
      BY <3>1, Bounds
  <2>3. CommonTypeOK
    BY <2>1, <2>2 DEF CommonTypeOK
  <2> QED
    BY <2>3 DEF Common
<1>2. PulsarInv
  BY DEF PulsarInv, Pulsar!TypeOK, Pulsar!Kept, Done
<1>3. RocketInv
  <2>1. Cardinality(batch) <= MaxBatch
    BY EmptyBatch
  <2>2. left \in [1 .. MaxRuns -> SUBSET Messages] /\ \A r \in 1 .. MaxRuns : left[r] = {}
    OBVIOUS
  <2> QED
    BY <2>1, <2>2, RocketNames DEF RocketInv, Rocket!TypeOK, Rocket!Kept, Done
<1>4. RedisInv
  <2>1. Redis!TypeOK
    <3>1. << >> \in Seq(Messages) /\ Len(<< >>) = 0
      BY EmptySeq
    <3> QED
      BY <3>1, Bounds, RedisNames DEF Redis!TypeOK
  <2>2. Redis!ToSet(<< >>) = {} /\ DOMAIN << >> = {}
    BY RedisNames
  <2>3. Sorted
    BY <2>2 DEF Sorted
  <2>4. Bill
    <3>1. Redis!Lost = {}
      <4>1. 1 .. 0 = {}
        OBVIOUS
      <4> QED
        BY <4>1 DEF Redis!Lost
    <3>2. Cardinality(Redis!Lost) = 0 /\ Paid = 0
      BY <3>1, FS_EmptySet DEF Paid
    <3> QED
      BY <3>2 DEF Bill, One
  <2> QED
    BY <2>1, <2>3, <2>4 DEF RedisInv
<1> QED
  BY <1>1, <1>2, <1>3, <1>4 DEF IInv

LEMMA Keeps == IInv /\ [Next]_vars => IInv'
<1> SUFFICES ASSUME IInv, [Next]_vars
             PROVE  IInv'
  OBVIOUS
<1>1. CASE IsPulsar /\ Pulsar!Next
  <2>1. type = "pulsar" /\ type' = "pulsar" /\ UNCHANGED <<ofRocket, ofRedis>>
    BY <1>1 DEF IsPulsar
  <2>2. Common' /\ PulsarInv'
    BY <1>1, <2>1, PulsarCommon, PulsarKeeps DEF IInv
  <2>3. Rocket!OwnInit' /\ Redis!OwnInit'
    BY <2>1 DEF IInv, ofRocket, ofRedis, Rocket!OwnInit, Redis!OwnInit
  <2> QED
    BY <2>1, <2>2, <2>3 DEF IInv
<1>2. CASE IsRocket /\ Rocket!Next
  <2>1. type = "rocketmq" /\ type' = "rocketmq" /\ UNCHANGED <<ofPulsar, ofRedis>>
    BY <1>2 DEF IsRocket
  <2>2. Common' /\ RocketInv'
    BY <1>2, <2>1, RocketCommon, RocketKeeps DEF IInv
  <2>3. Pulsar!OwnInit' /\ Redis!OwnInit'
    BY <2>1 DEF IInv, ofPulsar, ofRedis, Pulsar!OwnInit, Redis!OwnInit
  <2> QED
    BY <2>1, <2>2, <2>3 DEF IInv
<1>3. CASE IsRedis /\ Redis!Next
  <2>1. type = "redis" /\ type' = "redis" /\ UNCHANGED <<ofPulsar, ofRocket>>
    BY <1>3 DEF IsRedis
  <2>2. Common' /\ RedisInv'
    BY <1>3, <2>1, RedisCommon, RedisKeeps DEF IInv
  <2>3. Pulsar!OwnInit' /\ Rocket!OwnInit'
    BY <2>1 DEF IInv, ofPulsar, ofRocket, Pulsar!OwnInit, Rocket!OwnInit
  <2> QED
    BY <2>1, <2>2, <2>3 DEF IInv
<1>4. CASE UNCHANGED vars
  <2> USE <1>4 DEF vars, common, broker, stops, consume, history, ofPulsar, ofRocket, ofRedis
  <2>1. Common' = Common
    BY DEF Common, CommonTypeOK
  <2>2. PulsarInv' = PulsarInv /\ Pulsar!OwnInit' = Pulsar!OwnInit
    BY DEF PulsarInv, Pulsar!TypeOK, Pulsar!Kept, Done, Pulsar!OwnInit
  <2>3. RocketInv' = RocketInv /\ Rocket!OwnInit' = Rocket!OwnInit
    BY DEF RocketInv, Rocket!TypeOK, Rocket!Kept, Done, Rocket!OwnInit
  <2>4. RedisInv' = RedisInv /\ Redis!OwnInit' = Redis!OwnInit
    BY DEF RedisInv, Redis!TypeOK, Bill, Paid, Held, Redis!Lost, Sorted, Redis!OwnInit
  <2>5. type' = type
    OBVIOUS
  <2> QED
    BY <2>1, <2>2, <2>3, <2>4, <2>5 DEF IInv
<1> QED
  BY <1>1, <1>2, <1>3, <1>4 DEF Next

\* Whatever type of consumer a process has, its inductive invariant holds.
THEOREM Invariance == Spec => []IInv
  BY Starts, Keeps, PTL DEF Spec

\* Nothing of a library is left open by a Close that has returned (Pulsar,
\* Redis) or by a Consume that has (RocketMQ), and every variable has its type.
THEOREM ReleasedCorrect == Spec => []Released
<1>1. IInv => Released
  <2> SUFFICES ASSUME IInv
               PROVE  Released
    OBVIOUS
  <2>1. TypeOK
    BY DEF IInv, TypeOK, Common, PulsarInv, RocketInv, RedisInv
  <2>2. type = "pulsar" => Pulsar!Released
    BY DEF IInv, PulsarInv, Pulsar!Released, Common, CommonTypeOK
  <2>3. type = "rocketmq" => Rocket!Released
    BY DEF IInv, RocketInv, Rocket!Released
  <2>4. type = "redis" => Redis!Released
    BY DEF IInv, RedisInv, Redis!Released
  <2> QED
    BY <2>1, <2>2, <2>3, <2>4 DEF Released
<1> QED
  BY <1>1, Invariance, PTL

\* Redis loses a message only by a rejection, a broken answer, a crash, or a Close
\* that runs against the pop, and one by each.
THEOREM LostCorrect == Spec => []LostOnlySo
<1>1. IInv => LostOnlySo
  <2> SUFFICES ASSUME IInv, type = "redis"
               PROVE  Redis!LostOnlySo
    BY DEF LostOnlySo
  <2>1. RedisInv /\ Bill /\ Common
    BY DEF IInv, RedisInv
  <2>2. Cardinality({TRUE} \cap {closing = "done"}) = One(closing = "done")
    <3>1. CASE closing = "done"
      <4>1. {TRUE} \cap {closing = "done"} = {TRUE}
        BY <3>1
      <4> QED
        BY <3>1, <4>1, FS_Singleton DEF One
    <3>2. CASE closing # "done"
      <4>1. {TRUE} \cap {closing = "done"} = {}
        BY <3>2
      <4> QED
        BY <3>2, <4>1, FS_EmptySet DEF One
    <3> QED
      BY <3>1, <3>2
  <2>3. Cardinality(Redis!Lost) \in Nat
    BY <2>1, LostIsFinite
  <2>4. Paid \in Nat
    BY <2>1, Bounds DEF RedisInv, Redis!TypeOK, Common, CommonTypeOK, Paid
  <2>5. Cardinality(Redis!Lost) <= Paid + One(closing = "done")
    BY <2>1, <2>3, <2>4 DEF Bill, One
  <2> QED
    BY <2>2, <2>5, RedisNames DEF Redis!LostOnlySo, Paid
<1> QED
  BY <1>1, Invariance, PTL

\* Messages are handled in the order they were sent in.
THEOREM OldestCorrect == Spec => []OldestFirst
<1>1. ASSUME NEW S, S = {} \/ (\E m \in Messages : S = {m})
      PROVE  LET q == Redis!SetToSeq(S)
             IN  q \in Seq(Messages) /\ Len(q) <= 1 /\ (S = {} => Len(q) = 0)
                   /\ \A i \in 1 .. Len(q) : q[i] \in S
  <2> DEFINE k == Cardinality(S)
             q == Redis!SetToSeq(S)
  <2>1. S \subseteq Messages /\ k \in 0 .. 1 /\ (S = {} => k = 0)
    <3>1. CASE S = {}
      BY <3>1, FS_EmptySet
    <3>2. ASSUME NEW m \in Messages, S = {m}
          PROVE  S \subseteq Messages /\ k \in 0 .. 1 /\ S # {}
      <4>1. k = 1
        BY <3>2, FS_Singleton
      <4> QED
        BY <3>2, <4>1
    <3> QED
      BY <1>1, <3>1, <3>2
  <2>2. \E f \in [1 .. k -> S] : Redis!IsInjective(f)
    <3>1. CASE S = {}
      <4>1. 1 .. k = {}
        BY <2>1, <3>1
      <4>2. [i \in 1 .. k |-> i] \in [1 .. k -> S] /\ Redis!IsInjective([i \in 1 .. k |-> i])
        BY <4>1 DEF Redis!IsInjective
      <4> QED
        BY <4>2
    <3>2. ASSUME NEW m, S = {m}
          PROVE  \E f \in [1 .. k -> S] : Redis!IsInjective(f)
      <4>1. \A i, j \in 1 .. k : i = j
        BY <2>1
      <4>2. [i \in 1 .. k |-> m] \in [1 .. k -> S] /\ Redis!IsInjective([i \in 1 .. k |-> m])
        BY <3>2, <4>1 DEF Redis!IsInjective
      <4> QED
        BY <4>2
    <3> QED
      BY <1>1, <3>1, <3>2
  <2>3. q = CHOOSE f \in [1 .. k -> S] : Redis!IsInjective(f)
    BY RedisNames DEF Redis!SetToSeq
  <2> HIDE DEF k, q
  <2>4. q \in [1 .. k -> S]
    BY <2>2, <2>3
  <2>5. q \in Seq(S) /\ k \in Nat
    BY <2>1, <2>4, SeqDef
  <2>6. PICK n \in Nat : n = Len(q) /\ DOMAIN q = 1 .. n
    BY <2>5, LenProperties
  <2>7. n = k
    <3>1. DOMAIN q = 1 .. k
      BY <2>4
    <3>2. 1 .. n = 1 .. k
      BY <2>6, <3>1
    <3> QED
      BY <2>1, <2>6, <3>2
  <2>8. q \in Seq(Messages)
    BY <2>1, <2>5, SeqMonotonic
  <2>9. \A i \in 1 .. Len(q) : q[i] \in S
    BY <2>4, <2>6, <2>7
  <2> QED
    BY <2>1, <2>6, <2>7, <2>8, <2>9 DEF q
<1>2. IInv => OldestFirst
  <2> SUFFICES ASSUME IInv, type = "redis"
               PROVE  Redis!OldestFirst
    BY DEF OldestFirst
  <2> DEFINE q == Redis!SetToSeq(msg)
             a == list \o reply
             queue == a \o q
  <2>1. Common /\ RedisInv /\ Sorted
    BY DEF IInv, RedisInv
  <2>2. /\ q \in Seq(Messages) /\ Len(q) <= 1 /\ (msg = {} => Len(q) = 0)
        /\ \A i \in 1 .. Len(q) : q[i] \in msg
    BY <1>1, <2>1 DEF Common
  <2>3. /\ list \in Seq(Messages) /\ reply \in Seq(Messages) /\ Len(reply) <= 1
        /\ reply # << >> => msg = {}
    BY <2>1, RedisNames DEF RedisInv, Redis!TypeOK
  <2>4. PICK k \in Nat : k = Len(list) /\ DOMAIN list = 1 .. k
    BY <2>3, LenProperties
  <2>5. PICK n \in Nat : n = Len(reply) /\ DOMAIN reply = 1 .. n
    BY <2>3, LenProperties
  <2>6. PICK p \in Nat : p = Len(q)
    BY <2>2, LenProperties
  <2>7. n + p <= 1
    <3>1. n # 0 => reply # << >>
      BY <2>5, EmptySeq
    <3> QED
      BY <2>2, <2>3, <2>5, <2>6, <3>1
  <2>8. /\ a \in Seq(Messages) /\ Len(a) = k + n
        /\ \A i \in 1 .. (k + n) : a[i] = IF i <= k THEN list[i] ELSE reply[i - k]
    BY <2>3, <2>4, <2>5, ConcatProperties
  <2> HIDE DEF a, q
  <2>9. /\ queue \in Seq(Messages) /\ Len(queue) = k + n + p
        /\ \A i \in 1 .. (k + n + p) : queue[i] = IF i <= k + n THEN a[i] ELSE q[i - (k + n)]
    BY <2>2, <2>6, <2>8, ConcatProperties
  <2>10. DOMAIN queue = 1 .. (k + n + p)
    BY <2>9, LenProperties
  <2> DEFINE In == Redis!ToSet(reply) \cup msg
  <2>11. \A i \in 1 .. (k + n + p) :
           \/ i \in DOMAIN list /\ queue[i] = list[i]
           \/ i = k + 1 /\ k + n + p = k + 1 /\ queue[i] \in In
    <3> SUFFICES ASSUME NEW i \in 1 .. (k + n + p)
                 PROVE  \/ i \in DOMAIN list /\ queue[i] = list[i]
                        \/ i = k + 1 /\ k + n + p = k + 1 /\ queue[i] \in In
      OBVIOUS
    <3> HIDE DEF queue
    <3>1. CASE i <= k
      <4>1. i \in 1 .. k /\ i \in 1 .. (k + n) /\ i <= k + n
        BY <3>1
      <4> QED
        BY <2>4, <2>8, <2>9, <3>1, <4>1
    <3>2. CASE k < i /\ i <= k + n
      <4>1. i = k + 1 /\ n = 1 /\ p = 0 /\ i \in 1 .. (k + n) /\ ~(i <= k) /\ i - k = 1
        BY <2>7, <3>2
      <4>2. queue[i] = reply[1]
        BY <2>8, <2>9, <3>2, <4>1
      <4>3. 1 \in DOMAIN reply
        BY <2>5, <4>1
      <4>4. reply[1] \in Redis!ToSet(reply)
        BY <4>3, RedisNames
      <4> QED
        BY <4>1, <4>2, <4>4
    <3>3. CASE k + n < i
      <4>1. i = k + 1 /\ n = 0 /\ p = 1 /\ ~(i <= k + n) /\ i - (k + n) = 1
        BY <2>7, <3>3
      <4>2. queue[i] = q[1] /\ 1 \in 1 .. p
        BY <2>9, <4>1
      <4> QED
        BY <2>2, <2>6, <4>1, <4>2
    <3> QED
      BY <3>1, <3>2, <3>3
  <2> HIDE DEF queue
  <2>12. ASSUME NEW i \in 1 .. (k + n + p), NEW j \in 1 .. (k + n + p), i < j
         PROVE  queue[i] >= queue[j]
    <3>1. i # k + 1 \/ k + n + p # k + 1
      BY <2>12
    <3>2. i \in DOMAIN list /\ queue[i] = list[i]
      BY <2>11, <3>1
    <3>3. CASE j \in DOMAIN list /\ queue[j] = list[j]
      BY <2>1, <2>12, <3>2, <3>3 DEF Sorted
    <3>4. CASE queue[j] \in In
      <4>1. queue[j] <= queue[i]
        BY <2>1, <3>2, <3>4 DEF Sorted
      <4>2. queue[i] \in Nat /\ queue[j] \in Nat
        BY <2>9, <2>12, Bounds, ElementOfSeq DEF Messages
      <4> QED
        BY <4>1, <4>2
    <3> QED
      BY <2>11, <3>3, <3>4
  <2>13. ASSUME NEW m \in accepted, NEW i \in 1 .. (k + n + p)
         PROVE  m <= queue[i]
    BY <2>1, <2>11 DEF Sorted
  <2>14. queue = list \o reply \o Redis!SetToSeq(msg)
    BY DEF queue, a, q
  <2> HIDE DEF In
  <2> QED
    BY <2>10, <2>12, <2>13, <2>14 DEF Redis!OldestFirst
<1> QED
  BY <1>2, Invariance, PTL

\* A consumer with acknowledgements keeps every message until the handler has
\* accepted it, or until it turned out not to be an event.
THEOREM RedeliveryCorrect == Spec => RedeliverySpec
<1> DEFINE kept == IF type = "pulsar" THEN Pulsar!Kept
                   ELSE IF type = "rocketmq" THEN Rocket!Kept ELSE Messages
           acc == IF type = "redis" THEN {} ELSE accepted
<1>1. Init => Contract!Init
  <2> SUFFICES ASSUME Init
               PROVE  Contract!Init
    OBVIOUS
  <2>1. Pulsar!Kept = Messages /\ Rocket!Kept = Messages /\ accepted = {}
    BY DEF Init, CommonInit, Pulsar!OwnInit, Rocket!OwnInit, Pulsar!Kept, Rocket!Kept
  <2> QED
    BY <2>1 DEF Contract!Init
<1>2. ASSUME Moves(kept, kept'), acc = accepted, acc' = accepted'
      PROVE  [Contract!Accept \/ Contract!Remove]_<<kept, acc>>
  <2> HIDE DEF kept, acc
  <2>1. CASE kept' = kept /\ accepted' = accepted
    BY <1>2, <2>1
  <2>2. CASE kept' = kept /\ \E m \in kept \ Junk : accepted' = accepted \cup {m}
    BY <1>2, <2>2 DEF Contract!Accept, kept, acc
  <2>3. CASE accepted' = accepted /\ \E S \in SUBSET (kept \cap Done) : kept' = kept \ S
    BY <1>2, <2>3 DEF Contract!Remove, kept, acc, Done
  <2> QED
    BY <1>2, <2>1, <2>2, <2>3 DEF Moves
<1>3. IInv /\ [Next]_vars => [Contract!Accept \/ Contract!Remove]_<<kept, acc>>
  <2> SUFFICES ASSUME IInv, [Next]_vars
               PROVE  [Contract!Accept \/ Contract!Remove]_<<kept, acc>>
    OBVIOUS
  <2>1. CASE IsPulsar /\ Pulsar!Next
    <3>1. type = "pulsar" /\ type' = "pulsar"
      BY <2>1 DEF IsPulsar
    <3>2. Moves(Pulsar!Kept, Pulsar!Kept')
      BY <2>1, <3>1, PulsarMoves DEF IInv
    <3>3. kept = Pulsar!Kept /\ kept' = Pulsar!Kept' /\ acc = accepted /\ acc' = accepted'
      BY <3>1
    <3> QED
      BY <1>2, <3>2, <3>3
  <2>2. CASE IsRocket /\ Rocket!Next
    <3>1. type = "rocketmq" /\ type' = "rocketmq"
      BY <2>2 DEF IsRocket
    <3>2. Moves(Rocket!Kept, Rocket!Kept')
      BY <2>2, <3>1, RocketMoves DEF IInv
    <3>3. kept = Rocket!Kept /\ kept' = Rocket!Kept' /\ acc = accepted /\ acc' = accepted'
      BY <3>1
    <3> QED
      BY <1>2, <3>2, <3>3
  <2>3. CASE IsRedis /\ Redis!Next
    <3>1. type = "redis" /\ type' = "redis"
      BY <2>3 DEF IsRedis
    <3> QED
      BY <3>1
  <2>4. CASE UNCHANGED vars
    <3>1. type' = type /\ accepted' = accepted
      BY <2>4 DEF vars, common, history
    <3>2. Pulsar!Kept' = Pulsar!Kept /\ Rocket!Kept' = Rocket!Kept
      BY <2>4 DEF vars, common, broker, ofPulsar, ofRocket, Pulsar!Kept, Rocket!Kept
    <3> QED
      BY <3>1, <3>2
  <2> QED
    BY <2>1, <2>2, <2>3, <2>4 DEF Next
<1> QED
  BY <1>1, <1>3, Invariance, PTL DEF Spec, RedeliverySpec, Contract!Spec

==============================================================================
