----------------------------- MODULE PulsarConsumer ----------------------------
(***************************************************************************)
(* The Pulsar consumer (queue/consumer/pulsar.go) on one subscription.     *)
(*                                                                         *)
(* The client and the consumer of the library are made by the first        *)
(* Consume and kept until Close, which takes them under the mutex and      *)
(* closes them after it has let the mutex go.  A message is acknowledged,  *)
(* or negatively acknowledged and delivered again after a delay; the       *)
(* library sends both in the background.                                   *)
(***************************************************************************)
EXTENDS Consumer

VARIABLES
  unacked,   \* messages that were received and are not settled
  acks,      \* acknowledgements on their way
  consumer,  \* PulsarConsumer holds the client and the consumer
  verdict    \* what processMessage said of the message in hand

own  == <<unacked, acks, consumer, verdict>>
vars == <<common, own>>

OwnInit == unacked = {} /\ acks = {} /\ consumer = FALSE /\ verdict = "none"

Init == CommonInit /\ OwnInit

-----------------------------------------------------------------------------
(* Consume.                                                                *)

\* Consume is called.
Consume ==
  /\ Called
  /\ \/ closed /\ pc' = "idle" /\ result' = "nil"
     \/ ~closed /\ pc' = "subscribe" /\ result' = "none"
  /\ UNCHANGED <<broker, library, stops, msg, history, crashes, own>>

\* Mutant of Subscribe: Close is not looked for once the lock is held.
SubscribeAnyway ==
  /\ pc = "subscribe"
  /\ consumer' = TRUE
  /\ library' = "open"
  /\ Goes("receive")
  /\ UNCHANGED <<broker, stops, msg, history, crashes, unacked, acks, verdict>>

\* subscription: under the mutex the consumer is taken, or dialed and kept.
Subscribe ==
  /\ pc = "subscribe"
  /\ \/ /\ closed
        /\ Returns("nil")
        /\ UNCHANGED <<library, consumer>>
     \/ /\ ~closed /\ consumer
        /\ Goes("receive")
        /\ UNCHANGED <<library, consumer>>
     \/ /\ ~closed /\ ~consumer
        /\ library' = "open" /\ consumer' = TRUE
        /\ Goes("receive")
     \/ /\ ~closed /\ ~consumer /\ "refuse" \in Env
        /\ Goes("refused")
        /\ UNCHANGED <<library, consumer>>
  /\ UNCHANGED <<broker, stops, msg, history, crashes, unacked, acks, verdict>>

\* The error of subscription is reported, unless Close was called by then.
Refused ==
  /\ pc = "refused"
  /\ Returns(IF closed THEN "nil" ELSE "failed")
  /\ UNCHANGED <<broker, library, stops, msg, history, crashes, own>>

Receive ==
  /\ pc = "receive"
  /\ \E m \in pushed :
       /\ pushed' = pushed \ {m}
       /\ unacked' = unacked \cup {m}
       /\ msg' = {m}
  /\ Goes("handle")
  /\ UNCHANGED <<backlog, delayed, library, stops, history, crashes, acks, consumer, verdict>>

\* Mutant of ReceiveFails: a closed consumer is taken for a failed one.
ReceiveFailsOnly ==
  /\ pc = "receive"
  /\ ctxDone
  /\ Returns("canceled")
  /\ UNCHANGED <<broker, library, stops, msg, history, crashes, own>>

\* Receive fails: the consumer is closed, the context is canceled, the topic is
\* terminated, or the library gives another error.
ReceiveFails ==
  /\ pc = "receive"
  /\ library = "closed" \/ ctxDone \/ Env \cap {"terminate", "refuse"} # {}
  /\ \/ closed /\ Returns("nil")
     \/ ~closed /\ ctxDone /\ Returns("canceled")
     \/ ~closed /\ ~ctxDone /\ "terminate" \in Env /\ Returns("nil")
     \/ ~closed /\ ~ctxDone /\ "refuse" \in Env /\ Returns("failed")
  /\ UNCHANGED <<broker, library, stops, msg, history, crashes, own>>

Process ==
  /\ pc = "handle"
  /\ \E m \in msg, d \in Dispositions : processMessage(m, d) /\ verdict' = d
  /\ Goes("settle")
  /\ UNCHANGED <<broker, library, stops, msg, crashes, unacked, acks, consumer>>

\* Mutant of Ack: the verdict is not looked at.
AckAnyVerdict ==
  /\ pc = "settle"
  /\ library = "open"
  /\ acks' = acks \cup msg
  /\ msg' = {}
  /\ Goes("receive")
  /\ UNCHANGED <<broker, library, stops, history, crashes, unacked, consumer, verdict>>

\* The message is acknowledged.
Ack ==
  /\ pc = "settle" /\ verdict = "ack"
  /\ library = "open"
  /\ acks' = acks \cup msg
  /\ msg' = {}
  /\ Goes("receive")
  /\ UNCHANGED <<broker, library, stops, history, crashes, unacked, consumer, verdict>>

\* The library refuses to acknowledge on a closed consumer.
AckFails ==
  /\ pc = "settle" /\ verdict = "ack"
  /\ library = "closed"
  /\ msg' = {}
  /\ Returns("failed")
  /\ UNCHANGED <<broker, library, stops, history, crashes, own>>

\* Mutant of Nack: the message is only left unacknowledged.
NackNothing ==
  /\ pc = "settle" /\ verdict = "retry"
  /\ msg' = {}
  /\ Goes("receive")
  /\ UNCHANGED <<broker, library, stops, history, crashes, own>>

\* The message is negatively acknowledged; that reports no error.
Nack ==
  /\ pc = "settle" /\ verdict = "retry"
  /\ delayed' = IF library = "open" THEN delayed \cup msg ELSE delayed
  /\ msg' = {}
  /\ Goes("receive")
  /\ UNCHANGED <<backlog, pushed, library, stops, history, crashes, own>>

ConsumeStep ==
  \/ Subscribe \/ Refused \/ Receive \/ Process \/ Ack \/ AckFails \/ Nack

-----------------------------------------------------------------------------
(* Close, the library and the broker.                                      *)

\* Close takes the client and the consumer under the mutex.
Close ==
  /\ TakesClose
  /\ consumer' = FALSE
  /\ closing' = IF consumer THEN "taken" ELSE "done"
  /\ UNCHANGED <<broker, library, consume, history, crashes, unacked, acks, verdict>>

\* It closes them.  The acknowledgements that reach the broker first count, and
\* the broker takes back everything else this consumer had.
CloseLibrary ==
  /\ closing = "taken"
  /\ closing' = "done"
  /\ library' = "closed"
  /\ \E flushed \in SUBSET acks : backlog' = backlog \cup pushed \cup (unacked \ flushed)
  /\ pushed' = {} /\ unacked' = {} /\ delayed' = {} /\ acks' = {}
  /\ UNCHANGED <<closed, consume, history, crashes, consumer, verdict>>

\* The broker fills the receiver queue.
BrokerPushes == BrokerDelivers /\ UNCHANGED own

\* An acknowledgement reaches the broker.
BrokerAcks ==
  /\ \E m \in acks : acks' = acks \ {m} /\ unacked' = unacked \ {m}
  /\ UNCHANGED <<common, consumer, verdict>>

\* The delay of a negative acknowledgement is over.
Redelivers ==
  /\ \E m \in delayed :
       /\ delayed' = delayed \ {m}
       /\ unacked' = unacked \ {m}
       /\ backlog' = backlog \cup {m}
  /\ UNCHANGED <<pushed, library, stops, consume, history, crashes, acks, consumer, verdict>>

Cancel == CancelContext /\ UNCHANGED own

\* What was on its way to the broker is lost with the process.
Crash ==
  /\ Killed
  /\ backlog' = backlog \cup pushed \cup unacked
  /\ delayed' = {}
  /\ unacked' = {} /\ acks' = {}
  /\ consumer' = FALSE /\ verdict' = "none"

Resting ==
  /\ pc \in {"idle", "receive"}
  /\ UNCHANGED vars

Next ==
  \/ Consume \/ ConsumeStep \/ ReceiveFails
  \/ Close \/ CloseLibrary \/ Cancel \/ Crash
  \/ BrokerPushes \/ BrokerAcks \/ Redelivers
  \/ Resting

-----------------------------------------------------------------------------
\* Messages the subscription is not through with.
Kept == backlog \cup pushed \cup unacked

\* Every variable has its type; what is on its way is not settled yet, and a
\* message is in one place of the subscription.
TypeOK ==
  /\ acks \subseteq unacked /\ delayed \subseteq unacked /\ acks \cap delayed = {}
  /\ backlog \cap pushed = {} /\ backlog \cap unacked = {} /\ pushed \cap unacked = {}
  /\ consumer \in BOOLEAN
  /\ pc \in {"idle", "subscribe", "refused", "receive", "handle", "settle"}
  /\ verdict \in {"none", "ack", "retry"}

\* Once Close has returned nothing of the library is left open, also when it
\* ran against the dial of a Consume that had just begun.
Released == closing = "done" => library # "open"

\* IConsumer: Close is a deliberate stop and is reported as nil.
CloseReportedAsNil ==
  [][pc # "idle" /\ pc' = "idle" /\ closed /\ closed' => result' = "nil"]_vars

=============================================================================
