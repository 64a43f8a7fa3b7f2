---------------------------- MODULE RabbitConsumer ----------------------------
(***************************************************************************)
(* The RabbitMQ consumer (queue/consumer/rabbit.go) on one queue.          *)
(*                                                                         *)
(* Consume dials a subscription, reads its deliveries one by one, hands    *)
(* each to the handler and acknowledges it, and dials again when the       *)
(* broker ends the deliveries.  A watchdog goroutine per subscription      *)
(* closes it when the context is canceled or the consumer is closed.       *)
(*                                                                         *)
(* The messages are numbered in the order of the queue; one that is put    *)
(* back takes its old place, so the queue is the set ready, served         *)
(* smallest first.                                                         *)
(***************************************************************************)
EXTENDS Naturals, Sequences, FiniteSets, FiniteSetsExt

CONSTANTS
  N,            \* messages in the queue
  Junk,         \* those whose payload is not an event
  Prefetches,   \* the values of RabbitMQConfig.Prefetch, 0 for no limit
  DropsOnError, \* the values of RabbitMQConfig.DropOnError
  MaxRejects,   \* bound: times the handler fails
  MaxFaults,    \* bound: faults of the environment
  Env           \* what can happen, see EnvEvents

EnvEvents ==
  { "restart",  \* the broker goes down with all its connections
    "channel",  \* the broker closes a channel, its connection stays
    "cancel",   \* the broker ends a subscription: its queue failed over
    "stop",     \* the context of Consume is canceled
    "close",    \* the consumer is closed
    "crash"     \* the process is killed and started again
  }

Messages == 1 .. N

ASSUME RabbitConsumerAssumption ==
  /\ N \in Nat
  /\ Junk \subseteq Messages
  /\ Prefetches \subseteq Nat
  /\ DropsOnError \subseteq BOOLEAN
  /\ MaxRejects \in Nat
  /\ MaxFaults \in Nat
  /\ Env \subseteq EnvEvents

VARIABLES
  prefetch,     \* RabbitMQConfig.Prefetch
  dropOnError,  \* RabbitMQConfig.DropOnError
  ready,     \* messages in the queue
  gone,      \* messages the broker has let go of
  up,        \* the broker runs
  subs,      \* the subscriptions of this process, in the order of their dials
  pc,        \* where Consume is
  msg,       \* the message in hand
  verdict,   \* what processMessage said of it
  err,       \* what consume reported of the subscription
  result,    \* what Consume returned
  ctxDone,   \* the context is canceled
  closed,    \* Close was called
  accepted,  \* messages the handler accepted at least once
  dropped,   \* messages it rejected and drop_on_error gave up
  rejects,   \* times it rejected one
  faults     \* faults so far

config   == <<prefetch, dropOnError>>
broker   == <<ready, gone, up>>
consumer == <<pc, msg, verdict, err, result>>
stops    == <<ctxDone, closed>>
history  == <<accepted, dropped, rejects>>
vars     == <<config, broker, subs, consumer, stops, history, faults>>

Verdicts == {"ack", "retry"}

\* Mutant of Qos: no prefetch is set.
NoQos == 0

\* The prefetch dial asks for.
Qos == prefetch

NewSubscription ==
  [connected  |-> TRUE,   \* the connection is open
   open       |-> TRUE,   \* the channel is open
   delivering |-> TRUE,   \* the broker has a consumer for it
   prefetch   |-> Qos,
   deliveries |-> << >>,  \* messages in the Go channel
   unacked    |-> {},     \* messages the broker waits for
   acks       |-> << >>,  \* acknowledgements on their way to the broker
   watch      |-> TRUE,   \* the watchdog runs
   stop       |-> FALSE]  \* consume has returned

Init ==
  /\ prefetch \in Prefetches
  /\ dropOnError \in DropsOnError
  /\ ready = Messages
  /\ gone = {}
  /\ up = TRUE
  /\ subs = << >>
  /\ pc = "loop" /\ msg = 0 /\ verdict = "none" /\ err = "none" /\ result = "none"
  /\ ctxDone = FALSE
  /\ closed = FALSE
  /\ accepted = {} /\ dropped = {} /\ rejects = 0
  /\ faults = 0

\* The subscription consume reads.
cur == Len(subs)

Returns(what) == pc' = "ended" /\ result' = what

-----------------------------------------------------------------------------
(* Consume.                                                                *)

\* The top of the loop.
Loop ==
  /\ pc = "loop"
  /\ \/ closed /\ Returns("nil")
     \/ ~closed /\ ctxDone /\ Returns("canceled")
     \/ ~closed /\ ~ctxDone /\ pc' = "dial" /\ UNCHANGED result
  /\ UNCHANGED <<config, broker, subs, msg, verdict, err, stops, history, faults>>

\* dial: the connection, the channel, the topology, the prefetch and the
\* subscription, or an error that ends Consume.  consume then starts the
\* watchdog.
Dial ==
  /\ pc = "dial"
  /\ \/ /\ up
        /\ subs' = Append(subs, NewSubscription)
        /\ pc' = "next"
        /\ UNCHANGED result
     \/ /\ ~up
        /\ Returns("failed")
        /\ UNCHANGED subs
  /\ UNCHANGED <<config, broker, msg, verdict, err, stops, history, faults>>

\* next: a delivery, or the end of the deliveries.  The library drops what is
\* still in the Go channel when the AMQP channel closes, at any moment.
NextDelivery ==
  /\ pc = "next"
  /\ subs[cur].deliveries # << >>
  /\ msg' = Head(subs[cur].deliveries)
  /\ subs' = [subs EXCEPT ![cur].deliveries = Tail(@)]
  /\ pc' = "handle"
  /\ UNCHANGED <<config, broker, verdict, err, result, stops, history, faults>>

\* Mutant of DeliveriesClosed: a canceled subscription is left with deliveries
\* in the Go channel.
DeliveriesClosedAtOnce ==
  /\ pc = "next"
  /\ ~subs[cur].open \/ ~subs[cur].delivering
  /\ pc' = "return"
  /\ err' = "deliveries closed"
  /\ UNCHANGED <<config, broker, subs, msg, verdict, result, stops, history, faults>>

DeliveriesClosed ==
  /\ pc = "next"
  /\ \/ ~subs[cur].open
     \/ ~subs[cur].delivering /\ subs[cur].deliveries = << >>
  /\ pc' = "return"
  /\ err' = "deliveries closed"
  /\ UNCHANGED <<config, broker, subs, msg, verdict, result, stops, history, faults>>

\* Mutant of Dispositions: a payload that does not decode is left for a retry.
DispositionsRetryJunk(m) == IF m \in Junk THEN {"retry"} ELSE Verdicts

\* What processMessage can make of a message: a payload that is not an event is
\* disposed of, any other one is accepted or rejected by the handler.
Dispositions(m) == IF m \in Junk THEN {"ack"} ELSE Verdicts

ProcessMessage ==
  /\ pc = "handle"
  /\ pc' = "settle"
  /\ verdict' \in Dispositions(msg)
  /\ LET event == {msg} \ Junk
     IN  /\ accepted' = IF verdict' = "ack" THEN accepted \cup event ELSE accepted
         /\ rejects' = IF verdict' = "retry" THEN rejects + Cardinality(event) ELSE rejects
  /\ rejects' <= MaxRejects
  /\ UNCHANGED <<config, broker, subs, msg, err, result, stops, dropped, faults>>

\* Mutant of Answer: nack is given DropOnError instead of its opposite.
AnswerInverted == IF verdict = "ack" THEN "ack" ELSE IF dropOnError THEN "requeue" ELSE "drop"

\* What the broker is told about the message in hand.
Answer == IF verdict = "ack" THEN "ack"
          ELSE IF dropOnError THEN "drop" ELSE "requeue"

\* ack or nack is written to the channel.
SettleWritten ==
  /\ pc = "settle"
  /\ subs[cur].open
  /\ subs' = [subs EXCEPT ![cur].acks = Append(@, <<msg, Answer>>)]
  /\ pc' = "next"
  /\ dropped' = IF verdict = "retry" /\ dropOnError THEN dropped \cup {msg} ELSE dropped
  /\ UNCHANGED <<config, broker, msg, verdict, err, result, stops, accepted, rejects, faults>>

\* The channel is gone: the error of ack or nack ends consume.
SettleFails ==
  /\ pc = "settle"
  /\ ~subs[cur].open
  /\ pc' = "return"
  /\ err' = "settle failed"
  /\ UNCHANGED <<config, broker, subs, msg, verdict, result, stops, history, faults>>

\* consume returns, which releases its watchdog, and Consume decides.
ConsumeReturns ==
  /\ pc = "return"
  /\ subs' = [subs EXCEPT ![cur].stop = TRUE]
  /\ \/ closed /\ Returns("nil")
     \/ ~closed /\ ctxDone /\ Returns("canceled")
     \/ /\ ~closed /\ ~ctxDone /\ err = "deliveries closed"
        /\ pc' = "loop"
        /\ UNCHANGED result
     \/ /\ ~closed /\ ~ctxDone /\ err # "deliveries closed"
        /\ Returns("failed")
  /\ UNCHANGED <<config, broker, msg, verdict, err, stops, history, faults>>

ConsumeStep ==
  \/ Loop \/ Dial \/ NextDelivery \/ DeliveriesClosed
  \/ ProcessMessage \/ SettleWritten \/ SettleFails \/ ConsumeReturns

-----------------------------------------------------------------------------
(* The broker.                                                             *)

\* What the broker makes of the acknowledgements it has received.
Taken(s, answers) == {m \in s.unacked :
                        \E i \in 1 .. Len(s.acks) : s.acks[i] \in {m} \X answers}

\* An orderly close: the broker handles the acknowledgements that were written
\* before it, and takes back what is left.
CloseSubscription(i) ==
  LET s == subs[i]
  IN  /\ subs' = [subs EXCEPT ![i].connected = FALSE, ![i].open = FALSE,
                              ![i].unacked = {}, ![i].acks = << >>,
                              ![i].watch = FALSE]
      /\ gone' = gone \cup Taken(s, {"ack", "drop"})
      /\ ready' = ready \cup (s.unacked \ Taken(s, {"ack", "drop"}))

\* Mutant of Asked: the context is not looked at.
AskedByClose == closed

\* What the watchdog waits for.
Asked == ctxDone \/ closed

\* The goroutine consume starts: on a shutdown it closes the subscription, and
\* once consume has returned it ends, whichever of the two it sees.
Watchdog(i) ==
  /\ subs[i].watch
  /\ \/ /\ Asked
        /\ CloseSubscription(i)
     \/ /\ subs[i].stop
        /\ subs' = [subs EXCEPT ![i].watch = FALSE]
        /\ UNCHANGED <<ready, gone>>
  /\ UNCHANGED <<config, up, consumer, stops, history, faults>>

\* The broker pushes the next message, as far as the prefetch allows.
BrokerDelivers(i) ==
  /\ subs[i].open /\ subs[i].delivering
  /\ ready # {}
  /\ subs[i].prefetch = 0 \/ Cardinality(subs[i].unacked) < subs[i].prefetch
  /\ LET m == Min(ready)
     IN  /\ ready' = ready \ {m}
         /\ subs' = [subs EXCEPT ![i].unacked = @ \cup {m},
                                 ![i].deliveries = Append(@, m)]
  /\ UNCHANGED <<config, gone, up, consumer, stops, history, faults>>

\* It receives an acknowledgement.
BrokerSettles(i) ==
  /\ subs[i].acks # << >>
  /\ LET m == Head(subs[i].acks)[1]
         requeued == Head(subs[i].acks)[2] = "requeue"
     IN  /\ subs' = [subs EXCEPT ![i].acks = Tail(@), ![i].unacked = @ \ {m}]
         /\ ready' = IF requeued THEN ready \cup {m} ELSE ready
         /\ gone' = IF requeued THEN gone ELSE gone \cup {m}
  /\ UNCHANGED <<config, up, consumer, stops, history, faults>>

BrokerStep(i) == BrokerDelivers(i) \/ BrokerSettles(i)

-----------------------------------------------------------------------------
(* What can go wrong.                                                      *)

Fault(event) ==
  /\ event \in Env
  /\ faults < MaxFaults
  /\ faults' = faults + 1

\* A subscription whose channel is lost with everything on its way.
Lost(s) == [s EXCEPT !.open = FALSE, !.unacked = {}, !.acks = << >>]

Disconnected(s) == [Lost(s) EXCEPT !.connected = FALSE]

AllUnacked == UNION {subs[i].unacked : i \in DOMAIN subs}

\* The broker goes down.  Its queue is durable.
BrokerDown ==
  /\ Fault("restart")
  /\ up
  /\ up' = FALSE
  /\ ready' = ready \cup AllUnacked
  /\ subs' = [i \in DOMAIN subs |-> Disconnected(subs[i])]
  /\ UNCHANGED <<config, gone, consumer, stops, history>>

BrokerUp ==
  /\ ~up
  /\ up' = TRUE
  /\ UNCHANGED <<config, ready, gone, subs, consumer, stops, history, faults>>

\* It closes a channel, as it does when an acknowledgement takes too long.
ChannelClosed(i) ==
  /\ Fault("channel")
  /\ subs[i].open
  /\ subs' = [subs EXCEPT ![i] = Lost(subs[i])]
  /\ ready' = ready \cup subs[i].unacked
  /\ UNCHANGED <<config, gone, up, consumer, stops, history>>

\* It ends the deliveries of a channel that stays open.
SubscriptionCanceled(i) ==
  /\ Fault("cancel")
  /\ subs[i].open /\ subs[i].delivering
  /\ subs' = [subs EXCEPT ![i].delivering = FALSE]
  /\ UNCHANGED <<config, broker, consumer, stops, history>>

Cancel ==
  /\ "stop" \in Env
  /\ ~ctxDone
  /\ ctxDone' = TRUE
  /\ UNCHANGED <<config, broker, subs, consumer, closed, history, faults>>

\* Close: the flag, then the channel that wakes the watchdog.
Close ==
  /\ "close" \in Env
  /\ ~closed
  /\ closed' = TRUE
  /\ UNCHANGED <<config, broker, subs, consumer, ctxDone, history, faults>>

\* The process is killed, the broker notices, and a new process consumes.
Crash ==
  /\ Fault("crash")
  /\ ready' = ready \cup AllUnacked
  /\ subs' = << >>
  /\ pc' = "loop" /\ msg' = 0 /\ verdict' = "none" /\ err' = "none" /\ result' = "none"
  /\ ctxDone' = FALSE
  /\ closed' = FALSE
  /\ UNCHANGED <<config, gone, up, history>>

\* Nothing is left to do: the queue is empty, or nobody reads it.
Resting ==
  /\ pc = "ended" \/ gone = Messages
  /\ UNCHANGED vars

Next ==
  \/ ConsumeStep
  \/ \E i \in DOMAIN subs : Watchdog(i) \/ BrokerStep(i)
                            \/ ChannelClosed(i) \/ SubscriptionCanceled(i)
  \/ BrokerDown \/ BrokerUp
  \/ Cancel \/ Close \/ Crash
  \/ Resting

Spec == Init /\ [][Next]_vars

\* Go runs every goroutine that can run, the handler returns, and the broker
\* serves its channels and comes back.
Fairness ==
  /\ WF_vars(ConsumeStep)
  /\ WF_vars(\E i \in DOMAIN subs : Watchdog(i))
  /\ WF_vars(\E i \in DOMAIN subs : BrokerStep(i))
  /\ WF_vars(BrokerUp)

FairSpec == Spec /\ Fairness

-----------------------------------------------------------------------------
Subscription ==
  [connected : BOOLEAN, open : BOOLEAN, delivering : BOOLEAN,
   prefetch : Nat, deliveries : Seq(Messages), unacked : SUBSET Messages,
   acks : Seq(Messages \X {"ack", "drop", "requeue"}),
   watch : BOOLEAN, stop : BOOLEAN]

\* Every variable has its type.
TypeOK ==
  /\ ready \subseteq Messages /\ gone \subseteq Messages
  /\ up \in BOOLEAN
  /\ subs \in Seq(Subscription)
  /\ pc \in {"loop", "dial", "next", "handle", "settle", "return", "ended"}
  /\ msg \in Messages \cup {0}
  /\ pc \in {"handle", "settle"} => msg \in Messages
  /\ verdict \in Verdicts \cup {"none"}
  /\ err \in {"none", "deliveries closed", "settle failed"}
  /\ result \in {"none", "nil", "canceled", "failed"}
  /\ ctxDone \in BOOLEAN /\ closed \in BOOLEAN
  /\ prefetch \in Prefetches /\ dropOnError \in DropsOnError
  /\ accepted \subseteq Messages /\ dropped \subseteq Messages
  /\ rejects \in 0 .. MaxRejects
  /\ faults \in 0 .. MaxFaults

\* No message is stranded.  A subscription that consume has left may keep its
\* connection, and with it the messages the broker waits for; that happens only
\* when nothing is delivered to it any more, and each of these messages has been
\* answered.
NothingStranded ==
  /\ TypeOK
  /\ \A i \in DOMAIN subs :
       subs[i].stop /\ subs[i].open =>
         /\ ~subs[i].delivering
         /\ subs[i].unacked = {subs[i].acks[j][1] : j \in DOMAIN subs[i].acks}

\* A prefetch of one paces the delivery: the messages leave the queue in its
\* order, however often one of them is rejected, put back or redelivered to a
\* new subscription.  A broker that ends the deliveries and keeps the channel
\* can serve the next subscription before the last answer reaches it.
GoneInOrder ==
  [][\A m \in gone' \ gone :
       prefetch = 1 /\ (\A i \in DOMAIN subs : subs[i].delivering)
         => 1 .. m \subseteq gone']_vars

\* The consumer implements what Redelivery promises, a message that it rejects
\* and gives up under drop_on_error aside: no crash, death of a channel or lost
\* acknowledgement in between makes the queue forget an event.
Contract == INSTANCE Redelivery WITH
              kept <- Messages \ gone, accepted <- accepted \cup dropped
RedeliverySpec == Contract!Spec

\* A shutdown ends Consume: whoever waits for a delivery is woken by the
\* watchdog.
EndsWhenAsked == (ctxDone \/ closed) ~> (pc = "ended" \/ ~(ctxDone \/ closed))

\* A consumer that keeps consuming consumes everything: a rejected message is
\* delivered again, one that is no event does not stand in the way of those
\* behind it, and a new subscription picks up what a lost one left.
EverythingSettles ==
  <>[](pc # "ended" /\ ~ctxDone /\ ~closed) => <>(gone = Messages)

\* The comment of RabbitMQConsumer: a subscription the broker closed is rebuilt.
\* That it was closed under a message in the handler, whose acknowledgement then
\* fails, is no reason to end.
SurvivesRestart == pc = "ended" /\ err = "settle failed" => ctxDone \/ closed

\* IConsumer: Close releases the resources held by the consumer.  Nothing is
\* left to do that could still release a connection.
CloseReleases ==
  closed /\ pc = "ended" /\ (\A i \in DOMAIN subs : ~subs[i].watch)
    => \A i \in DOMAIN subs : ~subs[i].connected

=============================================================================
