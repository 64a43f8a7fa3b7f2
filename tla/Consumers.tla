-------------------------------- MODULE Consumers ------------------------------
(***************************************************************************)
(* The consumer a process has: the one the configuration names             *)
(* (NewConsumer of queue/consumer/consumer.go).  What IConsumer and        *)
(* Handler promise is stated once, for whichever it is.                    *)
(***************************************************************************)
EXTENDS Consumer, Sequences

CONSTANTS
  Types,     \* the types the configuration may name
  MaxBatch,  \* bound: messages of a RocketMQ batch
  MaxBreaks  \* bound: answers of Redis that are lost

ASSUME ConsumersAssumption ==
  /\ Types \subseteq {"pulsar", "rocketmq", "redis"}
  /\ MaxBatch \in Nat
  /\ MaxBreaks \in Nat

VARIABLES
  type,                              \* the type of the configuration
  unacked, acks, consumer, verdict,  \* of PulsarConsumer
  handled, batch, rejected, left,    \* of RocketMQConsumer
  list, sent, reply, breaks          \* of RedisConsumer

Pulsar == INSTANCE PulsarConsumer
Rocket == INSTANCE RocketMQConsumer
Redis  == INSTANCE RedisConsumer

ofPulsar == <<unacked, acks, consumer, verdict>>
ofRocket == <<handled, batch, rejected, left>>
ofRedis  == <<list, sent, reply, breaks>>
vars     == <<common, type, ofPulsar, ofRocket, ofRedis>>

Init ==
  /\ type \in Types
  /\ CommonInit
  /\ Pulsar!OwnInit /\ Rocket!OwnInit /\ Redis!OwnInit

\* A step of the consumer of one type.
IsPulsar == type = "pulsar" /\ UNCHANGED <<type, ofRocket, ofRedis>>
IsRocket == type = "rocketmq" /\ UNCHANGED <<type, ofPulsar, ofRedis>>
IsRedis  == type = "redis" /\ UNCHANGED <<type, ofPulsar, ofRocket>>

Next ==
  \/ IsPulsar /\ Pulsar!Next
  \/ IsRocket /\ Rocket!Next
  \/ IsRedis /\ Redis!Next

Spec == Init /\ [][Next]_vars

\* The loop of Pulsar goes on, Receive sees a shutdown, Close finishes and the
\* broker serves the subscription.
PulsarFairness ==
  /\ WF_vars(IsPulsar /\ Pulsar!ConsumeStep)
  /\ WF_vars(IsPulsar /\ Pulsar!ReceiveFails /\ (ctxDone \/ library = "closed"))
  /\ WF_vars(IsPulsar /\ Pulsar!CloseLibrary)
  /\ WF_vars(IsPulsar /\ Pulsar!BrokerPushes)
  /\ WF_vars(IsPulsar /\ Pulsar!BrokerAcks)
  /\ WF_vars(IsPulsar /\ Pulsar!Redelivers)

\* Consume and the callback go on, and the library and the broker serve the group.
RocketFairness ==
  /\ WF_vars(IsRocket /\ Rocket!ConsumeStep)
  /\ \A r \in 1 .. MaxRuns : WF_vars(IsRocket /\ Rocket!CallbackStep(r))
  /\ WF_vars(IsRocket /\ Rocket!Dispatch)
  /\ WF_vars(IsRocket /\ Rocket!CloseDone)
  /\ WF_vars(IsRocket /\ Rocket!StoresOffset)

\* The loop goes on, Redis answers, and a read on a closed client fails.
RedisFairness ==
  /\ WF_vars(IsRedis /\ Redis!ConsumeStep)
  /\ WF_vars(IsRedis /\ Redis!BRPop)
  /\ WF_vars(IsRedis /\ Redis!PopFails /\ library = "closed")
  /\ WF_vars(IsRedis /\ Redis!CloseClient)

FairSpec == Spec /\ PulsarFairness /\ RocketFairness /\ RedisFairness

-----------------------------------------------------------------------------
\* Every variable has its type, and only the consumer of the type has a state.
TypeOK ==
  /\ type \in Types
  /\ CommonTypeOK
  /\ IF type = "pulsar" THEN Pulsar!TypeOK ELSE Pulsar!OwnInit
  /\ IF type = "rocketmq" THEN Rocket!TypeOK ELSE Rocket!OwnInit
  /\ IF type = "redis" THEN Redis!TypeOK ELSE Redis!OwnInit

\* Nothing of the library is left open: by a Close that has returned (Pulsar,
\* Redis), also when it ran against the dial of a Consume that had just begun,
\* and by a Consume that has returned (RocketMQ), whatever it returned.
Released ==
  /\ TypeOK
  /\ type = "pulsar" => Pulsar!Released
  /\ type = "rocketmq" => Rocket!Released
  /\ type = "redis" => Redis!Released

\* What Redis loses, and only Redis: see RedisConsumer.
LostOnlySo == type = "redis" => Redis!LostOnlySo

\* Redis is a queue from Send to the handler: see RedisConsumer.
OldestFirst == type = "redis" => Redis!OldestFirst

\* A consumer with acknowledgements implements what Redelivery promises.
Contract == INSTANCE Redelivery WITH
              kept <- IF type = "pulsar" THEN Pulsar!Kept
                      ELSE IF type = "rocketmq" THEN Rocket!Kept ELSE Messages,
              accepted <- IF type = "redis" THEN {} ELSE accepted
RedeliverySpec == Contract!Spec

\* Every message is settled in the end by a Consume that goes on, the rejected
\* ones included.
EverythingSettles ==
  <>[](pc # "idle" /\ ~closed /\ ~ctxDone)
    => <>(\/ type = "pulsar" /\ Pulsar!Kept = {}
          \/ type = "rocketmq" /\ Rocket!Kept = {}
          \/ type = "redis" /\ list = << >>)

\* A canceled context and Close both end Consume.
EndsWhenAsked == (pc # "idle" /\ (ctxDone \/ closing = "done")) ~> (pc = "idle")

=============================================================================
