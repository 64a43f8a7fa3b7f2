-------------------------------- MODULE Consumer -------------------------------
(***************************************************************************)
(* What the consumers of the Pulsar, RocketMQ and Redis middlewares have   *)
(* in common (queue/consumer/consumer.go): the calls of IConsumer, the     *)
(* verdict of processMessage on one message, and where the messages are    *)
(* that a library has not given away yet.                                  *)
(***************************************************************************)
EXTENDS Naturals, FiniteSets

CONSTANTS
  N,           \* messages that are published
  Junk,        \* those whose payload is not an event
  MaxRuns,     \* bound: calls of Consume
  MaxRejects,  \* bound: times the handler fails
  MaxCrashes,  \* bound: times the process is killed
  Env          \* what can happen, see EnvEvents

Messages == 1 .. N

EnvEvents ==
  { "refuse",     \* the middleware cannot be reached
    "terminate",  \* the Pulsar topic is terminated
    "stop",       \* the context of Consume is canceled
    "close"       \* the consumer is closed
  }

ASSUME ConsumerAssumption ==
  /\ N \in Nat
  /\ Junk \subseteq Messages
  /\ MaxRuns \in Nat
  /\ MaxRejects \in Nat
  /\ MaxCrashes \in Nat
  /\ Env \subseteq EnvEvents

VARIABLES
  backlog,   \* messages at the broker that are with no consumer
  pushed,    \* messages the library has received and not given away
  delayed,   \* messages waiting for their redelivery
  library,   \* what the consumer holds of the library: none, open, closed
  closed,    \* the flag Close sets under the mutex
  closing,   \* where Close is: no, taken, done
  pc,        \* where Consume is
  msg,       \* the message in its hand, a set of at most one
  result,    \* what it returned
  ctxDone,   \* its context is canceled
  runs,      \* calls of Consume
  accepted,  \* messages the handler accepted at least once
  rejects,   \* times it rejected one
  crashes    \* crashes so far

broker  == <<backlog, pushed, delayed>>
stops   == <<closed, closing>>
consume == <<pc, msg, result, ctxDone, runs>>
history == <<accepted, rejects>>
common  == <<broker, library, stops, consume, history, crashes>>

CommonInit ==
  /\ backlog = Messages /\ pushed = {} /\ delayed = {}
  /\ library = "none"
  /\ closed = FALSE /\ closing = "no"
  /\ pc = "idle" /\ msg = {} /\ result = "none"
  /\ ctxDone = FALSE /\ runs = 0
  /\ accepted = {} /\ rejects = 0
  /\ crashes = 0

\* A call of Consume, with a context of its own.
Called ==
  /\ pc = "idle"
  /\ runs < MaxRuns
  /\ runs' = runs + 1
  /\ ctxDone' = FALSE

Returns(what) ==
  /\ pc' = "idle"
  /\ result' = what
  /\ UNCHANGED <<ctxDone, runs>>

Goes(where) ==
  /\ pc' = where
  /\ UNCHANGED <<result, ctxDone, runs>>

\* processMessage: what is not an event is disposed of, and for an event the
\* handler decides.
processMessage(m, disposition) ==
  \/ /\ disposition = "ack"
     /\ accepted' = accepted \cup ({m} \ Junk)
     /\ UNCHANGED rejects
  \/ /\ disposition = "retry"
     /\ m \notin Junk
     /\ rejects < MaxRejects
     /\ rejects' = rejects + 1
     /\ UNCHANGED accepted

Dispositions == {"ack", "retry"}

\* Close sets the flag.  A second call finds it set and does nothing.
TakesClose ==
  /\ "close" \in Env
  /\ ~closed
  /\ closed' = TRUE

CancelContext ==
  /\ "stop" \in Env
  /\ pc # "idle" /\ ~ctxDone
  /\ ctxDone' = TRUE
  /\ UNCHANGED <<broker, library, stops, pc, msg, result, runs, history, crashes>>

\* The process is killed; its successor starts with a consumer of its own.
Killed ==
  /\ crashes < MaxCrashes
  /\ crashes' = crashes + 1
  /\ pushed' = {}
  /\ library' = "none"
  /\ closed' = FALSE /\ closing' = "no"
  /\ pc' = "idle" /\ msg' = {} /\ result' = "none"
  /\ ctxDone' = FALSE
  /\ UNCHANGED <<runs, history>>

\* The broker gives a message to the library.
BrokerDelivers ==
  /\ library = "open"
  /\ \E m \in backlog : backlog' = backlog \ {m} /\ pushed' = pushed \cup {m}
  /\ UNCHANGED <<delayed, library, stops, consume, history, crashes>>

CommonTypeOK ==
  /\ backlog \subseteq Messages /\ pushed \subseteq Messages /\ delayed \subseteq Messages
  /\ library \in {"none", "open", "closed"}
  /\ closed \in BOOLEAN /\ closing \in {"no", "taken", "done"}
  /\ closed <=> closing # "no"
  /\ msg \subseteq Messages /\ Cardinality(msg) <= 1
  /\ result \in {"none", "nil", "canceled", "failed"}
  /\ ctxDone \in BOOLEAN
  /\ runs \in 0 .. MaxRuns
  /\ accepted \subseteq Messages \ Junk
  /\ rejects \in 0 .. MaxRejects
  /\ crashes \in 0 .. MaxCrashes

=============================================================================
