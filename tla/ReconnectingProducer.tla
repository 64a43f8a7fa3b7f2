-------------------------- MODULE ReconnectingProducer -------------------------
(***************************************************************************)
(* The producers that rebuild what they publish with after a failure:      *)
(* queue/producer/pulsar.go and queue/producer/rocket.go, which have the   *)
(* same Send, reconnect and Close around the client of their library.      *)
(*                                                                         *)
(* A handle is what publishes: the Pulsar client and producer, or the      *)
(* RocketMQ producer.  handles has the state of every one that was made;   *)
(* producer is the index of the one in use, 0 for nil.  The mutex is held  *)
(* from the first to the last line of reconnect and Close, so each is one  *)
(* step.                                                                   *)
(***************************************************************************)
EXTENDS Naturals, Sequences, FiniteSets

CONSTANTS
  Senders,    \* goroutines that call Send
  MaxSends,   \* bound: calls of Send by all of them
  MaxFaults,  \* bound: faults of the network and the broker
  Env         \* what else can go wrong, see EnvEvents

EnvEvents ==
  { "break",    \* the broker drops a connection
    "refuse",   \* a dial fails
    "timeout",  \* a publish reports an error on a working connection
    "close"     \* the producer is closed
  }

ASSUME ReconnectingAssumption ==
  /\ MaxSends \in Nat
  /\ MaxFaults \in Nat
  /\ Env \subseteq EnvEvents

VARIABLES
  handles,   \* the handles made so far
  producer,  \* the one in use
  closed,    \* Close was called
  senders,   \* the state of every call of Send
  stored,    \* how often the broker has stored a message
  faults     \* faults so far

vars == <<handles, producer, closed, senders, stored, faults>>

Message == Senders \X (1 .. MaxSends)

\* open: works.  broken: dropped by the broker.  released: closed by us.
HandleStates == {"open", "broken", "released"}

Init ==
  /\ handles = <<"open">>
  /\ producer = 1
  /\ closed = FALSE
  /\ senders = [s \in Senders |->
       [pc |-> "idle", sends |-> 0, cli |-> 0, attempt |-> 1, result |-> "none"]]
  /\ stored = [m \in Message |-> 0]
  /\ faults = 0

Returns(s, result) ==
  senders' = [senders EXCEPT ![s].pc = "idle", ![s].cli = 0, ![s].result = result]

\* The messages that were handed to the producer.
Sent == {m \in Message : m[2] <= senders[m[1]].sends}

Fault(event) ==
  /\ event \in Env
  /\ faults < MaxFaults
  /\ faults' = faults + 1

-----------------------------------------------------------------------------
Send(s) ==
  /\ senders[s].pc = "idle"
  /\ Cardinality(Sent) < MaxSends
  /\ senders' = [senders EXCEPT ![s].pc = "read", ![s].sends = @ + 1,
                                ![s].attempt = 1, ![s].result = "none"]
  /\ UNCHANGED <<handles, producer, closed, stored, faults>>

\* The producer and the flag, under the lock.
Read(s) ==
  /\ senders[s].pc = "read"
  /\ \/ closed /\ Returns(s, "failed")
     \/ /\ ~closed /\ producer = 0
        /\ senders' = [senders EXCEPT ![s].pc = "reconnect"]
     \/ /\ ~closed /\ producer # 0
        /\ senders' = [senders EXCEPT ![s].pc = "publish", ![s].cli = producer]
  /\ UNCHANGED <<handles, producer, closed, stored, faults>>

\* The old handle is released, and there is none until the dial succeeds.
Released == [i \in DOMAIN handles |-> IF i = producer THEN "released" ELSE handles[i]]

\* Mutant of Reconnect: the flag is not looked at.
ReconnectAfterClose(s) ==
  /\ senders[s].pc = "reconnect"
  /\ handles' = Append(Released, "open")
  /\ producer' = Len(handles) + 1
  /\ senders' = [senders EXCEPT ![s].pc = "read again"]
  /\ UNCHANGED <<closed, stored, faults>>

\* Mutant of Reconnect: a dial that fails is not reported.
ReconnectIgnoresError(s) ==
  /\ senders[s].pc = "reconnect"
  /\ ~closed
  /\ \/ handles' = Append(Released, "open") /\ producer' = Len(handles) + 1 /\ UNCHANGED faults
     \/ Fault("refuse") /\ handles' = Released /\ producer' = 0
  /\ senders' = [senders EXCEPT ![s].pc = "read again"]
  /\ UNCHANGED <<closed, stored>>

\* reconnect: it replaces whatever is in use.
Reconnect(s) ==
  /\ senders[s].pc = "reconnect"
  /\ \/ /\ closed
        /\ Returns(s, "failed")
        /\ UNCHANGED <<handles, producer, faults>>
     \/ /\ ~closed
        /\ handles' = Append(Released, "open")
        /\ producer' = Len(handles) + 1
        /\ senders' = [senders EXCEPT ![s].pc = "read again"]
        /\ UNCHANGED faults
     \/ /\ ~closed
        /\ Fault("refuse")
        /\ handles' = Released
        /\ producer' = 0
        /\ Returns(s, "failed")
  /\ UNCHANGED <<closed, stored>>

\* Mutant of ReadAgain: the retry uses the producer that failed.
ReadAgainKeeps(s) ==
  /\ senders[s].pc = "read again"
  /\ senders' = [senders EXCEPT ![s].pc = "publish",
                                ![s].cli = IF @ = 0 THEN producer ELSE @]
  /\ UNCHANGED <<handles, producer, closed, stored, faults>>

\* After a reconnect the producer is read once more, whatever it is by now.
ReadAgain(s) ==
  /\ senders[s].pc = "read again"
  /\ senders' = [senders EXCEPT ![s].pc = "publish", ![s].cli = producer]
  /\ UNCHANGED <<handles, producer, closed, stored, faults>>

Store(s) == stored' = [stored EXCEPT ![<<s, senders[s].sends>>] = @ + 1]

Publish(s) ==
  /\ senders[s].pc = "publish" /\ senders[s].cli # 0
  /\ handles[senders[s].cli] = "open"
  /\ Store(s)
  /\ Returns(s, "ok")
  /\ UNCHANGED <<handles, producer, closed, faults>>

\* The first error leads to a reconnect, the second one is reported.  The
\* message may have been stored for all that, unless the handle was released.
PublishFails(s) ==
  /\ senders[s].pc = "publish" /\ senders[s].cli # 0
  /\ \/ handles[senders[s].cli] = "open" /\ Fault("timeout")
     \/ handles[senders[s].cli] # "open" /\ UNCHANGED faults
  /\ \/ UNCHANGED stored
     \/ handles[senders[s].cli] # "released" /\ Store(s)
  /\ IF senders[s].attempt = 1
     THEN senders' = [senders EXCEPT ![s].pc = "reconnect", ![s].attempt = 2]
     ELSE Returns(s, "failed")
  /\ UNCHANGED <<handles, producer, closed>>

\* A nil producer ends the process.
PublishPanics(s) ==
  /\ senders[s].pc = "publish" /\ senders[s].cli = 0
  /\ senders' = [senders EXCEPT ![s].pc = "panicked"]
  /\ UNCHANGED <<handles, producer, closed, stored, faults>>

Close ==
  /\ "close" \in Env
  /\ ~closed
  /\ closed' = TRUE
  /\ handles' = Released
  /\ UNCHANGED <<producer, senders, stored, faults>>

\* The broker drops the connection of a handle.
BrokerBreaks(i) ==
  /\ handles[i] = "open"
  /\ Fault("break")
  /\ handles' = [handles EXCEPT ![i] = "broken"]
  /\ UNCHANGED <<producer, closed, senders, stored>>

Resting ==
  /\ \A s \in Senders : senders[s].pc \in {"idle", "panicked"}
  /\ UNCHANGED vars

Next ==
  \/ \E s \in Senders :
       \/ Send(s) \/ Read(s) \/ Reconnect(s) \/ ReadAgain(s)
       \/ Publish(s) \/ PublishFails(s) \/ PublishPanics(s)
  \/ Close
  \/ \E i \in DOMAIN handles : BrokerBreaks(i)
  \/ Resting

Spec == Init /\ [][Next]_vars

-----------------------------------------------------------------------------
\* Every variable has its type.
TypeOK ==
  /\ handles \in Seq(HandleStates)
  /\ producer \in 0 .. Len(handles)
  /\ closed \in BOOLEAN
  /\ senders \in [Senders ->
       [pc : {"idle", "read", "reconnect", "read again", "publish", "panicked"},
        sends : 0 .. MaxSends, cli : 0 .. Len(handles), attempt : {1, 2},
        result : {"none", "ok", "failed"}]]
  /\ stored \in [Message -> Nat]
  /\ faults \in 0 .. MaxFaults

\* Nothing but the handle in use is left unreleased, and after Close nothing
\* is: a reconnect that waited for the lock while Close ran makes no new one.
OnlyTheCurrentIsOpen ==
  /\ TypeOK
  /\ \A i \in DOMAIN handles :
       handles[i] # "released" => i = producer /\ ~closed

\* Nobody but s has sent anything, as in Listen.
Alone(s) == \A o \in Senders \ {s} : senders[o].sends = 0

\* The comment of PulsarProducer: a restart of the broker does not leave the
\* producer unable to publish.  While one goroutine sends, a lost connection or
\* a publish that failed makes no Send report an error, but for Close.  This is a
\* restart that is over by the time of the dial: of a longer one Send does report
\* an error, as a refused dial is a second fault.
RestartCostsNothing ==
  \A s \in Senders : Alone(s) /\ faults <= 1 /\ senders[s].result = "failed" => closed

\* While one goroutine sends, no publish meets a nil producer, whatever dials
\* fail and whenever it is closed.
NeverNil == \A s \in Senders : Alone(s) => senders[s].pc # "panicked"

\* The comment of reconnect: it is a no-op if another goroutine has already
\* reconnected, that is when the producer in use is not the one that failed.
ReconnectIsNoOp ==
  [][\A s \in Senders :
       senders[s].pc = "reconnect" /\ senders'[s].pc # "reconnect"
         /\ senders[s].cli # 0 /\ producer > senders[s].cli
         => producer' = producer]_vars

=============================================================================
