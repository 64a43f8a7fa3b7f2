---------------------------- MODULE RabbitProducer ----------------------------
(***************************************************************************)
(* The RabbitMQ producer (queue/producer/rabbit.go).                       *)
(*                                                                         *)
(* A rabbitClient is one connection with one channel in confirm mode.  It  *)
(* numbers its publishes, keeps a waiter for each, and its dispatch        *)
(* goroutine hands the broker's answers to the waiters.  The producer keeps *)
(* one client and replaces it when its channel is no longer usable.        *)
(*                                                                         *)
(* A client is a record of the sequence clients, in the order they were    *)
(* dialed; client is the index of the one in use, 0 when there is none.    *)
(* The library's reader goroutine is folded into the broker: an answer is  *)
(* in its Go channel the moment it is given.                               *)
(***************************************************************************)
EXTENDS Naturals, Sequences, FiniteSets

CONSTANTS
  Senders,   \* goroutines that call Send
  MaxSends,  \* bound: calls of Send by all of them
  MaxDials,  \* bound: connections that can be made
  Env        \* what can go wrong, see EnvEvents

EnvEvents ==
  { "die",        \* the broker closes the channel or the connection
    "nack",       \* the broker rejects a message
    "unroutable", \* no queue is bound for a message
    "write",      \* a publish fails without reaching the broker
    "cancel",     \* the context of a Send is canceled
    "close"       \* the producer is closed
  }

ASSUME RabbitAssumption ==
  /\ MaxSends \in Nat
  /\ MaxDials \in Nat \ {0}
  /\ Env \subseteq EnvEvents

VARIABLES
  clients,  \* the clients dialed so far
  client,   \* the client in use
  closed,   \* Close was called
  senders,  \* the state of every call of Send
  stored    \* messages the broker has put into a queue

vars == <<clients, client, closed, senders, stored>>

\* A message is the sender and the number of its Send.
Message == Senders \X (1 .. MaxSends)

\* The messages that were handed to the producer.
Sent == {m \in Message : m[2] <= senders[m[1]].sends}

\* An answer the broker gives to a publish.
Verdicts == {"ok", "rejected", "unroutable"}

NewClient ==
  [seq       |-> 0,      \* number of the last publish
   waiters   |-> {},     \* publishes without an answer: tag, sender, call
   returned  |-> {},     \* tags of messages that came back
   dead      |-> FALSE,  \* stop() has run
   open      |-> TRUE,   \* the channel is open
   connected |-> TRUE,   \* the connection is open
   got       |-> 0,      \* messages the broker has received on the channel
   wire      |-> << >>,  \* messages it has not handled yet
   returns   |-> << >>,  \* message ids it sent back
   confirms  |-> << >>]  \* delivery tags it answered, with ack or nack

IdleSender ==
  [pc |-> "idle", sends |-> 0, calls |-> 0, attempt |-> 1, cli |-> 0,
   answer |-> "none", result |-> "none"]

Init ==
  /\ clients = <<NewClient>>
  /\ client = 1
  /\ closed = FALSE
  /\ senders = [s \in Senders |-> IdleSender]
  /\ stored = {}

\* err() finds nothing wrong with the client.
Usable(c) == ~clients[c].dead /\ clients[c].open

\* Publishes still waiting on a client for their answer.
Waiting(cs, tag) == \E w \in cs.waiters : w.tag = tag

\* close() of a client.  What it has written is still on its way.
Closed(cs) == [cs EXCEPT !.open = FALSE, !.connected = FALSE]

-----------------------------------------------------------------------------
(* Send.                                                                   *)

Send(s) ==
  /\ senders[s].pc = "idle"
  /\ Cardinality(Sent) < MaxSends
  /\ senders' = [senders EXCEPT ![s].pc = "current", ![s].sends = @ + 1,
                                ![s].attempt = 1, ![s].result = "none"]
  /\ UNCHANGED <<clients, client, closed, stored>>

\* Send returns.
Returns(s, result) ==
  senders' = [senders EXCEPT ![s].pc = "idle", ![s].result = result]

\* publish reports an error: the first one leads to reconnect, the second one
\* is what Send reports.
PublishFails(s) ==
  IF senders[s].attempt = 1
  THEN senders' = [senders EXCEPT ![s].pc = "reconnect"]
  ELSE Returns(s, "failed")

\* dial succeeds and its client becomes the one in use.
Dialed(cs) ==
  /\ Len(cs) < MaxDials
  /\ clients' = Append(cs, NewClient)
  /\ client' = Len(cs) + 1

\* current(): the client in use, or a new one after a reconnect that failed.
Current(s) ==
  /\ senders[s].pc = "current"
  /\ \/ /\ closed \/ client = 0
        /\ Returns(s, "failed")
        /\ UNCHANGED <<clients, client>>
     \/ /\ ~closed /\ client # 0
        /\ senders' = [senders EXCEPT ![s].pc = "check", ![s].cli = client]
        /\ UNCHANGED <<clients, client>>
     \/ /\ ~closed /\ client = 0
        /\ Dialed(clients)
        /\ senders' = [senders EXCEPT ![s].pc = "check", ![s].cli = client']
  /\ UNCHANGED <<closed, stored>>

\* publish begins with a look at err(), without the lock.
Check(s) ==
  /\ senders[s].pc = "check"
  /\ IF Usable(senders[s].cli)
     THEN senders' = [senders EXCEPT ![s].pc = "publish"]
     ELSE PublishFails(s)
  /\ UNCHANGED <<clients, client, closed, stored>>

\* The part of publish under the lock of the client: the number is taken, the
\* waiter registered and the message written.
PublishWritten(s) ==
  LET c   == senders[s].cli
      tag == clients[c].seq + 1
      w   == [tag |-> tag, sender |-> s, call |-> senders[s].calls + 1]
      m   == [id |-> tag, msg |-> <<s, senders[s].sends>>]
  IN  /\ senders[s].pc = "publish"
      /\ Usable(c)
      /\ clients' = [clients EXCEPT ![c].seq = tag, ![c].waiters = @ \cup {w},
                                    ![c].wire = Append(@, m)]
      /\ senders' = [senders EXCEPT ![s].pc = "await", ![s].calls = @ + 1,
                                    ![s].answer = "none"]
      /\ UNCHANGED <<client, closed, stored>>

\* Mutant of PublishNotWritten: the number is not handed back.
PublishKeepsNumber(s) ==
  /\ senders[s].pc = "publish"
  /\ ~Usable(senders[s].cli) \/ "write" \in Env
  /\ PublishFails(s)
  /\ clients' = [clients EXCEPT ![senders[s].cli].seq = @ + 1]
  /\ UNCHANGED <<client, closed, stored>>

\* Mutant of PublishNotWritten: the number is handed back first, and the
\* waiter of the publish before is deleted.
PublishDeletesOther(s) ==
  /\ senders[s].pc = "publish"
  /\ ~Usable(senders[s].cli) \/ "write" \in Env
  /\ PublishFails(s)
  /\ LET c == senders[s].cli
     IN  clients' = [clients EXCEPT ![c].waiters = {w \in @ : w.tag # clients[c].seq}]
  /\ UNCHANGED <<client, closed, stored>>

\* The client died since the look at it, or the write fails.  The number and
\* the waiter are taken back.
PublishNotWritten(s) ==
  /\ senders[s].pc = "publish"
  /\ ~Usable(senders[s].cli) \/ "write" \in Env
  /\ PublishFails(s)
  /\ UNCHANGED <<clients, client, closed, stored>>

\* The select of publish: an answer or the end of the client (AwaitCanceled is
\* its third case).  Which of several it takes is open.
Await(s) ==
  /\ senders[s].pc = "await"
  /\ \/ /\ senders[s].answer = "ok"
        /\ Returns(s, "ok")
     \/ /\ senders[s].answer = "unroutable" /\ senders[s].attempt = 1
        /\ Returns(s, "unroutable")
     \/ /\ \/ senders[s].answer = "unroutable" /\ senders[s].attempt = 2
           \/ senders[s].answer \in {"rejected", "stopped"}
           \/ clients[senders[s].cli].dead
        /\ PublishFails(s)
  /\ UNCHANGED <<clients, client, closed, stored>>

\* The context is canceled, or its deadline passes, before the answer.
AwaitCanceled(s) ==
  /\ "cancel" \in Env
  /\ senders[s].pc = "await"
  /\ PublishFails(s)
  /\ UNCHANGED <<clients, client, closed, stored>>

\* Mutant of NoDial: no look at whether another goroutine was faster.
NoDialUnlessDead(c) == closed \/ Usable(c)

\* reconnect leaves a client that failed as it is: the producer is closed,
\* another goroutine was faster, or the client is well.
NoDial(c) == closed \/ client # c \/ Usable(c)

\* reconnect(): the lock of the producer is held from here to its return.
Reconnect(s) ==
  /\ senders[s].pc = "reconnect"
  /\ \/ /\ NoDial(senders[s].cli)
        /\ Returns(s, "failed")
        /\ UNCHANGED <<clients, client>>
     \/ /\ ~NoDial(senders[s].cli)
        /\ LET closing == [clients EXCEPT ![senders[s].cli] = Closed(@)]
           IN  \/ /\ Dialed(closing)
                  /\ senders' = [senders EXCEPT ![s].pc = "current", ![s].attempt = 2]
               \/ /\ clients' = closing
                  /\ client' = 0
                  /\ Returns(s, "failed")
  /\ UNCHANGED <<closed, stored>>

SendStep(s) ==
  \/ Current(s)
  \/ Check(s)
  \/ PublishWritten(s)
  \/ PublishNotWritten(s)
  \/ Await(s)
  \/ Reconnect(s)

Close ==
  /\ "close" \in Env
  /\ ~closed
  /\ closed' = TRUE
  /\ client' = 0
  /\ clients' = IF client = 0 THEN clients ELSE [clients EXCEPT ![client] = Closed(@)]
  /\ UNCHANGED <<senders, stored>>

-----------------------------------------------------------------------------
(* The dispatch goroutine of a client.                                     *)

\* markReturned for a number of message ids: those somebody waits for.
MarkReturned(cs, ids) == cs.returned \cup {id \in ids : Waiting(cs, id)}

Elements(q) == {q[i] : i \in 1 .. Len(q)}

\* Mutant of Answer: one Go channel for all the publishes of a goroutine.
AnswerAnyCall(ws, answer) ==
  [s \in Senders |->
     IF \E w \in ws : w.sender = s
     THEN [senders[s] EXCEPT !.answer = answer] ELSE senders[s]]

\* The answer goes to the publish that waits for the tag; a publish that has
\* stopped waiting has left its channel behind.
Answer(ws, answer) ==
  [s \in Senders |->
     IF \E w \in ws : w.sender = s /\ w.call = senders[s].calls
     THEN [senders[s] EXCEPT !.answer = answer] ELSE senders[s]]

DispatchReturn(c) ==
  LET cs == clients[c]
  IN  /\ ~cs.dead
      /\ cs.returns # << >>
      /\ clients' = [clients EXCEPT ![c].returns = Tail(@),
                       ![c].returned = MarkReturned(cs, {Head(cs.returns)})]
      /\ UNCHANGED <<client, closed, senders, stored>>

\* Mutant of drainReturns: they are not marked.
drainsNothing(cs) == cs.returned

\* drainReturns: every return the client has received by now is marked.
drainReturns(cs) == MarkReturned(cs, Elements(cs.returns))

\* A confirmation: drainReturns, then settle.
DispatchConfirm(c) ==
  LET cs   == clients[c]
      conf == Head(cs.confirms)
      back == drainReturns(cs)
  IN  /\ ~cs.dead
      /\ cs.confirms # << >>
      /\ senders' = Answer({w \in cs.waiters : w.tag = conf.tag},
                           IF conf.tag \in back THEN "unroutable"
                           ELSE IF conf.ack THEN "ok" ELSE "rejected")
      /\ clients' = [clients EXCEPT
                       ![c].confirms = Tail(@), ![c].returns = << >>,
                       ![c].waiters  = {w \in @ : w.tag # conf.tag},
                       ![c].returned = back \ {conf.tag}]
      /\ UNCHANGED <<client, closed, stored>>

\* The channel is closed: stop() releases every waiter.  Answers that are
\* still in the Go channels are not looked at any more.
DispatchClosed(c) ==
  LET cs == clients[c]
  IN  /\ ~cs.dead
      /\ ~cs.open
      /\ senders' = Answer(cs.waiters, "stopped")
      /\ clients' = [clients EXCEPT ![c].dead = TRUE, ![c].waiters = {},
                                    ![c].returned = {}]
      /\ UNCHANGED <<client, closed, stored>>

Dispatch(c) == DispatchReturn(c) \/ DispatchConfirm(c) \/ DispatchClosed(c)

-----------------------------------------------------------------------------
(* The broker, outside src/.                                               *)

\* It handles the next message of a channel: stores and acks it, rejects it,
\* or sends it back and then acks it.  The delivery tag counts the messages of
\* the channel; a returned message carries the id the client gave it.
BrokerAnswers(c) ==
  LET m   == Head(clients[c].wire)
      tag == clients[c].got + 1
      Answers(ack, returns) ==
        clients' = [clients EXCEPT
                      ![c].wire = Tail(@), ![c].got = tag,
                      ![c].returns = @ \o returns,
                      ![c].confirms = Append(@, [tag |-> tag, ack |-> ack])]
  IN  /\ clients[c].open
      /\ clients[c].wire # << >>
      /\ \/ stored' = stored \cup {m.msg} /\ Answers(TRUE, << >>)
         \/ "nack" \in Env /\ stored' = stored /\ Answers(FALSE, << >>)
         \/ "unroutable" \in Env /\ stored' = stored /\ Answers(TRUE, <<m.id>>)
      /\ UNCHANGED <<client, closed, senders>>

\* The broker closes the channel, or the whole connection, with some of the
\* messages stored and nothing said about them.
ChannelDies(c) ==
  LET wire == clients[c].wire
  IN  /\ "die" \in Env
      /\ clients[c].open
      /\ \E n \in 0 .. Len(wire), connected \in BOOLEAN :
           /\ stored' = stored \cup {wire[i].msg : i \in 1 .. n}
           /\ clients' = [clients EXCEPT ![c].open = FALSE, ![c].wire = << >>,
                                         ![c].connected = connected]
      /\ UNCHANGED <<client, closed, senders>>

\* It reads what was written before a client closed its channel, and nobody hears
\* of it any more.  A message it does not get, rejects or sends back is nowhere.
BrokerReadsOn(c) ==
  LET m == Head(clients[c].wire)
  IN  /\ ~clients[c].open
      /\ clients[c].wire # << >>
      /\ clients' = [clients EXCEPT ![c].wire = Tail(@)]
      /\ stored' \in {stored, stored \cup {m.msg}}
      /\ UNCHANGED <<client, closed, senders>>

Clients == 1 .. Len(clients)

\* Every Send has been made and every dispatcher has nothing to do.
Resting ==
  /\ \A s \in Senders : senders[s].pc = "idle"
  /\ Cardinality(Sent) = MaxSends
  /\ UNCHANGED vars

Next ==
  \/ \E s \in Senders : Send(s) \/ SendStep(s) \/ AwaitCanceled(s)
  \/ Close
  \/ \E c \in Clients : Dispatch(c) \/ BrokerAnswers(c) \/ BrokerReadsOn(c) \/ ChannelDies(c)
  \/ Resting

Spec == Init /\ [][Next]_vars

\* Goroutines go on while they can, and the broker handles what it was sent
\* while the channel is up.
FairSpec ==
  /\ Spec
  /\ \A s \in Senders : WF_vars(SendStep(s))
  /\ \A c \in 1 .. MaxDials :
       WF_vars(c \in Clients /\ (Dispatch(c) \/ BrokerAnswers(c)))

-----------------------------------------------------------------------------

\* Every variable has its type, a returned message has a waiter, and the broker
\* has seen no more publishes than the client numbered.
TypeOK ==
  /\ Len(clients) \in 1 .. MaxDials
  /\ client \in 0 .. Len(clients)
  /\ closed \in BOOLEAN
  /\ stored \subseteq Message
  /\ \A c \in Clients :
       /\ clients[c].seq \in Nat
       /\ clients[c].returned \subseteq {w.tag : w \in clients[c].waiters}
       /\ clients[c].got <= clients[c].seq
  /\ \A s \in Senders :
       /\ senders[s].pc \in {"idle", "current", "check", "publish", "await", "reconnect"}
       /\ senders[s].sends \in 0 .. MaxSends
       /\ senders[s].calls \in 0 .. 2 * MaxSends
       /\ senders[s].attempt \in {1, 2}
       /\ senders[s].cli \in 0 .. Len(clients)
       /\ senders[s].answer \in Verdicts \cup {"none", "stopped"}
       /\ senders[s].result \in {"none", "ok", "failed", "unroutable"}

\* What Send reports is true: success means that the message is in a queue, and
\* a message that is called unroutable, which Send takes for final, is in none.
\* A message that was sent back, rejected or lost with its channel is no
\* success, whichever messages are answered meanwhile (rabbit.go:227-229).
ReportIsTrue ==
  \A s \in Senders :
    LET m == <<s, senders[s].sends>>
    IN  /\ senders[s].result = "ok" => m \in stored
        /\ senders[s].result = "unroutable" => m \notin stored

\* The numbers the client gives and the delivery tags the broker counts stay
\* in step, however publishes of several goroutines and failing writes mix.
TagsInStep ==
  /\ TypeOK
  /\ \A c \in Clients :
       clients[c].open =>
         /\ clients[c].seq = clients[c].got + Len(clients[c].wire)
         /\ \A i \in 1 .. Len(clients[c].wire) :
              clients[c].wire[i].id = clients[c].got + i

\* However many goroutines notice a failure, one connection is open, it is the
\* one in use, and none is left when the producer is closed.
OneConnection ==
  \A c \in Clients : clients[c].connected => c = client

\* Send always returns, even without a deadline: a channel that ends releases
\* whoever waits on it.
SendReturns == \A s \in Senders : senders[s].pc # "idle" ~> senders[s].pc = "idle"

=============================================================================
