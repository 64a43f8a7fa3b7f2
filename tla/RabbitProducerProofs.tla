-------------------------- MODULE RabbitProducerProofs -------------------------
(* Theorems about RabbitProducer, for any number of goroutines, sends and  *)
(* connections, and every environment.                                     *)
EXTENDS RabbitProducer, FiniteSetTheorems, TLAPS

USE RabbitAssumption DEF RabbitAssumption

Waiter == [tag : Nat, sender : Senders, call : Nat]
Publish == [id : Nat, msg : Message]
Confirm == [tag : Nat, ack : BOOLEAN]

ClientRecord ==
  [seq : Nat, waiters : SUBSET Waiter, returned : SUBSET Nat, dead : BOOLEAN,
   open : BOOLEAN, connected : BOOLEAN, got : Nat,
   wire : Seq(Publish), returns : Seq(Nat), confirms : Seq(Confirm)]

SenderRecord ==
  [pc : {"idle", "current", "check", "publish", "await", "reconnect"},
   sends : 0 .. MaxSends, calls : 0 .. 2 * MaxSends, attempt : {1, 2}, cli : Nat,
   answer : Verdicts \cup {"none", "stopped"},
   result : {"none", "ok", "failed", "unroutable"}]

Types ==
  /\ clients \in Seq(ClientRecord) /\ Len(clients) \in 1 .. MaxDials
  /\ client \in 0 .. Len(clients)
  /\ closed \in BOOLEAN
  /\ senders \in [Senders -> SenderRecord]
  /\ stored \subseteq Sent
  /\ IsFiniteSet(Sent) /\ Cardinality(Sent) <= MaxSends

\* Publishes a call of Send may still make.
Left(r) ==
  IF r.pc = "idle" THEN 0
  ELSE IF r.pc \in {"await", "reconnect"} THEN 2 - r.attempt
  ELSE 3 - r.attempt

\* Where a call of Send is, when so many clients were dialed.
CallOK(r, dialed) ==
  /\ r.calls + Left(r) <= 2 * r.sends
  /\ r.cli <= dialed
  /\ r.pc \in {"check", "publish", "await", "reconnect"} => r.cli # 0
  /\ r.pc = "reconnect" => r.attempt = 1
  /\ r.pc # "idle" => r.result = "none" /\ r.sends # 0

\* The numbers of a channel: what is sent, answered and waited for.
Numbered(cs) ==
  /\ cs.got + Len(cs.wire) <= cs.seq
  /\ cs.open => /\ cs.connected
                /\ cs.seq = cs.got + Len(cs.wire)
                /\ \A i \in 1 .. Len(cs.wire) : cs.wire[i].id = cs.got + i
  /\ \A w \in cs.waiters : w.tag <= cs.seq
  /\ \A id \in cs.returned : id <= cs.got /\ Waiting(cs, id)
  /\ \A id \in Elements(cs.returns) : id <= cs.got
  /\ \A conf \in Elements(cs.confirms) : conf.tag <= cs.got

\* What a client has to do with the rest of the producer.
Belongs(cs, c) ==
  /\ cs.connected => c = client
  /\ \A m \in Elements(cs.wire) : m.msg \in Sent
  /\ \A w \in cs.waiters : w.call <= senders[w.sender].calls

\* The invariant the numbers, the types and the connections rest on.
ChannelInv ==
  /\ Types
  /\ \A s \in Senders : CallOK(senders[s], Len(clients))
  /\ \A c \in Clients : Numbered(clients[c]) /\ Belongs(clients[c], c)

\* The message a call of Send is about.
Own(s) == <<s, senders[s].sends>>

\* Messages that are in a queue, or can still get there.
Known == stored \cup {m.msg : m \in UNION {Elements(clients[c].wire) : c \in Clients}}

\* Tags of messages that came back, whether or not the dispatcher knows.
CameBack(cs) == cs.returned \cup Elements(cs.returns)

\* What is known of a publish that its sender awaits, by its tag.  That of a
\* first attempt is the only one of its message.
AwaitedOK(s, c, tag) ==
  LET cs == clients[c]
  IN  /\ cs.open /\ tag > cs.got =>
           [id |-> tag, msg |-> Own(s)] \in Elements(cs.wire)
      /\ \A conf \in Elements(cs.confirms) :
           conf.tag = tag /\ conf.ack => Own(s) \in stored \/ tag \in CameBack(cs)
      /\ senders[s].attempt = 1 =>
           /\ tag \in CameBack(cs) => Own(s) \notin Known
           /\ cs.open /\ tag > cs.got =>
                /\ Own(s) \notin stored
                /\ \A d \in Clients : \A m \in Elements(clients[d].wire) :
                     m.msg = Own(s) => d = c /\ m.id = tag

\* The answer a Send takes and what it reports.
ReportOK(s) ==
  /\ senders[s].result = "ok" => Own(s) \in stored
  /\ senders[s].result = "unroutable" => Own(s) \notin Known
  /\ senders[s].attempt = 1 /\ senders[s].pc \in {"current", "check", "publish"}
       => Own(s) \notin Known
  /\ senders[s].pc = "await" =>
       /\ senders[s].answer = "ok" => Own(s) \in stored
       /\ senders[s].attempt = 1 /\ senders[s].answer = "unroutable"
            => Own(s) \notin Known
       /\ \A c \in Clients : \A w \in clients[c].waiters :
            w.sender = s /\ w.call = senders[s].calls => AwaitedOK(s, c, w.tag)

ReportInv == ChannelInv /\ \A s \in Senders : ReportOK(s)

-----------------------------------------------------------------------------
(* Sequences.                                                              *)

LEMMA ElementsTyped ==
  ASSUME NEW S, NEW q \in Seq(S)
  PROVE  /\ Elements(q) \subseteq S
         /\ \A i \in 1 .. Len(q) : q[i] \in Elements(q)
         /\ q # << >> => Head(q) \in Elements(q) /\ Head(q) = q[1] /\ Len(q) # 0
         /\ \A e \in Elements(q) : \E i \in 1 .. Len(q) : e = q[i]
  BY DEF Elements

LEMMA TailElements ==
  ASSUME NEW S, NEW q \in Seq(S), q # << >>
  PROVE  /\ Tail(q) \in Seq(S) /\ Len(Tail(q)) = Len(q) - 1
         /\ \A i \in 1 .. Len(Tail(q)) : i + 1 \in 1 .. Len(q) /\ Tail(q)[i] = q[i + 1]
         /\ Elements(Tail(q)) \subseteq Elements(q)
         /\ Elements(q) = {Head(q)} \cup Elements(Tail(q))
<1>1. /\ Tail(q) \in Seq(S) /\ Len(Tail(q)) = Len(q) - 1
      /\ \A i \in 1 .. Len(Tail(q)) : i + 1 \in 1 .. Len(q) /\ Tail(q)[i] = q[i + 1]
  OBVIOUS
<1>2. Elements(Tail(q)) \subseteq Elements(q) /\ Head(q) \in Elements(q)
  BY <1>1, ElementsTyped DEF Elements
<1>3. ASSUME NEW e \in Elements(q), e # Head(q)
      PROVE  e \in Elements(Tail(q))
  <2>1. PICK i \in 1 .. Len(q) : e = q[i]
    BY DEF Elements
  <2>2. i # 1
    BY <1>3, <2>1, ElementsTyped
  <2>3. i - 1 \in 1 .. Len(Tail(q))
    BY <1>1, <2>2
  <2>4. Tail(q)[i - 1] = q[i]
    BY <1>1, <2>3
  <2> QED
    BY <2>1, <2>3, <2>4 DEF Elements
<1> QED
  BY <1>1, <1>2, <1>3

LEMMA AppendElements ==
  ASSUME NEW S, NEW q \in Seq(S), NEW e \in S
  PROVE  /\ Append(q, e) \in Seq(S) /\ Len(Append(q, e)) = Len(q) + 1
         /\ Append(q, e)[Len(q) + 1] = e
         /\ \A i \in 1 .. Len(q) : Append(q, e)[i] = q[i]
         /\ Elements(Append(q, e)) = Elements(q) \cup {e}
<1>1. /\ Append(q, e) \in Seq(S) /\ Len(Append(q, e)) = Len(q) + 1
      /\ Append(q, e)[Len(q) + 1] = e
      /\ \A i \in 1 .. Len(q) : Append(q, e)[i] = q[i]
  OBVIOUS
<1>2. 1 .. (Len(q) + 1) = 1 .. Len(q) \cup {Len(q) + 1}
  OBVIOUS
<1> QED
  BY <1>1, <1>2 DEF Elements

LEMMA ConcatElements ==
  ASSUME NEW S, NEW q \in Seq(S), NEW e \in S
  PROVE  /\ q \o << >> = q
         /\ q \o <<e>> = Append(q, e)
  OBVIOUS

LEMMA EmptyElements ==
  ASSUME NEW S
  PROVE  << >> \in Seq(S) /\ Len(<< >>) = 0 /\ Elements(<< >>) = {}
  BY DEF Elements

\* A client of the sequence is replaced by another record.
LEMMA ReplaceClient ==
  ASSUME Types, NEW c \in Clients, NEW r \in ClientRecord,
         clients' = [clients EXCEPT ![c] = r]
  PROVE  /\ clients' \in Seq(ClientRecord) /\ Len(clients') = Len(clients)
         /\ Clients' = Clients
         /\ clients'[c] = r
         /\ \A d \in Clients \ {c} : clients'[d] = clients[d]
<1>1. /\ clients' \in Seq(ClientRecord) /\ Len(clients') = Len(clients)
      /\ clients'[c] = r
      /\ \A d \in Clients \ {c} : clients'[d] = clients[d]
  BY DEF Types, Clients
<1> QED
  BY <1>1 DEF Clients

LEMMA ClientTypes ==
  ASSUME Types, NEW c \in Clients
  PROVE  /\ clients[c] \in ClientRecord
         /\ clients[c].seq \in Nat /\ clients[c].got \in Nat
         /\ clients[c].waiters \in SUBSET Waiter /\ clients[c].returned \in SUBSET Nat
         /\ clients[c].wire \in Seq(Publish)
         /\ clients[c].returns \in Seq(Nat)
         /\ clients[c].confirms \in Seq(Confirm)
         /\ clients[c].dead \in BOOLEAN /\ clients[c].open \in BOOLEAN
         /\ clients[c].connected \in BOOLEAN
<1>1. clients[c] \in ClientRecord
  BY DEF Types, Clients
<1> QED
  BY <1>1 DEF ClientRecord

LEMMA SenderTypes ==
  ASSUME Types, NEW s \in Senders
  PROVE  /\ senders[s] \in SenderRecord
         /\ senders[s].sends \in 0 .. MaxSends /\ senders[s].calls \in 0 .. 2 * MaxSends
         /\ senders[s].attempt \in {1, 2} /\ senders[s].cli \in Nat
         /\ \A r \in SenderRecord : [senders EXCEPT ![s] = r] \in [Senders -> SenderRecord]
<1>1. senders[s] \in SenderRecord
  BY DEF Types
<1> QED
  BY <1>1 DEF SenderRecord, Types

\* Sent depends on the calls of Send alone.
LEMMA SameSent ==
  ASSUME \A s \in Senders : senders'[s].sends = senders[s].sends
  PROVE  Sent' = Sent
  BY DEF Sent, Message

-----------------------------------------------------------------------------
(* The steps of a client and its channel.                                  *)

\* The senders may be handed answers, and nothing else about them changes.
OnlyAnswers ==
  /\ senders' \in [Senders -> SenderRecord]
  /\ \A s \in Senders :
       /\ senders'[s].pc = senders[s].pc /\ senders'[s].sends = senders[s].sends
       /\ senders'[s].calls = senders[s].calls /\ senders'[s].cli = senders[s].cli
       /\ senders'[s].attempt = senders[s].attempt
       /\ senders'[s].result = senders[s].result

LEMMA ClientChange ==
  ASSUME ChannelInv, NEW c \in Clients, NEW r \in ClientRecord,
         clients' = [clients EXCEPT ![c] = r],
         Numbered(r), OnlyAnswers,
         r.connected => clients[c].connected,
         Elements(r.wire) \subseteq Elements(clients[c].wire),
         r.waiters \subseteq clients[c].waiters,
         stored' \subseteq Sent, UNCHANGED <<client, closed>>
  PROVE  ChannelInv'
<1> USE DEF ChannelInv
<1>1. /\ clients' \in Seq(ClientRecord) /\ Len(clients') = Len(clients)
      /\ Clients' = Clients /\ clients'[c] = r
      /\ \A d \in Clients \ {c} : clients'[d] = clients[d]
  BY ReplaceClient
<1>2. Sent' = Sent
  BY SameSent DEF OnlyAnswers
<1>3. Types'
  BY <1>1, <1>2 DEF Types, OnlyAnswers
<1>4. \A s \in Senders : CallOK(senders'[s], Len(clients'))
  BY <1>1 DEF CallOK, OnlyAnswers, Left
<1>5. ASSUME NEW d \in Clients
      PROVE  Numbered(clients'[d]) /\ Belongs(clients[d], d)'
  <2>1. Belongs(clients[d], d)
    OBVIOUS
  <2>2. clients[d].waiters \subseteq Waiter
    BY ClientTypes
  <2>3. /\ clients'[d].connected => clients[d].connected
        /\ Elements(clients'[d].wire) \subseteq Elements(clients[d].wire)
        /\ clients'[d].waiters \subseteq clients[d].waiters
        /\ Numbered(clients'[d])
    BY <1>1
  <2> QED
    BY <1>2, <2>1, <2>2, <2>3 DEF Belongs, OnlyAnswers, Waiter
<1> QED
  BY <1>1, <1>3, <1>4, <1>5

\* The types of a sender that is handed an answer.
LEMMA AnswerStep ==
  ASSUME Types, NEW ws, NEW answer \in Verdicts \cup {"stopped"}
  PROVE  \A s \in Senders :
           /\ Answer(ws, answer)[s] \in SenderRecord
           /\ Answer(ws, answer)[s] \in {senders[s], [senders[s] EXCEPT !.answer = answer]}
<1> SUFFICES ASSUME NEW s \in Senders
             PROVE  /\ Answer(ws, answer)[s] \in SenderRecord
                    /\ Answer(ws, answer)[s]
                         \in {senders[s], [senders[s] EXCEPT !.answer = answer]}
  OBVIOUS
<1>1. senders[s] \in SenderRecord
  BY DEF Types
<1>2. [senders[s] EXCEPT !.answer = answer] \in SenderRecord
  BY <1>1 DEF SenderRecord
<1>3. Answer(ws, answer)[s] \in {senders[s], [senders[s] EXCEPT !.answer = answer]}
  BY DEF Answer
<1> QED
  BY <1>1, <1>2, <1>3

LEMMA AnswersOnly ==
  ASSUME Types, NEW ws, NEW answer \in Verdicts \cup {"stopped"},
         senders' = Answer(ws, answer)
  PROVE  OnlyAnswers
<1>1. \A s \in Senders :
           /\ Answer(ws, answer)[s] \in SenderRecord
           /\ Answer(ws, answer)[s] \in {senders[s], [senders[s] EXCEPT !.answer = answer]}
  BY AnswerStep
<1>2. senders' \in [Senders -> SenderRecord]
  BY <1>1 DEF Answer
<1>3. \A s \in Senders : senders[s] \in SenderRecord
  BY DEF Types
<1> QED
  BY <1>1, <1>2, <1>3 DEF OnlyAnswers, SenderRecord

LEMMA SameSenders ==
  ASSUME Types, UNCHANGED senders
  PROVE  OnlyAnswers
  BY DEF Types, OnlyAnswers

-----------------------------------------------------------------------------
(* What a client is after each step of its dispatcher or of the broker.    *)

AfterReturn(cs) ==
  [cs EXCEPT !.returns = Tail(@), !.returned = MarkReturned(cs, {Head(cs.returns)})]

AfterConfirm(cs) ==
  [cs EXCEPT !.confirms = Tail(@), !.returns = << >>,
             !.waiters  = {w \in @ : w.tag # Head(cs.confirms).tag},
             !.returned = drainReturns(cs) \ {Head(cs.confirms).tag}]

AfterClosed(cs) == [cs EXCEPT !.dead = TRUE, !.waiters = {}, !.returned = {}]

AfterAnswer(cs, ack, returns) ==
  [cs EXCEPT !.wire = Tail(@), !.got = cs.got + 1, !.returns = @ \o returns,
             !.confirms = Append(@, [tag |-> cs.got + 1, ack |-> ack])]

AfterDeath(cs, connected) ==
  [cs EXCEPT !.open = FALSE, !.wire = << >>, !.connected = connected]

AfterReading(cs) == [cs EXCEPT !.wire = Tail(@)]

LEMMA AfterReturnOK ==
  ASSUME NEW cs \in ClientRecord, Numbered(cs), cs.returns # << >>
  PROVE  LET r == AfterReturn(cs)
         IN  /\ r \in ClientRecord /\ Numbered(r)
             /\ \A w \in cs.waiters : w.tag \in CameBack(r) => w.tag \in CameBack(cs)
             /\ \A w \in cs.waiters : w.tag \in CameBack(cs) => w.tag \in CameBack(r)
             /\ r.connected = cs.connected /\ r.wire = cs.wire /\ r.waiters = cs.waiters
             /\ r.open = cs.open /\ r.got = cs.got /\ r.confirms = cs.confirms
<1> DEFINE r == AfterReturn(cs)
           id == Head(cs.returns)
<1>1. /\ cs.returns \in Seq(Nat) /\ cs.returned \in SUBSET Nat
      /\ cs.waiters \in SUBSET Waiter
  BY DEF ClientRecord
<1>2. /\ Tail(cs.returns) \in Seq(Nat)
      /\ Elements(Tail(cs.returns)) \subseteq Elements(cs.returns)
      /\ id \in Elements(cs.returns) /\ id \in Nat
  BY <1>1, TailElements, ElementsTyped
<1>3. Elements(cs.returns) = {id} \cup Elements(Tail(cs.returns))
  BY <1>1, TailElements
<1>4. MarkReturned(cs, {id}) \in SUBSET Nat
  BY <1>1, <1>2 DEF MarkReturned
<1>5. r \in ClientRecord
  BY <1>2, <1>4 DEF ClientRecord, AfterReturn
<1>6. /\ r.returns = Tail(cs.returns) /\ r.returned = MarkReturned(cs, {id})
      /\ r.connected = cs.connected /\ r.wire = cs.wire /\ r.waiters = cs.waiters
      /\ r.open = cs.open /\ r.got = cs.got /\ r.confirms = cs.confirms
      /\ r.seq = cs.seq
  BY DEF ClientRecord, AfterReturn
<1>7. \A i \in r.returned : i <= r.got /\ Waiting(r, i)
  BY <1>2, <1>6 DEF MarkReturned, Waiting, Numbered
<1>8. Numbered(r)
  BY <1>2, <1>6, <1>7 DEF Numbered
<1>9. \A w \in cs.waiters : w.tag \in CameBack(r) <=> w.tag \in CameBack(cs)
  BY <1>3, <1>6 DEF CameBack, MarkReturned, Waiting
<1> QED
  BY <1>5, <1>6, <1>8, <1>9

LEMMA AfterConfirmOK ==
  ASSUME NEW cs \in ClientRecord, Numbered(cs), cs.confirms # << >>
  PROVE  LET r == AfterConfirm(cs)
         IN  /\ r \in ClientRecord /\ Numbered(r)
             /\ \A w \in r.waiters : w.tag \in CameBack(r) <=> w.tag \in CameBack(cs)
             /\ r.waiters = {w \in cs.waiters : w.tag # Head(cs.confirms).tag}
             /\ r.connected = cs.connected /\ r.wire = cs.wire
             /\ r.open = cs.open /\ r.got = cs.got
             /\ Elements(r.confirms) \subseteq Elements(cs.confirms)
<1> DEFINE r == AfterConfirm(cs)
           tag == Head(cs.confirms).tag
<1>1. /\ cs.returns \in Seq(Nat) /\ cs.returned \in SUBSET Nat
      /\ cs.waiters \in SUBSET Waiter
      /\ cs.confirms \in Seq(Confirm)
  BY DEF ClientRecord
<1>2. /\ Tail(cs.confirms) \in Seq(Confirm)
      /\ Elements(Tail(cs.confirms)) \subseteq Elements(cs.confirms)
  BY <1>1, TailElements
<1>3. << >> \in Seq(Nat) /\ Elements(<< >>) = {} /\ Elements(cs.returns) \subseteq Nat
  BY <1>1, EmptyElements, ElementsTyped
<1>4. drainReturns(cs) \ {tag} \in SUBSET Nat
  BY <1>1, <1>3 DEF drainReturns, MarkReturned
<1>5. {w \in cs.waiters : w.tag # tag} \in SUBSET Waiter
  BY <1>1
<1>6. r \in ClientRecord
  BY <1>2, <1>3, <1>4, <1>5 DEF ClientRecord, AfterConfirm
<1>7. /\ r.returns = << >> /\ r.returned = drainReturns(cs) \ {tag}
      /\ r.connected = cs.connected /\ r.wire = cs.wire
      /\ r.waiters = {w \in cs.waiters : w.tag # tag}
      /\ r.open = cs.open /\ r.got = cs.got /\ r.confirms = Tail(cs.confirms)
      /\ r.seq = cs.seq
  BY DEF ClientRecord, AfterConfirm
<1>8. \A i \in r.returned : i <= r.got /\ Waiting(r, i)
  BY <1>7 DEF drainReturns, MarkReturned, Waiting, Numbered
<1>9. Numbered(r)
  BY <1>2, <1>3, <1>7, <1>8 DEF Numbered
<1>10. \A w \in r.waiters : w.tag \in CameBack(r) <=> w.tag \in CameBack(cs)
  BY <1>3, <1>7 DEF CameBack, drainReturns, MarkReturned, Waiting
<1> QED
  BY <1>2, <1>6, <1>7, <1>9, <1>10

LEMMA AfterClosedOK ==
  ASSUME NEW cs \in ClientRecord, Numbered(cs)
  PROVE  LET r == AfterClosed(cs)
         IN  /\ r \in ClientRecord /\ Numbered(r)
             /\ r.connected = cs.connected /\ r.wire = cs.wire /\ r.waiters = {}
<1> DEFINE r == AfterClosed(cs)
<1>1. r \in ClientRecord
  BY DEF ClientRecord, AfterClosed
<1>2. /\ r.connected = cs.connected /\ r.wire = cs.wire /\ r.waiters = {}
      /\ r.returned = {} /\ r.returns = cs.returns /\ r.confirms = cs.confirms
      /\ r.open = cs.open /\ r.got = cs.got /\ r.seq = cs.seq
  BY DEF ClientRecord, AfterClosed
<1> QED
  BY <1>1, <1>2 DEF Numbered

LEMMA AfterDeathOK ==
  ASSUME NEW cs \in ClientRecord, Numbered(cs), NEW connected \in BOOLEAN
  PROVE  LET r == AfterDeath(cs, connected)
         IN  /\ r \in ClientRecord /\ Numbered(r)
             /\ r.connected = connected /\ r.wire = << >> /\ r.waiters = cs.waiters
             /\ r.open = FALSE /\ r.got = cs.got /\ r.confirms = cs.confirms
             /\ CameBack(r) = CameBack(cs)
<1> DEFINE r == AfterDeath(cs, connected)
<1>1. << >> \in Seq(Publish) /\ Len(<< >>) = 0
  BY EmptyElements
<1>2. r \in ClientRecord
  BY <1>1 DEF ClientRecord, AfterDeath
<1>3. /\ r.connected = connected /\ r.wire = << >> /\ r.waiters = cs.waiters
      /\ r.returned = cs.returned /\ r.returns = cs.returns /\ r.confirms = cs.confirms
      /\ r.open = FALSE /\ r.got = cs.got /\ r.seq = cs.seq
  BY DEF ClientRecord, AfterDeath
<1>4. cs.got <= cs.seq
  BY DEF Numbered, ClientRecord
<1>5. \A id \in r.returned : id <= r.got /\ Waiting(r, id)
  BY <1>3 DEF Numbered, Waiting
<1>6. r.got + Len(r.wire) <= r.seq
  BY <1>1, <1>3, <1>4 DEF ClientRecord
<1> QED
  BY <1>2, <1>3, <1>5, <1>6 DEF Numbered, CameBack

LEMMA AfterAnswerOK ==
  ASSUME NEW cs \in ClientRecord, Numbered(cs), cs.open, cs.wire # << >>,
         NEW ack \in BOOLEAN, NEW returns \in {<< >>, <<Head(cs.wire).id>>}
  PROVE  LET r == AfterAnswer(cs, ack, returns)
         IN  /\ r \in ClientRecord /\ Numbered(r)
             /\ r.connected = cs.connected /\ r.waiters = cs.waiters /\ r.open = cs.open
             /\ r.got = cs.got + 1 /\ Head(cs.wire).id = cs.got + 1
             /\ r.wire = Tail(cs.wire)
             /\ Elements(r.confirms) = Elements(cs.confirms)
                                         \cup {[tag |-> cs.got + 1, ack |-> ack]}
             /\ CameBack(r) = IF returns = << >> THEN CameBack(cs)
                              ELSE CameBack(cs) \cup {cs.got + 1}
<1> DEFINE r == AfterAnswer(cs, ack, returns)
           conf == [tag |-> cs.got + 1, ack |-> ack]
<1>1. /\ cs.returns \in Seq(Nat) /\ cs.returned \in SUBSET Nat /\ cs.got \in Nat
      /\ cs.seq \in Nat /\ cs.wire \in Seq(Publish)
      /\ cs.confirms \in Seq(Confirm)
  BY DEF ClientRecord
<1>2. /\ Tail(cs.wire) \in Seq(Publish) /\ Len(Tail(cs.wire)) = Len(cs.wire) - 1
      /\ \A i \in 1 .. Len(Tail(cs.wire)) : /\ i + 1 \in 1 .. Len(cs.wire)
                                            /\ Tail(cs.wire)[i] = cs.wire[i + 1]
  BY <1>1, TailElements
<1>3. /\ Head(cs.wire) = cs.wire[1] /\ Len(cs.wire) # 0 /\ Head(cs.wire) \in Publish
      /\ Len(cs.wire) \in Nat
  BY <1>1, ElementsTyped
<1>4. Head(cs.wire).id = cs.got + 1
  BY <1>1, <1>3 DEF Numbered
<1>5. conf \in Confirm
  BY <1>1 DEF Confirm
<1>6. /\ Append(cs.confirms, conf) \in Seq(Confirm)
      /\ Elements(Append(cs.confirms, conf)) = Elements(cs.confirms) \cup {conf}
  <2> HIDE DEF conf
  <2> QED
    BY <1>1, <1>5, AppendElements
<1>7. /\ cs.returns \o returns \in Seq(Nat)
      /\ Elements(cs.returns \o returns)
           = IF returns = << >> THEN Elements(cs.returns)
             ELSE Elements(cs.returns) \cup {cs.got + 1}
  <2>1. CASE returns = << >>
    <3>1. cs.returns \o returns = cs.returns
      BY <1>1, <2>1, ConcatElements
    <3> QED
      BY <1>1, <2>1, <3>1
  <2>2. CASE returns # << >>
    <3>1. returns = <<cs.got + 1>> /\ cs.got + 1 \in Nat
      BY <1>1, <1>4, <2>2
    <3>2. cs.returns \o returns = Append(cs.returns, cs.got + 1)
      BY <1>1, <3>1, ConcatElements
    <3>3. \A n \in Nat : /\ Append(cs.returns, n) \in Seq(Nat)
                          /\ Elements(Append(cs.returns, n)) = Elements(cs.returns) \cup {n}
      BY <1>1, AppendElements
    <3> QED
      BY <2>2, <3>1, <3>2, <3>3
  <2> QED
    BY <2>1, <2>2
<1>8. /\ r.wire = Tail(cs.wire) /\ r.got = cs.got + 1 /\ r.seq = cs.seq
      /\ r.returns = cs.returns \o returns /\ r.returned = cs.returned
      /\ r.confirms = Append(cs.confirms, conf)
      /\ r.connected = cs.connected /\ r.waiters = cs.waiters /\ r.open = cs.open
  BY DEF ClientRecord, AfterAnswer
<1>9. r \in ClientRecord
  <2>1. cs.got + 1 \in Nat
    BY <1>1
  <2> QED
    BY <2>1, <1>2, <1>6, <1>7 DEF ClientRecord, AfterAnswer
<1> HIDE DEF r
<1>10. Numbered(r)
  <2>0. /\ cs.seq = cs.got + Len(cs.wire)
        /\ \A i \in 1 .. Len(cs.wire) : cs.wire[i].id = cs.got + i
    BY DEF Numbered
  <2>9. Len(r.wire) = Len(cs.wire) - 1
    BY <1>2, <1>8
  <2>1. r.seq = r.got + Len(r.wire)
    BY <1>1, <1>3, <1>8, <2>0, <2>9
  <2>2. \A i \in 1 .. Len(r.wire) : r.wire[i].id = r.got + i
    <3> SUFFICES ASSUME NEW i \in 1 .. Len(r.wire) PROVE r.wire[i].id = r.got + i
      OBVIOUS
    <3>1. i + 1 \in 1 .. Len(cs.wire) /\ r.wire[i] = cs.wire[i + 1]
      BY <1>2, <1>8
    <3>2. cs.wire[i + 1].id = cs.got + (i + 1)
      BY <2>0, <3>1
    <3>3. i \in Nat
      BY <3>1, <1>1, <1>3
    <3>6. \A a, b \in Nat : a + (b + 1) = (a + 1) + b
      OBVIOUS
    <3>7. cs.got \in Nat
      BY <1>1
    <3>4. cs.got + (i + 1) = (cs.got + 1) + i
      BY <3>3, <3>6, <3>7
    <3>5. r.wire[i].id = cs.got + (i + 1)
      BY <3>1, <3>2
    <3> QED
      BY <3>4, <3>5, <1>8
  <2>3. \A id \in r.returned : id <= r.got /\ Waiting(r, id)
    BY <1>1, <1>8 DEF Numbered, Waiting
  <2>4. \A id \in Elements(r.returns) : id <= r.got
    <3>1. Elements(cs.returns) \subseteq Nat
      BY <1>1, ElementsTyped
    <3>2. \A id \in Elements(cs.returns) : id <= cs.got + 1
      BY <1>1, <3>1 DEF Numbered
    <3> QED
      BY <1>1, <1>7, <1>8, <3>2
  <2>5. \A c \in Elements(r.confirms) : c.tag <= r.got
    <3>1. Elements(cs.confirms) \subseteq Confirm
      BY <1>1, ElementsTyped
    <3>2. \A k \in Elements(cs.confirms) : k.tag <= cs.got + 1
      BY <1>1, <3>1 DEF Numbered, Confirm
    <3> QED
      BY <1>1, <1>6, <1>8, <3>2
  <2>6. \A w \in r.waiters : w.tag <= r.seq
    BY <1>8 DEF Numbered
  <2>7. r.open => r.connected
    BY <1>8 DEF Numbered
  <2>8. r.got + Len(r.wire) <= r.seq
    BY <2>1, <1>1, <1>2, <1>3, <1>8
  <2> QED
    BY <2>1, <2>2, <2>3, <2>4, <2>5, <2>6, <2>7, <2>8 DEF Numbered
<1>11. CameBack(r) = IF returns = << >> THEN CameBack(cs)
                     ELSE CameBack(cs) \cup {cs.got + 1}
  BY <1>7, <1>8 DEF CameBack
<1> QED
  BY <1>4, <1>6, <1>8, <1>9, <1>10, <1>11 DEF r

LEMMA AfterReadingOK ==
  ASSUME NEW cs \in ClientRecord, Numbered(cs), ~cs.open, cs.wire # << >>
  PROVE  LET r == AfterReading(cs)
         IN  /\ r \in ClientRecord /\ Numbered(r)
             /\ r.wire = Tail(cs.wire) /\ r.waiters = cs.waiters
             /\ r.open = cs.open /\ r.connected = cs.connected
             /\ r.confirms = cs.confirms /\ CameBack(r) = CameBack(cs)
<1> DEFINE r == AfterReading(cs)
<1>1. /\ cs.wire \in Seq(Publish) /\ cs.got \in Nat /\ cs.seq \in Nat
      /\ cs.open \in BOOLEAN
  BY DEF ClientRecord
<1>2. /\ Tail(cs.wire) \in Seq(Publish) /\ Len(Tail(cs.wire)) = Len(cs.wire) - 1
      /\ Len(cs.wire) \in Nat
  BY <1>1, TailElements
<1>3. /\ r.wire = Tail(cs.wire) /\ r.waiters = cs.waiters /\ r.open = cs.open
      /\ r.connected = cs.connected /\ r.confirms = cs.confirms /\ r.got = cs.got
      /\ r.seq = cs.seq /\ r.returned = cs.returned /\ r.returns = cs.returns
  BY DEF ClientRecord, AfterReading
<1>4. r \in ClientRecord
  BY <1>2 DEF ClientRecord, AfterReading
<1>5. cs.got + Len(cs.wire) <= cs.seq
  BY DEF Numbered
<1>6. r.got + Len(r.wire) <= r.seq
  BY <1>1, <1>2, <1>3, <1>5
<1> HIDE DEF r
<1>7. Numbered(r)
  BY <1>1, <1>3, <1>6 DEF Numbered, Waiting
<1> QED
  BY <1>3, <1>4, <1>7 DEF CameBack, r

\* A dispatcher's step, in terms of the records above.
LEMMA DispatchShape ==
  ASSUME Types, NEW c \in Clients, Dispatch(c)
  PROVE  LET cs == clients[c]
             conf == Head(cs.confirms)
         IN  /\ ~cs.dead /\ UNCHANGED <<client, closed, stored>>
             /\ \/ /\ cs.returns # << >>
                   /\ clients' = [clients EXCEPT ![c] = AfterReturn(cs)]
                   /\ UNCHANGED senders
                \/ /\ cs.confirms # << >>
                   /\ clients' = [clients EXCEPT ![c] = AfterConfirm(cs)]
                   /\ senders' = Answer({w \in cs.waiters : w.tag = conf.tag},
                                        IF conf.tag \in drainReturns(cs) THEN "unroutable"
                                        ELSE IF conf.ack THEN "ok" ELSE "rejected")
                \/ /\ ~cs.open
                   /\ clients' = [clients EXCEPT ![c] = AfterClosed(cs)]
                   /\ senders' = Answer(cs.waiters, "stopped")
<1>1. clients[c] \in ClientRecord /\ clients \in Seq(ClientRecord) /\ c \in 1 .. Len(clients)
  BY ClientTypes DEF Types, Clients
<1>2. CASE DispatchReturn(c)
  BY <1>1, <1>2 DEF DispatchReturn, AfterReturn, ClientRecord
<1>3. CASE DispatchConfirm(c)
  BY <1>1, <1>3 DEF DispatchConfirm, AfterConfirm, ClientRecord
<1>4. CASE DispatchClosed(c)
  BY <1>1, <1>4 DEF DispatchClosed, AfterClosed, ClientRecord
<1> QED
  BY <1>2, <1>3, <1>4 DEF Dispatch

LEMMA BrokerShape ==
  ASSUME Types, NEW c \in Clients, BrokerAnswers(c)
  PROVE  LET cs == clients[c]
             m == Head(cs.wire)
         IN  /\ cs.open /\ cs.wire # << >> /\ UNCHANGED <<client, closed, senders>>
             /\ \E ack \in BOOLEAN, returns \in {<< >>, <<m.id>>} :
                  /\ clients' = [clients EXCEPT ![c] = AfterAnswer(cs, ack, returns)]
                  /\ \/ ack /\ returns = << >> /\ stored' = stored \cup {m.msg}
                     \/ ~ack /\ stored' = stored
                     \/ returns = <<m.id>> /\ stored' = stored
<1>1. clients[c] \in ClientRecord /\ clients \in Seq(ClientRecord) /\ c \in 1 .. Len(clients)
  BY ClientTypes DEF Types, Clients
<1> DEFINE m == Head(clients[c].wire)
<1>2. clients[c].open /\ clients[c].wire # << >> /\ UNCHANGED <<client, closed, senders>>
  BY DEF BrokerAnswers
<1>3. PICK ack \in BOOLEAN, returns \in {<< >>, <<m.id>>} :
        /\ clients' = [clients EXCEPT
                         ![c].wire = Tail(@), ![c].got = clients[c].got + 1,
                         ![c].returns = @ \o returns,
                         ![c].confirms = Append(@, [tag |-> clients[c].got + 1, ack |-> ack])]
        /\ \/ ack /\ returns = << >> /\ stored' = stored \cup {m.msg}
           \/ ~ack /\ stored' = stored
           \/ returns = <<m.id>> /\ stored' = stored
  BY DEF BrokerAnswers
<1>4. \A a, back :
        [clients EXCEPT ![c].wire = Tail(@), ![c].got = clients[c].got + 1,
                        ![c].returns = @ \o back,
                        ![c].confirms = Append(@, [tag |-> clients[c].got + 1, ack |-> a])]
          = [clients EXCEPT ![c] = AfterAnswer(clients[c], a, back)]
  BY <1>1 DEF AfterAnswer, ClientRecord
<1>5. clients' = [clients EXCEPT ![c] = AfterAnswer(clients[c], ack, returns)]
  BY <1>3, <1>4
<1> QED
  BY <1>2, <1>3, <1>5

-----------------------------------------------------------------------------
(* The dispatcher and the broker keep the numbers and the types.           *)

\* What a dispatcher tells a sender.
LEMMA VerdictTypes ==
  ASSUME NEW cs, NEW conf
  PROVE  (IF conf.tag \in drainReturns(cs) THEN "unroutable"
          ELSE IF conf.ack THEN "ok" ELSE "rejected") \in Verdicts \cup {"stopped"}
  BY DEF Verdicts

LEMMA DispatchStep ==
  ASSUME ChannelInv, NEW c \in Clients, Dispatch(c)
  PROVE  ChannelInv'
<1> DEFINE cs == clients[c]
<1>1. Types /\ Numbered(cs) /\ cs \in ClientRecord /\ stored \subseteq Sent
  BY ClientTypes DEF ChannelInv, Types
<1>2. UNCHANGED <<client, closed, stored>>
  BY <1>1, DispatchShape
<1>3. CASE /\ cs.returns # << >>
           /\ clients' = [clients EXCEPT ![c] = AfterReturn(cs)]
           /\ UNCHANGED senders
  <2> DEFINE r == AfterReturn(cs)
  <2>1. /\ r \in ClientRecord /\ Numbered(r)
        /\ r.connected = cs.connected /\ r.wire = cs.wire /\ r.waiters = cs.waiters
    BY <1>1, <1>3, AfterReturnOK
  <2>2. OnlyAnswers
    BY <1>1, <1>3, SameSenders
  <2> HIDE DEF r
  <2> QED
    BY <1>1, <1>2, <1>3, <2>1, <2>2, ClientChange DEF r
<1>4. CASE /\ cs.confirms # << >>
           /\ clients' = [clients EXCEPT ![c] = AfterConfirm(cs)]
           /\ senders' = Answer({w \in cs.waiters : w.tag = Head(cs.confirms).tag},
                                IF Head(cs.confirms).tag \in drainReturns(cs)
                                THEN "unroutable"
                                ELSE IF Head(cs.confirms).ack THEN "ok" ELSE "rejected")
  <2> DEFINE r == AfterConfirm(cs)
  <2>1. /\ r \in ClientRecord /\ Numbered(r)
        /\ r.connected = cs.connected /\ r.wire = cs.wire
        /\ r.waiters \subseteq cs.waiters
    BY <1>1, <1>4, AfterConfirmOK
  <2>2. OnlyAnswers
    BY <1>1, <1>4, AnswersOnly, VerdictTypes
  <2> HIDE DEF r
  <2> QED
    BY <1>1, <1>2, <1>4, <2>1, <2>2, ClientChange DEF r
<1>5. CASE /\ ~cs.open
           /\ clients' = [clients EXCEPT ![c] = AfterClosed(cs)]
           /\ senders' = Answer(cs.waiters, "stopped")
  <2> DEFINE r == AfterClosed(cs)
  <2>1. /\ r \in ClientRecord /\ Numbered(r)
        /\ r.connected = cs.connected /\ r.wire = cs.wire /\ r.waiters = {}
    BY <1>1, <1>5, AfterClosedOK
  <2>2. OnlyAnswers
    BY <1>1, <1>5, AnswersOnly
  <2> HIDE DEF r
  <2> QED
    BY <1>1, <1>2, <1>5, <2>1, <2>2, ClientChange DEF r
<1> QED
  BY <1>1, <1>3, <1>4, <1>5, DispatchShape

LEMMA BrokerStep ==
  ASSUME ChannelInv, NEW c \in Clients, BrokerAnswers(c)
  PROVE  ChannelInv'
<1> DEFINE cs == clients[c]
           m == Head(cs.wire)
<1>1. /\ Types /\ Numbered(cs) /\ Belongs(cs, c) /\ cs \in ClientRecord
      /\ stored \subseteq Sent /\ cs.wire \in Seq(Publish)
  BY ClientTypes DEF ChannelInv, Types
<1>2. /\ cs.open /\ cs.wire # << >> /\ UNCHANGED <<client, closed, senders>>
      /\ \E ack \in BOOLEAN, returns \in {<< >>, <<m.id>>} :
           /\ clients' = [clients EXCEPT ![c] = AfterAnswer(cs, ack, returns)]
           /\ stored' \in {stored, stored \cup {m.msg}}
  BY <1>1, BrokerShape
<1>3. PICK ack \in BOOLEAN, returns \in {<< >>, <<m.id>>} :
        /\ clients' = [clients EXCEPT ![c] = AfterAnswer(cs, ack, returns)]
        /\ stored' \in {stored, stored \cup {m.msg}}
  BY <1>2
<1> DEFINE r == AfterAnswer(cs, ack, returns)
<1>4. /\ r \in ClientRecord /\ Numbered(r) /\ r.connected = cs.connected
      /\ r.waiters = cs.waiters /\ r.wire = Tail(cs.wire)
  <2>1. returns \in {<< >>, <<Head(cs.wire).id>>}
    OBVIOUS
  <2> HIDE DEF cs
  <2> QED
    BY <1>1, <1>2, <2>1, AfterAnswerOK, ZenonT(60)
<1>5. m \in Elements(cs.wire) /\ Elements(Tail(cs.wire)) \subseteq Elements(cs.wire)
  BY <1>1, <1>2, ElementsTyped, TailElements
<1>6. stored' \subseteq Sent
  BY <1>1, <1>3, <1>5 DEF Belongs
<1>7. OnlyAnswers
  BY <1>1, <1>2, SameSenders
<1> HIDE DEF r
<1> QED
  BY <1>2, <1>3, <1>4, <1>5, <1>6, <1>7, ClientChange DEF r

\* What the end of a channel leaves in the queues was on its wire.
LEMMA DeathShape ==
  ASSUME Types, NEW c \in Clients, ChannelDies(c)
  PROVE  /\ clients[c].open /\ UNCHANGED <<client, closed, senders>>
         /\ stored \subseteq stored'
         /\ \A x \in stored' \ stored : \E m \in Elements(clients[c].wire) : x = m.msg
         /\ \E connected \in BOOLEAN :
              clients' = [clients EXCEPT ![c] = AfterDeath(clients[c], connected)]
<1>1. clients[c] \in ClientRecord /\ clients \in Seq(ClientRecord) /\ c \in 1 .. Len(clients)
      /\ clients[c].wire \in Seq(Publish)
  BY ClientTypes DEF Types, Clients
<1>2. PICK n \in 0 .. Len(clients[c].wire), connected \in BOOLEAN :
        /\ stored' = stored \cup {clients[c].wire[i].msg : i \in 1 .. n}
        /\ clients' = [clients EXCEPT ![c].open = FALSE, ![c].wire = << >>,
                                      ![c].connected = connected]
  BY DEF ChannelDies
<1>3. clients' = [clients EXCEPT ![c] = AfterDeath(clients[c], connected)]
  BY <1>1, <1>2 DEF AfterDeath, ClientRecord
<1>4. \A i \in 1 .. n : i \in 1 .. Len(clients[c].wire)
  BY <1>1, <1>2
<1>5. \A x \in stored' \ stored : \E m \in Elements(clients[c].wire) : x = m.msg
  BY <1>2, <1>4 DEF Elements
<1> QED
  BY <1>2, <1>3, <1>5 DEF ChannelDies

LEMMA DeathStep ==
  ASSUME ChannelInv, NEW c \in Clients, ChannelDies(c)
  PROVE  ChannelInv'
<1> DEFINE cs == clients[c]
<1>1. /\ Types /\ Numbered(cs) /\ Belongs(cs, c) /\ cs \in ClientRecord
      /\ stored \subseteq Sent
  BY ClientTypes DEF ChannelInv, Types
<1>2. /\ cs.open /\ UNCHANGED <<client, closed, senders>>
      /\ \A x \in stored' \ stored : \E m \in Elements(cs.wire) : x = m.msg
      /\ \E connected \in BOOLEAN :
           clients' = [clients EXCEPT ![c] = AfterDeath(cs, connected)]
  BY <1>1, DeathShape
<1>3. PICK connected \in BOOLEAN :
        clients' = [clients EXCEPT ![c] = AfterDeath(cs, connected)]
  BY <1>2
<1> DEFINE r == AfterDeath(cs, connected)
<1>4. /\ r \in ClientRecord /\ Numbered(r) /\ r.wire = << >> /\ r.waiters = cs.waiters
  BY <1>1, AfterDeathOK
<1>5. cs.connected /\ Elements(<< >>) = {}
  BY <1>1, <1>2, EmptyElements DEF Numbered
<1>6. stored' \subseteq Sent
  BY <1>1, <1>2 DEF Belongs
<1>7. OnlyAnswers
  BY <1>1, <1>2, SameSenders
<1> HIDE DEF r
<1> QED
  BY <1>2, <1>3, <1>4, <1>5, <1>6, <1>7, ClientChange DEF r

\* What the broker reads of a closed channel is one step of the client.
LEMMA ReadingShape ==
  ASSUME ChannelInv, NEW c \in Clients, BrokerReadsOn(c)
  PROVE  LET cs == clients[c]
             r  == AfterReading(cs)
         IN  /\ ~cs.open /\ cs.wire # << >> /\ UNCHANGED <<client, closed, senders>>
             /\ Head(cs.wire) \in Elements(cs.wire)
             /\ stored' \in {stored, stored \cup {Head(cs.wire).msg}}
             /\ clients' = [clients EXCEPT ![c] = r]
             /\ r \in ClientRecord /\ Numbered(r) /\ r.connected = cs.connected
             /\ Elements(r.wire) \subseteq Elements(cs.wire)
             /\ r.waiters = cs.waiters /\ r.open = FALSE
             /\ r.confirms = cs.confirms /\ CameBack(r) = CameBack(cs)
<1> DEFINE cs == clients[c]
           r  == AfterReading(cs)
<1>1. /\ cs \in ClientRecord /\ Numbered(cs) /\ cs.wire \in Seq(Publish)
      /\ clients \in Seq(ClientRecord) /\ c \in 1 .. Len(clients)
      /\ cs.open \in BOOLEAN
  BY ClientTypes DEF ChannelInv, Types, Clients
<1>2. /\ ~cs.open /\ cs.wire # << >> /\ UNCHANGED <<client, closed, senders>>
      /\ stored' \in {stored, stored \cup {Head(cs.wire).msg}}
      /\ clients' = [clients EXCEPT ![c].wire = Tail(@)]
  BY DEF BrokerReadsOn
<1>3. clients' = [clients EXCEPT ![c] = r]
  BY <1>1, <1>2 DEF AfterReading, ClientRecord
<1>4. /\ Head(cs.wire) \in Elements(cs.wire)
      /\ Elements(Tail(cs.wire)) \subseteq Elements(cs.wire)
  BY <1>1, <1>2, ElementsTyped, TailElements
<1> HIDE DEF cs
<1>5. /\ r \in ClientRecord /\ Numbered(r) /\ r.wire = Tail(cs.wire)
      /\ r.waiters = cs.waiters /\ r.open = cs.open /\ r.connected = cs.connected
      /\ r.confirms = cs.confirms /\ CameBack(r) = CameBack(cs)
  BY <1>1, <1>2, AfterReadingOK
<1> HIDE DEF r
<1> QED
  BY <1>1, <1>2, <1>3, <1>4, <1>5 DEF cs, r

LEMMA ReadingStep ==
  ASSUME ChannelInv, NEW c \in Clients, BrokerReadsOn(c)
  PROVE  ChannelInv'
<1> DEFINE cs == clients[c]
           r  == AfterReading(cs)
<1>1. Types /\ Belongs(cs, c) /\ stored \subseteq Sent
  BY DEF ChannelInv, Types
<1>2. /\ ~cs.open /\ cs.wire # << >> /\ UNCHANGED <<client, closed, senders>>
      /\ Head(cs.wire) \in Elements(cs.wire)
      /\ stored' \in {stored, stored \cup {Head(cs.wire).msg}}
      /\ clients' = [clients EXCEPT ![c] = r]
      /\ r \in ClientRecord /\ Numbered(r) /\ r.connected = cs.connected
      /\ Elements(r.wire) \subseteq Elements(cs.wire) /\ r.waiters = cs.waiters
  BY ReadingShape
<1>3. stored' \subseteq Sent
  BY <1>1, <1>2 DEF Belongs
<1>4. OnlyAnswers
  BY <1>1, <1>2, SameSenders
<1> HIDE DEF r
<1> QED
  BY <1>2, <1>3, <1>4, ClientChange

-----------------------------------------------------------------------------
(* The steps of Send and Close that publish nothing.                       *)

\* The calls of Send go on and clients are dialed and closed: the numbers, the
\* types and the connections stay right.
LEMMA SendersMove ==
  ASSUME ChannelInv,
         senders' \in [Senders -> SenderRecord],
         \A s \in Senders : /\ senders'[s].sends = senders[s].sends
                            /\ senders'[s].calls = senders[s].calls
                            /\ CallOK(senders'[s], Len(clients')),
         clients' \in Seq(ClientRecord), Len(clients') \in 1 .. MaxDials,
         client' \in 0 .. Len(clients'), closed' \in BOOLEAN, UNCHANGED stored,
         \A c \in 1 .. Len(clients') :
           /\ Numbered(clients'[c])
           /\ clients'[c].connected => c = client'
           /\ \/ Elements(clients'[c].wire) = {} /\ clients'[c].waiters = {}
              \/ /\ c \in Clients
                 /\ Elements(clients'[c].wire) \subseteq Elements(clients[c].wire)
                 /\ clients'[c].waiters \subseteq clients[c].waiters
  PROVE  ChannelInv'
<1> USE DEF ChannelInv
<1>1. Sent' = Sent
  BY SameSent
<1>2. Types'
  BY <1>1 DEF Types
<1>3. ASSUME NEW c \in 1 .. Len(clients')
      PROVE  Belongs(clients[c], c)'
  <2>1. CASE Elements(clients'[c].wire) = {} /\ clients'[c].waiters = {}
    BY <2>1 DEF Belongs
  <2>2. CASE /\ c \in Clients
             /\ Elements(clients'[c].wire) \subseteq Elements(clients[c].wire)
             /\ clients'[c].waiters \subseteq clients[c].waiters
    <3>1. Belongs(clients[c], c) /\ clients[c].waiters \subseteq Waiter
      BY <2>2, ClientTypes
    <3> QED
      BY <1>1, <2>2, <3>1 DEF Belongs, Waiter
  <2> QED
    BY <2>1, <2>2
<1>4. Clients' = 1 .. Len(clients')
  BY DEF Clients
<1> QED
  BY <1>2, <1>3, <1>4

\* One call of Send goes on, and the clients dialed do not get fewer.
LEMMA OneSender ==
  ASSUME ChannelInv, NEW s \in Senders, NEW r \in SenderRecord,
         senders' = [senders EXCEPT ![s] = r],
         r.sends = senders[s].sends, r.calls = senders[s].calls,
         Len(clients') \in Nat, Len(clients) <= Len(clients'), CallOK(r, Len(clients'))
  PROVE  /\ senders' \in [Senders -> SenderRecord]
         /\ \A t \in Senders : /\ senders'[t].sends = senders[t].sends
                               /\ senders'[t].calls = senders[t].calls
                               /\ CallOK(senders'[t], Len(clients'))
<1>1. /\ senders' \in [Senders -> SenderRecord] /\ senders'[s] = r
      /\ \A t \in Senders \ {s} : senders'[t] = senders[t]
  BY DEF ChannelInv, Types
<1>2. ASSUME NEW t \in Senders \ {s}
      PROVE  CallOK(senders[t], Len(clients'))
  <2>1. CallOK(senders[t], Len(clients)) /\ senders[t].cli \in Nat /\ Len(clients) \in Nat
    BY SenderTypes DEF ChannelInv, Types
  <2> QED
    BY <2>1 DEF CallOK
<1> QED
  BY <1>1, <1>2

\* It goes on with the clients as they are.
LEMMA OnlySender ==
  ASSUME ChannelInv, NEW s \in Senders, NEW r \in SenderRecord,
         senders' = [senders EXCEPT ![s] = r],
         r.sends = senders[s].sends, r.calls = senders[s].calls,
         CallOK(r, Len(clients)), UNCHANGED <<clients, client, closed, stored>>
  PROVE  ChannelInv'
<1>1. /\ Len(clients') = Len(clients) /\ Len(clients) \in Nat
      /\ Len(clients') \in Nat /\ Len(clients) <= Len(clients')
      /\ CallOK(r, Len(clients'))
  BY DEF ChannelInv, Types
<1>2. /\ senders' \in [Senders -> SenderRecord]
      /\ \A t \in Senders : /\ senders'[t].sends = senders[t].sends
                            /\ senders'[t].calls = senders[t].calls
                            /\ CallOK(senders'[t], Len(clients'))
  BY <1>1, OneSender
<1>3. \A c \in 1 .. Len(clients') :
           /\ Numbered(clients'[c])
           /\ clients'[c].connected => c = client'
           /\ c \in Clients /\ clients'[c] = clients[c]
  BY DEF ChannelInv, Clients, Belongs
<1> QED
  BY <1>1, <1>2, <1>3, SendersMove DEF ChannelInv, Types

\* What a publish that fails makes of its sender.
AfterFailure(r) ==
  IF r.attempt = 1 THEN [r EXCEPT !.pc = "reconnect"]
  ELSE [r EXCEPT !.pc = "idle", !.result = "failed"]

LEMMA FailureShape ==
  ASSUME ChannelInv, NEW s \in Senders, PublishFails(s),
         senders[s].pc \in {"check", "publish", "await"}
  PROVE  LET r == AfterFailure(senders[s])
         IN  /\ senders' = [senders EXCEPT ![s] = r]
             /\ r \in SenderRecord /\ CallOK(r, Len(clients))
             /\ r.sends = senders[s].sends /\ r.calls = senders[s].calls
             /\ r.attempt = senders[s].attempt
             /\ \/ r.pc = "idle" /\ r.result = "failed"
                \/ r.pc = "reconnect" /\ r.result = "none"
<1>1. /\ senders[s] \in SenderRecord /\ CallOK(senders[s], Len(clients))
      /\ senders \in [Senders -> SenderRecord]
  BY SenderTypes DEF ChannelInv, Types
<1>2. CASE senders[s].attempt = 1
  <2> DEFINE r == [senders[s] EXCEPT !.pc = "reconnect"]
  <2>1. r \in SenderRecord
    BY <1>1 DEF SenderRecord
  <2>2. senders' = [senders EXCEPT ![s] = r]
    BY <1>1, <1>2 DEF PublishFails
  <2>3. /\ r.pc = "reconnect" /\ r.sends = senders[s].sends /\ r.calls = senders[s].calls
        /\ r.attempt = 1 /\ r.cli = senders[s].cli /\ r.result = senders[s].result
    BY <1>1, <1>2 DEF SenderRecord
  <2>4. /\ r.result = "none" /\ r.sends # 0 /\ r.cli # 0 /\ r.cli <= Len(clients)
        /\ senders[s].calls + Left(senders[s]) <= 2 * senders[s].sends
        /\ Left(senders[s]) \in {1, 2}
    BY <1>1, <1>2, <2>3 DEF CallOK, Left
  <2>5. r.calls + Left(r) <= 2 * r.sends
    <3>1. Left(r) = 1 /\ senders[s].calls \in Nat /\ senders[s].sends \in Nat
      BY <1>1, <2>3 DEF Left, SenderRecord
    <3>2. \A a, b, k \in Nat : k \in {1, 2} /\ a + k <= 2 * b => a + 1 <= 2 * b
      OBVIOUS
    <3> HIDE DEF r
    <3> QED
      BY <2>3, <2>4, <3>1, <3>2
  <2> QED
    BY <1>2, <2>1, <2>2, <2>3, <2>4, <2>5 DEF CallOK, AfterFailure
<1>3. CASE senders[s].attempt # 1
  <2> DEFINE r == [senders[s] EXCEPT !.pc = "idle", !.result = "failed"]
  <2>1. r \in SenderRecord
    BY <1>1 DEF SenderRecord
  <2>2. senders' = [senders EXCEPT ![s] = r]
    BY <1>1, <1>3 DEF PublishFails, Returns
  <2>3. /\ r.pc = "idle" /\ r.sends = senders[s].sends /\ r.calls = senders[s].calls
        /\ r.attempt = senders[s].attempt /\ r.cli = senders[s].cli /\ r.result = "failed"
    BY <1>1 DEF SenderRecord
  <2>4. r.calls + Left(r) <= 2 * r.sends /\ r.cli <= Len(clients)
    <3>1. /\ Left(r) = 0 /\ senders[s].calls \in Nat /\ senders[s].sends \in Nat
          /\ Left(senders[s]) \in Nat
      BY <1>1, <2>3 DEF Left, SenderRecord
    <3>2. \A a, b, k \in Nat : a + k <= 2 * b => a + 0 <= 2 * b
      OBVIOUS
    <3>3. /\ senders[s].calls + Left(senders[s]) <= 2 * senders[s].sends
          /\ senders[s].cli <= Len(clients)
      BY <1>1 DEF CallOK
    <3> HIDE DEF r
    <3> QED
      BY <2>3, <3>1, <3>2, <3>3
  <2> QED
    BY <1>3, <2>1, <2>2, <2>3, <2>4 DEF CallOK, AfterFailure
<1> QED
  BY <1>2, <1>3

LEMMA NewClientOK ==
  /\ NewClient \in ClientRecord /\ Numbered(NewClient) /\ NewClient.connected
  /\ Elements(NewClient.wire) = {} /\ NewClient.waiters = {}
<1>1. /\ << >> \in Seq(Publish) /\ << >> \in Seq(Nat) /\ << >> \in Seq(Confirm)
      /\ Len(<< >>) = 0 /\ Elements(<< >>) = {}
  BY EmptyElements
<1>2. {} \in SUBSET Waiter /\ {} \in SUBSET Nat /\ 0 \in Nat
  OBVIOUS
<1>3. NewClient \in ClientRecord
  BY <1>1, <1>2 DEF NewClient, ClientRecord
<1>4. 0 + 0 <= 0 /\ 0 = 0 + 0 /\ 1 .. 0 = {}
  OBVIOUS
<1>5. Numbered(NewClient)
  BY <1>1, <1>4 DEF NewClient, Numbered
<1> QED
  BY <1>1, <1>3, <1>5 DEF NewClient

\* close() of a client that is dialed.
LEMMA ClosedOK ==
  ASSUME NEW cs \in ClientRecord, Numbered(cs)
  PROVE  /\ Closed(cs) \in ClientRecord /\ Numbered(Closed(cs))
         /\ Closed(cs).open = FALSE /\ ~Closed(cs).connected
         /\ Closed(cs).wire = cs.wire /\ Closed(cs).waiters = cs.waiters
         /\ Closed(cs).confirms = cs.confirms /\ CameBack(Closed(cs)) = CameBack(cs)
<1> DEFINE r == Closed(cs)
<1>1. /\ r.open = FALSE /\ r.connected = FALSE
      /\ r.wire = cs.wire /\ r.waiters = cs.waiters /\ r.confirms = cs.confirms
      /\ r.got = cs.got /\ r.seq = cs.seq
      /\ r.returned = cs.returned /\ r.returns = cs.returns
  BY DEF ClientRecord, Closed
<1>2. r \in ClientRecord
  BY DEF ClientRecord, Closed
<1> HIDE DEF r
<1>3. Numbered(r)
  BY <1>1 DEF Numbered, Waiting
<1> QED
  BY <1>1, <1>2, <1>3 DEF CameBack, r

\* The clients dialed, one of which may have been closed.
ClientsOK(cs) ==
  /\ cs \in Seq(ClientRecord) /\ Len(cs) = Len(clients)
  /\ \A c \in Clients :
       /\ Numbered(cs[c])
       /\ cs[c].connected => clients[c].connected
       /\ Elements(cs[c].wire) \subseteq Elements(clients[c].wire)
       /\ cs[c].waiters = clients[c].waiters

LEMMA SameClientsOK ==
  ASSUME ChannelInv
  PROVE  ClientsOK(clients)
  BY DEF ChannelInv, Types, ClientsOK

LEMMA ClosingOK ==
  ASSUME ChannelInv, NEW c \in Clients
  PROVE  LET closing == [clients EXCEPT ![c] = Closed(clients[c])]
         IN  /\ ClientsOK(closing) /\ ~closing[c].connected
             /\ closing[c] = Closed(clients[c])
             /\ \A d \in Clients \ {c} : closing[d] = clients[d]
<1> DEFINE closing == [clients EXCEPT ![c] = Closed(clients[c])]
<1>1. clients[c] \in ClientRecord /\ Numbered(clients[c])
  BY ClientTypes DEF ChannelInv
<1>2. /\ Closed(clients[c]) \in ClientRecord /\ Numbered(Closed(clients[c]))
      /\ ~Closed(clients[c]).connected /\ Closed(clients[c]).wire = clients[c].wire
      /\ Closed(clients[c]).waiters = clients[c].waiters
  BY <1>1, ClosedOK
<1>3. /\ closing \in Seq(ClientRecord) /\ Len(closing) = Len(clients)
      /\ closing[c] = Closed(clients[c])
      /\ \A d \in Clients \ {c} : closing[d] = clients[d]
  BY <1>2 DEF ChannelInv, Types, Clients
<1>4. \A d \in Clients : Numbered(clients[d])
  BY DEF ChannelInv
<1> HIDE DEF closing
<1>5. ClientsOK(closing)
  BY <1>2, <1>3, <1>4 DEF ClientsOK
<1> QED
  BY <1>2, <1>3, <1>5 DEF closing

\* A call of Send dials: nothing else is connected by then.
LEMMA DialStep ==
  ASSUME ChannelInv, NEW s \in Senders, NEW r \in SenderRecord, NEW cs,
         senders' = [senders EXCEPT ![s] = r],
         r.sends = senders[s].sends, r.calls = senders[s].calls,
         ClientsOK(cs), \A c \in Clients : ~cs[c].connected,
         Dialed(cs), CallOK(r, Len(clients) + 1),
         UNCHANGED <<closed, stored>>
  PROVE  ChannelInv'
<1>1. /\ cs \in Seq(ClientRecord) /\ Len(cs) = Len(clients) /\ Len(cs) \in Nat
      /\ Len(cs) < MaxDials
  BY DEF ClientsOK, Dialed
<1>2. /\ clients' \in Seq(ClientRecord) /\ Len(clients') = Len(clients) + 1
      /\ clients'[Len(clients) + 1] = NewClient
      /\ \A c \in Clients : clients'[c] = cs[c]
  <2>1. clients' = Append(cs, NewClient)
    BY DEF Dialed
  <2> QED
    BY <1>1, <2>1, NewClientOK, AppendElements DEF Clients
<1>3. client' = Len(clients) + 1 /\ client' \in 0 .. Len(clients')
      /\ Len(clients') \in 1 .. MaxDials /\ Len(clients) <= Len(clients')
      /\ Len(clients') \in Nat
  BY <1>1, <1>2 DEF Dialed
<1>4. /\ senders' \in [Senders -> SenderRecord]
      /\ \A t \in Senders : /\ senders'[t].sends = senders[t].sends
                            /\ senders'[t].calls = senders[t].calls
                            /\ CallOK(senders'[t], Len(clients'))
  BY <1>2, <1>3, OneSender
<1>5. \A c \in 1 .. Len(clients') : c \in Clients \/ c = Len(clients) + 1
  BY <1>1, <1>2 DEF Clients
<1>6. \A c \in 1 .. Len(clients') :
           /\ Numbered(clients'[c])
           /\ clients'[c].connected => c = client'
           /\ \/ Elements(clients'[c].wire) = {} /\ clients'[c].waiters = {}
              \/ /\ c \in Clients
                 /\ Elements(clients'[c].wire) \subseteq Elements(clients[c].wire)
                 /\ clients'[c].waiters \subseteq clients[c].waiters
  <2> SUFFICES ASSUME NEW c \in 1 .. Len(clients')
               PROVE  /\ Numbered(clients'[c])
                      /\ clients'[c].connected => c = client'
                      /\ \/ Elements(clients'[c].wire) = {} /\ clients'[c].waiters = {}
                         \/ /\ c \in Clients
                            /\ Elements(clients'[c].wire) \subseteq Elements(clients[c].wire)
                            /\ clients'[c].waiters \subseteq clients[c].waiters
    OBVIOUS
  <2>1. CASE c \in Clients
    BY <1>2, <2>1 DEF ClientsOK
  <2>2. CASE c = Len(clients) + 1
    BY <1>2, <1>3, <2>2, NewClientOK
  <2> QED
    BY <1>5, <2>1, <2>2
<1>7. closed' \in BOOLEAN
  BY DEF ChannelInv, Types
<1> QED
  BY <1>2, <1>3, <1>4, <1>6, <1>7, SendersMove

\* A call of Send goes on to r: it publishes nothing, and reports only what it
\* was answered.
Proceeds(s, r) ==
  /\ senders' = [senders EXCEPT ![s] = r]
  /\ r \in SenderRecord
  /\ r.sends = senders[s].sends /\ r.calls = senders[s].calls
  /\ CallOK(r, Len(clients'))
  /\ UNCHANGED stored
  /\ r.pc # "await"
  /\ \/ r.result \in {"none", "failed"}
     \/ /\ senders[s].pc = "await" /\ r.result = senders[s].answer
        /\ r.result = "ok" \/ senders[s].attempt = 1
  /\ \/ r.pc \notin {"current", "check", "publish"}
     \/ r.attempt = 2
     \/ /\ senders[s].pc \in {"current", "check", "publish"}
        /\ senders[s].attempt = r.attempt

LEMMA FailureProceeds ==
  ASSUME ChannelInv, NEW s \in Senders, PublishFails(s),
         senders[s].pc \in {"check", "publish", "await"},
         UNCHANGED <<clients, stored>>
  PROVE  \E r : Proceeds(s, r)
<1> DEFINE r == AfterFailure(senders[s])
<1>1. /\ senders' = [senders EXCEPT ![s] = r]
      /\ r \in SenderRecord /\ CallOK(r, Len(clients))
      /\ r.sends = senders[s].sends /\ r.calls = senders[s].calls
      /\ \/ r.pc = "idle" /\ r.result = "failed"
         \/ r.pc = "reconnect" /\ r.result = "none"
  BY FailureShape
<1> HIDE DEF r
<1>2. Proceeds(s, r)
  BY <1>1 DEF Proceeds
<1> QED
  BY <1>2

\* A call of Send returns.
LEMMA ReturnProceeds ==
  ASSUME ChannelInv, NEW s \in Senders, NEW result \in {"ok", "failed", "unroutable"},
         Returns(s, result), senders[s].pc # "idle",
         \/ result = "failed"
         \/ /\ senders[s].pc = "await" /\ result = senders[s].answer
            /\ result = "ok" \/ senders[s].attempt = 1,
         Len(clients') = Len(clients), UNCHANGED stored
  PROVE  \E r : Proceeds(s, r)
<1> DEFINE r == [senders[s] EXCEPT !.pc = "idle", !.result = result]
<1>1. /\ senders[s] \in SenderRecord /\ CallOK(senders[s], Len(clients))
      /\ senders \in [Senders -> SenderRecord]
  BY SenderTypes DEF ChannelInv, Types
<1>2. r \in SenderRecord
  BY <1>1 DEF SenderRecord
<1>3. /\ r.pc = "idle" /\ r.sends = senders[s].sends /\ r.calls = senders[s].calls
      /\ r.cli = senders[s].cli /\ r.result = result
  BY <1>1 DEF SenderRecord
<1>4. senders' = [senders EXCEPT ![s] = r]
  BY <1>1 DEF Returns
<1>5. /\ Left(r) = 0 /\ senders[s].calls \in Nat /\ senders[s].sends \in Nat
      /\ Left(senders[s]) \in Nat
  BY <1>1, <1>3 DEF Left, SenderRecord
<1>6. r.calls + Left(r) <= 2 * r.sends
  <2>1. \A a, b, k \in Nat : a + k <= 2 * b => a + 0 <= 2 * b
    OBVIOUS
  <2>2. senders[s].calls + Left(senders[s]) <= 2 * senders[s].sends
    BY <1>1 DEF CallOK
  <2> HIDE DEF r
  <2> QED
    BY <1>3, <1>5, <2>1, <2>2
<1> HIDE DEF r
<1>7. CallOK(r, Len(clients'))
  BY <1>1, <1>3, <1>6 DEF CallOK
<1>8. Proceeds(s, r)
  BY <1>2, <1>3, <1>4, <1>7 DEF Proceeds
<1> QED
  BY <1>8

\* A call of Send goes on to check the client c.
LEMMA CheckProceeds ==
  ASSUME ChannelInv, NEW s \in Senders, senders[s].pc = "current", NEW c \in Nat \ {0},
         senders' = [senders EXCEPT ![s].pc = "check", ![s].cli = c],
         c <= Len(clients'), UNCHANGED stored
  PROVE  \E r : Proceeds(s, r)
<1> DEFINE r == [senders[s] EXCEPT !.pc = "check", !.cli = c]
<1>1. /\ senders[s] \in SenderRecord /\ CallOK(senders[s], Len(clients))
      /\ senders \in [Senders -> SenderRecord]
  BY SenderTypes DEF ChannelInv, Types
<1>2. r \in SenderRecord
  BY <1>1 DEF SenderRecord
<1>3. /\ r.pc = "check" /\ r.sends = senders[s].sends /\ r.calls = senders[s].calls
      /\ r.cli = c /\ r.result = senders[s].result /\ r.attempt = senders[s].attempt
  BY <1>1 DEF SenderRecord
<1>4. senders' = [senders EXCEPT ![s] = r]
  BY <1>1
<1>5. Left(r) = Left(senders[s])
  BY <1>3 DEF Left
<1> HIDE DEF r
<1>6. CallOK(r, Len(clients'))
  BY <1>1, <1>3, <1>5 DEF CallOK
<1>7. r.result = "none"
  BY <1>1, <1>3 DEF CallOK
<1>8. Proceeds(s, r)
  BY <1>2, <1>3, <1>4, <1>6, <1>7 DEF Proceeds
<1> QED
  BY <1>8

\* A dial adds a client.
LEMMA DialedOne ==
  ASSUME ChannelInv, NEW cs, ClientsOK(cs), Dialed(cs)
  PROVE  clients' # clients /\ Len(clients') = Len(clients) + 1
<1>1. cs \in Seq(ClientRecord) /\ Len(cs) = Len(clients) /\ Len(clients) \in Nat
  BY DEF ClientsOK, ChannelInv, Types
<1>2. Len(Append(cs, NewClient)) = Len(cs) + 1
  BY <1>1, NewClientOK, AppendElements
<1> QED
  BY <1>1, <1>2 DEF Dialed

LEMMA CliDialed ==
  ASSUME ChannelInv, NEW s \in Senders,
         senders[s].pc \in {"check", "publish", "await", "reconnect"}
  PROVE  senders[s].cli \in Clients
<1>1. CallOK(senders[s], Len(clients)) /\ senders[s].cli \in Nat /\ Len(clients) \in Nat
  BY SenderTypes DEF ChannelInv, Types
<1> QED
  BY <1>1 DEF CallOK, Clients

\* The steps that leave the clients alone.
LEMMA StaysShape ==
  ASSUME ChannelInv, NEW s \in Senders,
         SendStep(s) \/ AwaitCanceled(s), ~PublishWritten(s), UNCHANGED clients
  PROVE  UNCHANGED <<closed, stored>> /\ \E r : Proceeds(s, r)
<1>1. UNCHANGED <<clients, closed, stored>>
  BY DEF Current, Check, PublishNotWritten, Await, AwaitCanceled, Reconnect, SendStep
<1>2. CASE Current(s)
  <2>1. CASE Returns(s, "failed")
    BY <1>1, <1>2, <2>1, ReturnProceeds DEF Current
  <2>2. CASE client # 0 /\ senders' = [senders EXCEPT ![s].pc = "check", ![s].cli = client]
    <3>1. client \in Nat \ {0} /\ client <= Len(clients')
      BY <1>1, <2>2 DEF ChannelInv, Types
    <3> QED
      BY <1>1, <1>2, <2>2, <3>1, CheckProceeds DEF Current
  <2>3. CASE Dialed(clients)
    BY <1>1, <2>3, DialedOne, SameClientsOK
  <2> QED
    BY <1>2, <2>1, <2>2, <2>3 DEF Current
<1>3. CASE Check(s)
  <2>1. CASE PublishFails(s)
    BY <1>1, <1>3, <2>1, FailureProceeds DEF Check
  <2>2. CASE senders' = [senders EXCEPT ![s].pc = "publish"]
    <3> DEFINE r == [senders[s] EXCEPT !.pc = "publish"]
    <3>1. /\ senders[s] \in SenderRecord /\ CallOK(senders[s], Len(clients))
          /\ senders \in [Senders -> SenderRecord] /\ senders[s].pc = "check"
      BY <1>3, SenderTypes DEF ChannelInv, Types, Check
    <3>2. r \in SenderRecord
      BY <3>1 DEF SenderRecord
    <3>3. /\ r.pc = "publish" /\ r.sends = senders[s].sends /\ r.calls = senders[s].calls
          /\ r.cli = senders[s].cli /\ r.result = senders[s].result
          /\ r.attempt = senders[s].attempt
      BY <3>1 DEF SenderRecord
    <3>4. senders' = [senders EXCEPT ![s] = r]
      BY <2>2, <3>1
    <3>5. Left(r) = Left(senders[s])
      BY <3>1, <3>3 DEF Left
    <3> HIDE DEF r
    <3>6. CallOK(r, Len(clients')) /\ r.result = "none"
      BY <1>1, <3>1, <3>3, <3>5 DEF CallOK
    <3>7. Proceeds(s, r)
      BY <1>1, <3>1, <3>2, <3>3, <3>4, <3>6 DEF Proceeds
    <3> QED
      BY <1>1, <3>7
  <2> QED
    BY <1>3, <2>1, <2>2 DEF Check
<1>4. CASE PublishNotWritten(s) \/ AwaitCanceled(s)
  BY <1>1, <1>4, FailureProceeds DEF PublishNotWritten, AwaitCanceled
<1>5. CASE Await(s)
  <2>1. CASE PublishFails(s)
    BY <1>1, <1>5, <2>1, FailureProceeds DEF Await
  <2>2. CASE senders[s].answer = "ok" /\ Returns(s, "ok")
    BY <1>1, <1>5, <2>2, ReturnProceeds DEF Await
  <2>3. CASE /\ senders[s].answer = "unroutable" /\ senders[s].attempt = 1
             /\ Returns(s, "unroutable")
    BY <1>1, <1>5, <2>3, ReturnProceeds DEF Await
  <2> QED
    BY <1>5, <2>1, <2>2, <2>3 DEF Await
<1>6. CASE Reconnect(s)
  <2>1. CASE Returns(s, "failed")
    BY <1>1, <1>6, <2>1, ReturnProceeds DEF Reconnect
  <2>2. CASE /\ ~NoDial(senders[s].cli)
             /\ Dialed([clients EXCEPT ![senders[s].cli] = Closed(@)])
    <3>1. senders[s].cli \in Clients
      BY <1>6, CliDialed DEF Reconnect
    <3>2. ClientsOK([clients EXCEPT ![senders[s].cli] = Closed(@)])
      BY <3>1, ClosingOK
    <3> QED
      BY <1>1, <2>2, <3>2, DialedOne
  <2> QED
    BY <1>6, <2>1, <2>2 DEF Reconnect
<1> QED
  BY <1>1, <1>2, <1>3, <1>4, <1>5, <1>6 DEF SendStep

\* current() dials when no client is in use.
LEMMA CurrentDials ==
  ASSUME ChannelInv, NEW s \in Senders, Current(s), clients' # clients
  PROVE  /\ client = 0 /\ Dialed(clients) /\ UNCHANGED <<closed, stored>>
         /\ \E r : Proceeds(s, r)
<1>1. /\ client = 0 /\ Dialed(clients) /\ UNCHANGED <<closed, stored>>
      /\ senders[s].pc = "current"
      /\ senders' = [senders EXCEPT ![s].pc = "check", ![s].cli = client']
  BY DEF Current
<1>2. client' \in Nat \ {0} /\ client' = Len(clients') /\ Len(clients') \in Nat
  <2>1. client' = Len(clients) + 1 /\ Len(clients) \in Nat
    BY <1>1 DEF Dialed, ChannelInv, Types
  <2>2. Len(clients') = Len(clients) + 1
    BY <1>1, DialedOne, SameClientsOK
  <2> QED
    BY <2>1, <2>2
<1>3. client' <= Len(clients')
  BY <1>2
<1>4. \E r : Proceeds(s, r)
  <2> DEFINE c == client'
  <2>1. /\ c \in Nat \ {0} /\ c <= Len(clients')
        /\ senders' = [senders EXCEPT ![s].pc = "check", ![s].cli = c]
    BY <1>1, <1>2, <1>3
  <2> HIDE DEF c
  <2> QED
    BY <1>1, <2>1, CheckProceeds
<1> QED
  BY <1>1, <1>4

\* reconnect closes the client in use and dials another, or gives up.
LEMMA ReconnectDials ==
  ASSUME ChannelInv, NEW s \in Senders, Reconnect(s), ~NoDial(senders[s].cli)
  PROVE  LET closing == [clients EXCEPT ![client] = Closed(clients[client])]
         IN  /\ client \in Clients /\ UNCHANGED <<closed, stored>>
             /\ Dialed(closing) \/ (clients' = closing /\ client' = 0)
             /\ \E r : Proceeds(s, r)
<1> DEFINE closing == [clients EXCEPT ![client] = Closed(clients[client])]
<1>1. /\ senders[s].pc = "reconnect" /\ client = senders[s].cli /\ client \in Clients
      /\ UNCHANGED <<closed, stored>>
  BY CliDialed DEF Reconnect, NoDial
<1>2. \/ /\ Dialed(closing)
         /\ senders' = [senders EXCEPT ![s].pc = "current", ![s].attempt = 2]
      \/ /\ clients' = closing /\ client' = 0
         /\ Returns(s, "failed")
  BY <1>1 DEF Reconnect
<1>3. ClientsOK(closing)
  BY <1>1, ClosingOK
<1>4. Len(closing) = Len(clients)
  BY <1>3 DEF ClientsOK
<1> HIDE DEF closing
<1>5. CASE clients' = closing /\ Returns(s, "failed")
  BY <1>1, <1>2, <1>4, <1>5, ReturnProceeds DEF closing
<1>6. CASE /\ Dialed(closing)
           /\ senders' = [senders EXCEPT ![s].pc = "current", ![s].attempt = 2]
  <2> DEFINE r == [senders[s] EXCEPT !.pc = "current", !.attempt = 2]
  <2>1. /\ senders[s] \in SenderRecord /\ CallOK(senders[s], Len(clients))
        /\ senders \in [Senders -> SenderRecord] /\ Len(clients) \in Nat
    BY SenderTypes DEF ChannelInv, Types
  <2>2. r \in SenderRecord
    BY <2>1 DEF SenderRecord
  <2>3. /\ r.pc = "current" /\ r.sends = senders[s].sends /\ r.calls = senders[s].calls
        /\ r.cli = senders[s].cli /\ r.result = senders[s].result /\ r.attempt = 2
        /\ r.cli \in Nat
    BY <2>1 DEF SenderRecord
  <2>4. senders' = [senders EXCEPT ![s] = r]
    BY <1>6, <2>1
  <2>5. Left(r) = Left(senders[s])
    BY <1>1, <2>1, <2>3 DEF Left, CallOK
  <2>6. Len(clients') = Len(clients) + 1
    BY <1>3, <1>6, DialedOne
  <2> HIDE DEF r
  <2>7. CallOK(r, Len(clients')) /\ r.result = "none"
    BY <1>1, <2>1, <2>3, <2>5, <2>6 DEF CallOK
  <2>8. Proceeds(s, r)
    BY <1>1, <2>2, <2>3, <2>4, <2>7 DEF Proceeds
  <2> QED
    BY <1>1, <1>6, <2>8 DEF closing
<1> QED
  BY <1>2, <1>5, <1>6

\* The client in use is closed and none is put in its place.
LEMMA ClosesStep ==
  ASSUME ChannelInv, senders' \in [Senders -> SenderRecord],
         \A s \in Senders : /\ senders'[s].sends = senders[s].sends
                            /\ senders'[s].calls = senders[s].calls
                            /\ CallOK(senders'[s], Len(clients')),
         ClientsOK(clients'), \A c \in Clients : ~clients'[c].connected,
         client' = 0, closed' \in BOOLEAN, UNCHANGED stored
  PROVE  ChannelInv'
<1>1. /\ clients' \in Seq(ClientRecord) /\ Len(clients') = Len(clients)
      /\ Len(clients') \in 1 .. MaxDials
  BY DEF ClientsOK, ChannelInv, Types
<1>2. \A c \in 1 .. Len(clients') :
        /\ c \in Clients /\ Numbered(clients'[c]) /\ ~clients'[c].connected
        /\ Elements(clients'[c].wire) \subseteq Elements(clients[c].wire)
        /\ clients'[c].waiters \subseteq clients[c].waiters
  BY <1>1 DEF ClientsOK, Clients
<1>3. client' \in 0 .. Len(clients')
  BY <1>1
<1> QED
  BY <1>1, <1>2, <1>3, SendersMove

LEMMA SendStepKeeps ==
  ASSUME ChannelInv, NEW s \in Senders,
         SendStep(s) \/ AwaitCanceled(s), ~PublishWritten(s)
  PROVE  ChannelInv'
<1>1. CASE UNCHANGED <<clients, client>>
  <2>1. PICK r : Proceeds(s, r) /\ UNCHANGED <<closed, stored>>
    BY <1>1, StaysShape
  <2>2. Len(clients') = Len(clients)
    BY <1>1
  <2> QED
    BY <1>1, <2>1, <2>2, OnlySender DEF Proceeds
<1>2. CASE Current(s) /\ clients' # clients
  <2>1. client = 0 /\ Dialed(clients) /\ UNCHANGED <<closed, stored>>
    BY <1>2, CurrentDials
  <2>2. PICK r : Proceeds(s, r)
    BY <1>2, CurrentDials
  <2>3. ClientsOK(clients) /\ Len(clients') = Len(clients) + 1
    BY <2>1, SameClientsOK, DialedOne
  <2>4. \A c \in Clients : ~clients[c].connected
    BY <2>1 DEF ChannelInv, Belongs, Clients
  <2> QED
    BY <2>1, <2>2, <2>3, <2>4, DialStep DEF Proceeds
<1>3. CASE Reconnect(s) /\ ~NoDial(senders[s].cli)
  <2> DEFINE closing == [clients EXCEPT ![client] = Closed(clients[client])]
  <2>1. /\ client \in Clients /\ UNCHANGED <<closed, stored>>
        /\ Dialed(closing) \/ (clients' = closing /\ client' = 0)
    BY <1>3, ReconnectDials
  <2>2. PICK r : Proceeds(s, r)
    BY <1>3, ReconnectDials
  <2>3. /\ ClientsOK(closing) /\ ~closing[client].connected
        /\ \A d \in Clients \ {client} : closing[d] = clients[d]
    BY <2>1, ClosingOK
  <2>4. \A c \in Clients : ~closing[c].connected
    BY <2>3 DEF ChannelInv, Belongs
  <2> HIDE DEF closing
  <2>5. CASE Dialed(closing)
    <3>1. Len(clients') = Len(clients) + 1
      BY <2>3, <2>5, DialedOne
    <3> QED
      BY <2>1, <2>2, <2>3, <2>4, <2>5, <3>1, DialStep DEF Proceeds
  <2>6. CASE clients' = closing /\ client' = 0
    <3>1. ClientsOK(clients') /\ \A c \in Clients : ~clients'[c].connected
      BY <2>3, <2>4, <2>6
    <3>2. Len(clients') \in Nat /\ Len(clients) <= Len(clients')
      BY <3>1 DEF ClientsOK, ChannelInv, Types
    <3>3. /\ senders' \in [Senders -> SenderRecord]
          /\ \A t \in Senders : /\ senders'[t].sends = senders[t].sends
                                /\ senders'[t].calls = senders[t].calls
                                /\ CallOK(senders'[t], Len(clients'))
      BY <2>2, <3>2, OneSender DEF Proceeds
    <3>4. closed' \in BOOLEAN /\ UNCHANGED stored
      BY <2>1 DEF ChannelInv, Types
    <3> QED
      BY <2>6, <3>1, <3>3, <3>4, ClosesStep
  <2> QED
    BY <2>1, <2>5, <2>6
<1>4. CASE Reconnect(s) /\ NoDial(senders[s].cli)
  BY <1>1, <1>4 DEF Reconnect
<1>5. CASE Current(s) /\ clients' = clients
  <2>1. ~Dialed(clients)
    BY <1>5, DialedOne, SameClientsOK
  <2> QED
    BY <1>1, <1>5, <2>1 DEF Current
<1>6. CASE Check(s) \/ PublishNotWritten(s) \/ Await(s) \/ AwaitCanceled(s)
  BY <1>1, <1>6 DEF Check, PublishNotWritten, Await, AwaitCanceled
<1> QED
  BY <1>2, <1>3, <1>4, <1>5, <1>6 DEF SendStep

-----------------------------------------------------------------------------
(* Send begins, a message is written, the producer is closed.              *)

\* A goroutine's sends are among those that were counted.
LEMMA SendsCounted ==
  ASSUME Types, NEW s \in Senders
  PROVE  senders[s].sends <= Cardinality(Sent)
<1> DEFINE n == senders[s].sends
           T == {m \in Sent : m[1] = s}
           f == [m \in T |-> m[2]]
<1>1. n \in Nat /\ n <= MaxSends
  BY SenderTypes
<1>2. IsFiniteSet(T) /\ Cardinality(T) <= Cardinality(Sent)
  <2>1. T \subseteq Sent
    OBVIOUS
  <2> HIDE DEF T
  <2> QED
    BY <2>1, FS_Subset DEF Types
<1>3. \A m \in T : m[2] \in 1 .. n
  BY <1>1 DEF Sent, Message
<1>4. \A i \in 1 .. n : <<s, i>> \in T
  <2> SUFFICES ASSUME NEW i \in 1 .. n PROVE <<s, i>> \in Sent
    OBVIOUS
  <2>1. i \in 1 .. MaxSends /\ i <= n
    BY <1>1
  <2> QED
    BY <2>1 DEF Sent, Message
<1>5. f \in [T -> 1 .. n] /\ \A i \in 1 .. n : \E m \in T : f[m] = i
  <2>1. \A i \in 1 .. n : <<s, i>> \in T /\ f[<<s, i>>] = i
    BY <1>4
  <2>2. f \in [T -> 1 .. n]
    BY <1>3
  <2> HIDE DEF f
  <2> QED
    BY <2>1, <2>2
<1>6. f \in Surjection(T, 1 .. n)
  BY <1>5 DEF Surjection
<1>7. Cardinality(1 .. n) <= Cardinality(T)
  <2> HIDE DEF f, T, n
  <2> QED
    BY <1>2, <1>6, FS_Surjection
<1>8. Cardinality(1 .. n) = n
  <2> HIDE DEF n
  <2> QED
    BY <1>1, FS_Interval
<1>9. Cardinality(T) \in Nat /\ Cardinality(Sent) \in Nat
  BY <1>2, FS_CardinalityType DEF Types
<1> HIDE DEF T, n
<1> QED
  BY <1>1, <1>2, <1>7, <1>8, <1>9 DEF n

LEMMA SendKeeps ==
  ASSUME ChannelInv, NEW s \in Senders, Send(s)
  PROVE  ChannelInv'
<1> DEFINE r == [senders[s] EXCEPT !.pc = "current", !.sends = @ + 1, !.attempt = 1,
                                   !.result = "none"]
           m == <<s, senders[s].sends + 1>>
<1>1. /\ senders[s] \in SenderRecord /\ CallOK(senders[s], Len(clients))
      /\ senders \in [Senders -> SenderRecord] /\ senders[s].sends \in 0 .. MaxSends
      /\ senders[s].calls \in Nat /\ senders[s].pc = "idle"
      /\ Cardinality(Sent) < MaxSends /\ Cardinality(Sent) \in Nat /\ Types
      /\ UNCHANGED <<clients, client, closed, stored>>
  BY SenderTypes, FS_CardinalityType DEF ChannelInv, Types, Send
<1>2. senders[s].sends + 1 \in 1 .. MaxSends
  BY <1>1, SendsCounted
<1>3. r \in SenderRecord
  <2>1. senders[s].sends + 1 \in 0 .. MaxSends
    BY <1>2
  <2> QED
    BY <1>1, <2>1 DEF SenderRecord
<1>4. /\ r.pc = "current" /\ r.sends = senders[s].sends + 1 /\ r.calls = senders[s].calls
      /\ r.cli = senders[s].cli /\ r.result = "none" /\ r.attempt = 1
  BY <1>1 DEF SenderRecord
<1>5. senders' = [senders EXCEPT ![s] = r]
  BY <1>1 DEF Send
<1> HIDE DEF r
<1>6. /\ senders' \in [Senders -> SenderRecord] /\ senders'[s] = r
      /\ \A t \in Senders \ {s} : senders'[t] = senders[t]
  BY <1>1, <1>3, <1>5
<1>7. CallOK(r, Len(clients'))
  <2>1. senders[s].calls + 0 <= 2 * senders[s].sends /\ r.cli <= Len(clients)
    BY <1>1, <1>4 DEF CallOK, Left
  <2>2. Left(r) = 2
    BY <1>4 DEF Left
  <2>3. \A a, b \in Nat : a + 0 <= 2 * b => a + 2 <= 2 * (b + 1)
    OBVIOUS
  <2>4. r.calls + Left(r) <= 2 * r.sends
    BY <1>1, <1>4, <2>1, <2>2, <2>3
  <2>5. r.sends # 0
    BY <1>2, <1>4
  <2> QED
    BY <1>1, <1>4, <2>1, <2>4, <2>5 DEF CallOK
<1>8. Sent' = Sent \cup {m}
  <2>1. m \in Message
    BY <1>2 DEF Message
  <2>2. \A x \in Message : x[1] \in Senders /\ x[2] \in Nat /\ x = <<x[1], x[2]>>
    BY DEF Message
  <2>3. \A x \in Message : x \in Sent' <=> x \in Sent \/ x = m
    <3> SUFFICES ASSUME NEW x \in Message PROVE x \in Sent' <=> x \in Sent \/ x = m
      OBVIOUS
    <3>1. CASE x[1] # s
      BY <1>6, <2>2, <3>1 DEF Sent
    <3>2. CASE x[1] = s
      <4>1. x[2] <= senders[s].sends + 1
              <=> x[2] <= senders[s].sends \/ x[2] = senders[s].sends + 1
        BY <1>1, <2>2
      <4>2. x[2] = senders[s].sends + 1 <=> x = m
        BY <2>2, <3>2
      <4> QED
        BY <1>4, <1>6, <3>2, <4>1, <4>2 DEF Sent
    <3> QED
      BY <3>1, <3>2
  <2> QED
    BY <2>1, <2>3 DEF Sent
<1>9. IsFiniteSet(Sent') /\ Cardinality(Sent') <= MaxSends
  <2>1. m \notin Sent
    BY <1>1 DEF Sent
  <2>2. IsFiniteSet(Sent \cup {m}) /\ Cardinality(Sent \cup {m}) = Cardinality(Sent) + 1
    <3> HIDE DEF m
    <3> QED
      BY <1>1, <2>1, FS_AddElement DEF Types
  <2> HIDE DEF m
  <2> QED
    BY <1>1, <1>8, <2>2
<1>10. Types'
  BY <1>1, <1>6, <1>8, <1>9 DEF Types
<1>11. \A t \in Senders : CallOK(senders'[t], Len(clients'))
  BY <1>1, <1>6, <1>7 DEF ChannelInv
<1>12. \A t \in Senders : senders'[t].calls = senders[t].calls
  BY <1>4, <1>6
<1>13. ASSUME NEW c \in Clients
       PROVE  Numbered(clients'[c]) /\ Belongs(clients[c], c)'
  <2>1. Numbered(clients[c]) /\ Belongs(clients[c], c) /\ clients[c].waiters \subseteq Waiter
    BY ClientTypes DEF ChannelInv
  <2> QED
    BY <1>1, <1>8, <1>12, <2>1 DEF Belongs, Waiter
<1>14. Clients' = Clients
  BY <1>1 DEF Clients
<1> QED
  BY <1>10, <1>11, <1>13, <1>14 DEF ChannelInv

LEMMA CloseKeeps ==
  ASSUME ChannelInv, Close
  PROVE  ChannelInv'
<1>1. /\ client' = 0 /\ closed' = TRUE /\ UNCHANGED <<senders, stored>>
      /\ clients' = IF client = 0 THEN clients
                    ELSE [clients EXCEPT ![client] = Closed(clients[client])]
  BY DEF Close
<1>2. ClientsOK(clients') /\ \A c \in Clients : ~clients'[c].connected
  <2>1. \A c \in Clients : clients[c].connected => c = client
    BY DEF ChannelInv, Belongs
  <2>2. CASE client = 0
    BY <1>1, <2>1, <2>2, SameClientsOK DEF Clients
  <2>3. CASE client # 0
    <3>1. client \in Clients
      BY <2>3 DEF ChannelInv, Types, Clients
    <3> QED
      BY <1>1, <2>1, <2>3, <3>1, ClosingOK
  <2> QED
    BY <2>2, <2>3
<1>3. Len(clients') = Len(clients)
  BY <1>2 DEF ClientsOK
<1>4. /\ senders' \in [Senders -> SenderRecord]
      /\ \A s \in Senders : /\ senders'[s].sends = senders[s].sends
                            /\ senders'[s].calls = senders[s].calls
                            /\ CallOK(senders'[s], Len(clients'))
  BY <1>1, <1>3 DEF ChannelInv, Types
<1> QED
  BY <1>1, <1>2, <1>4, ClosesStep

\* A client with one more message on its wire.
AfterPublish(cs, s, call, msg) ==
  [cs EXCEPT !.seq = cs.seq + 1,
             !.waiters = @ \cup {[tag |-> cs.seq + 1, sender |-> s, call |-> call]},
             !.wire = Append(@, [id |-> cs.seq + 1, msg |-> msg])]

LEMMA AfterPublishOK ==
  ASSUME NEW cs \in ClientRecord, Numbered(cs), cs.open,
         NEW s \in Senders, NEW call \in Nat, NEW msg \in Message
  PROVE  LET r == AfterPublish(cs, s, call, msg)
         IN  /\ r \in ClientRecord /\ Numbered(r)
             /\ r.connected = cs.connected /\ r.open /\ r.got = cs.got
             /\ r.confirms = cs.confirms /\ CameBack(r) = CameBack(cs)
             /\ r.waiters = cs.waiters
                              \cup {[tag |-> cs.seq + 1, sender |-> s, call |-> call]}
             /\ Elements(r.wire) = Elements(cs.wire)
                                     \cup {[id |-> cs.seq + 1, msg |-> msg]}
<1> DEFINE r == AfterPublish(cs, s, call, msg)
           w == [tag |-> cs.seq + 1, sender |-> s, call |-> call]
           m == [id |-> cs.seq + 1, msg |-> msg]
<1>1. /\ cs.waiters \in SUBSET Waiter /\ cs.wire \in Seq(Publish)
      /\ cs.seq \in Nat /\ cs.got \in Nat /\ Len(cs.wire) \in Nat
  BY DEF ClientRecord
<1>2. w \in Waiter /\ m \in Publish /\ w.tag = cs.seq + 1 /\ m.id = cs.seq + 1
  BY <1>1 DEF Waiter, Publish
<1> HIDE DEF m, w
<1>3. /\ Append(cs.wire, m) \in Seq(Publish)
      /\ Len(Append(cs.wire, m)) = Len(cs.wire) + 1
      /\ Append(cs.wire, m)[Len(cs.wire) + 1] = m
      /\ \A i \in 1 .. Len(cs.wire) : Append(cs.wire, m)[i] = cs.wire[i]
      /\ Elements(Append(cs.wire, m)) = Elements(cs.wire) \cup {m}
  BY <1>1, <1>2, AppendElements
<1>4. r \in ClientRecord
  <2>1. cs.seq + 1 \in Nat /\ cs.waiters \cup {w} \in SUBSET Waiter
    BY <1>1, <1>2
  <2> QED
    BY <1>3, <2>1 DEF ClientRecord, AfterPublish, m, w
<1>5. /\ r.seq = cs.seq + 1 /\ r.waiters = cs.waiters \cup {w}
      /\ r.wire = Append(cs.wire, m)
      /\ r.returned = cs.returned /\ r.returns = cs.returns /\ r.confirms = cs.confirms
      /\ r.connected = cs.connected /\ r.open = cs.open /\ r.got = cs.got
  BY DEF ClientRecord, AfterPublish, m, w
<1> HIDE DEF r
<1>6. Numbered(r)
  <2>0. /\ cs.connected /\ cs.seq = cs.got + Len(cs.wire)
        /\ \A i \in 1 .. Len(cs.wire) : cs.wire[i].id = cs.got + i
        /\ \A v \in cs.waiters : v.tag <= cs.seq /\ v.tag \in Nat
    BY <1>1 DEF Numbered, Waiter
  <2>1. r.seq = r.got + Len(r.wire) /\ Len(r.wire) = Len(cs.wire) + 1
    BY <1>1, <1>3, <1>5, <2>0
  <2>2. \A i \in 1 .. Len(r.wire) : r.wire[i].id = r.got + i
    <3>1. \A i \in 1 .. Len(r.wire) : i \in 1 .. Len(cs.wire) \/ i = Len(cs.wire) + 1
      BY <1>1, <2>1
    <3>2. cs.seq + 1 = cs.got + (Len(cs.wire) + 1)
      BY <1>1, <2>0
    <3> QED
      BY <1>2, <1>3, <1>5, <2>0, <3>1, <3>2
  <2>3. \A v \in r.waiters : v.tag <= r.seq
    BY <1>1, <1>2, <1>5, <2>0
  <2>4. \A id \in r.returned : id <= r.got /\ Waiting(r, id)
    BY <1>5 DEF Numbered, Waiting
  <2>5. /\ \A id \in Elements(r.returns) : id <= r.got
        /\ \A conf \in Elements(r.confirms) : conf.tag <= r.got
    BY <1>5 DEF Numbered
  <2>6. r.got + Len(r.wire) <= r.seq
    BY <1>1, <1>5, <2>1
  <2> QED
    BY <1>5, <2>0, <2>1, <2>2, <2>3, <2>4, <2>5, <2>6 DEF Numbered
<1>7. CameBack(r) = CameBack(cs)
  BY <1>5 DEF CameBack
<1> QED
  BY <1>3, <1>4, <1>5, <1>6, <1>7 DEF r, m, w

\* A publish takes the next number, and its sender waits.
LEMMA PublishShape ==
  ASSUME ChannelInv, NEW s \in Senders, PublishWritten(s)
  PROVE  LET c == senders[s].cli
             call == senders[s].calls + 1
             r == [senders[s] EXCEPT !.pc = "await", !.calls = @ + 1, !.answer = "none"]
         IN  /\ senders[s].pc = "publish" /\ senders[s].result = "none"
             /\ c \in Clients /\ clients[c].open /\ UNCHANGED <<client, closed, stored>>
             /\ Own(s) \in Message /\ Own(s) \in Sent /\ call \in Nat
             /\ clients' = [clients EXCEPT ![c] = AfterPublish(clients[c], s, call, Own(s))]
             /\ senders' = [senders EXCEPT ![s] = r]
             /\ r \in SenderRecord /\ CallOK(r, Len(clients))
             /\ r.sends = senders[s].sends /\ r.calls = call /\ r.pc = "await"
             /\ r.answer = "none" /\ r.attempt = senders[s].attempt
             /\ r.result = senders[s].result /\ r.cli = c
<1> DEFINE c == senders[s].cli
           call == senders[s].calls + 1
           r == [senders[s] EXCEPT !.pc = "await", !.calls = @ + 1, !.answer = "none"]
<1>1. /\ senders[s] \in SenderRecord /\ CallOK(senders[s], Len(clients))
      /\ senders \in [Senders -> SenderRecord] /\ senders[s].pc = "publish"
      /\ senders[s].calls \in 0 .. 2 * MaxSends /\ senders[s].sends \in 0 .. MaxSends
      /\ senders[s].attempt \in {1, 2}
  BY SenderTypes DEF ChannelInv, Types, PublishWritten
<1>2. /\ c \in Clients /\ clients[c].open /\ clients[c] \in ClientRecord
      /\ UNCHANGED <<client, closed, stored>>
  BY <1>1, CliDialed, ClientTypes DEF ChannelInv, PublishWritten, Usable
<1>3. Own(s) \in Message /\ Own(s) \in Sent
  BY <1>1 DEF Own, Message, Sent, CallOK
<1>4. clients' = [clients EXCEPT ![c] = AfterPublish(clients[c], s, call, Own(s))]
  BY <1>1, <1>2 DEF PublishWritten, AfterPublish, Own, ChannelInv, Types, Clients, ClientRecord
<1>5. call \in 0 .. 2 * MaxSends /\ call + (2 - senders[s].attempt) <= 2 * senders[s].sends
  <2>1. /\ senders[s].calls + (3 - senders[s].attempt) <= 2 * senders[s].sends
    BY <1>1 DEF CallOK, Left
  <2>2. \A a, b, M \in Nat, k \in {1, 2} :
          b <= M /\ a + (3 - k) <= 2 * b
            => /\ a + 1 \in 0 .. 2 * M
               /\ a + 1 + (2 - k) <= 2 * b
    OBVIOUS
  <2> QED
    BY <1>1, <2>1, <2>2
<1>6. r \in SenderRecord
  BY <1>1, <1>5 DEF SenderRecord, Verdicts
<1>7. /\ r.sends = senders[s].sends /\ r.calls = call /\ r.pc = "await"
      /\ r.answer = "none" /\ r.attempt = senders[s].attempt
      /\ r.result = senders[s].result /\ r.cli = c
  BY <1>1 DEF SenderRecord
<1>8. senders' = [senders EXCEPT ![s] = r]
  BY <1>1 DEF PublishWritten
<1>9. CallOK(r, Len(clients)) /\ senders[s].result = "none"
  <2> HIDE DEF r, c, call
  <2>1. /\ c <= Len(clients) /\ c # 0 /\ senders[s].sends # 0
        /\ senders[s].result = "none"
    BY <1>1 DEF CallOK, c
  <2>2. Left(r) = 2 - senders[s].attempt
    BY <1>7 DEF Left
  <2> QED
    BY <1>5, <1>7, <2>1, <2>2 DEF CallOK
<1> QED
  BY <1>1, <1>2, <1>3, <1>4, <1>5, <1>6, <1>7, <1>8, <1>9

LEMMA PublishKeeps ==
  ASSUME ChannelInv, NEW s \in Senders, PublishWritten(s)
  PROVE  ChannelInv'
<1>0. PICK c \in Clients : c = senders[s].cli
  BY PublishShape
<1> DEFINE call == senders[s].calls + 1
           r == [senders[s] EXCEPT !.pc = "await", !.calls = @ + 1, !.answer = "none"]
           cs == AfterPublish(clients[c], s, call, Own(s))
           w == [tag |-> clients[c].seq + 1, sender |-> s, call |-> call]
<1>1. /\ clients[c].open /\ UNCHANGED <<client, closed, stored>>
      /\ Own(s) \in Message /\ Own(s) \in Sent /\ call \in Nat
      /\ clients' = [clients EXCEPT ![c] = cs]
      /\ senders' = [senders EXCEPT ![s] = r]
      /\ r \in SenderRecord /\ CallOK(r, Len(clients))
      /\ r.sends = senders[s].sends /\ r.calls = call
  BY <1>0, PublishShape
<1>2. clients[c] \in ClientRecord /\ Numbered(clients[c]) /\ Belongs(clients[c], c) /\ Types
  BY <1>1, ClientTypes DEF ChannelInv
<1>3. /\ cs \in ClientRecord /\ Numbered(cs) /\ cs.connected = clients[c].connected
      /\ cs.waiters = clients[c].waiters \cup {w}
      /\ Elements(cs.wire) = Elements(clients[c].wire)
                               \cup {[id |-> clients[c].seq + 1, msg |-> Own(s)]}
  <2> HIDE DEF call
  <2> QED
    BY <1>1, <1>2, AfterPublishOK
<1> HIDE DEF cs, r
<1>4. /\ clients' \in Seq(ClientRecord) /\ Len(clients') = Len(clients)
      /\ Clients' = Clients /\ clients'[c] = cs
      /\ \A d \in Clients \ {c} : clients'[d] = clients[d]
  BY <1>1, <1>2, <1>3, ReplaceClient
<1>5. /\ senders' \in [Senders -> SenderRecord] /\ senders'[s] = r
      /\ \A t \in Senders \ {s} : senders'[t] = senders[t]
  BY <1>1, <1>2 DEF Types
<1>6. Sent' = Sent
  BY <1>1, <1>5, SameSent
<1>7. Types'
  BY <1>1, <1>2, <1>4, <1>5, <1>6 DEF Types
<1>8. \A t \in Senders : CallOK(senders'[t], Len(clients'))
  BY <1>1, <1>4, <1>5 DEF ChannelInv
<1>9. \A t \in Senders : senders[t].calls <= senders'[t].calls /\ senders[t].calls \in Nat
                           /\ senders'[t].calls \in Nat
  BY <1>1, <1>2, <1>5, SenderTypes
<1>10. ASSUME NEW d \in Clients, d # c
       PROVE  Numbered(clients'[d]) /\ Belongs(clients[d], d)'
  <2>1. Numbered(clients[d]) /\ Belongs(clients[d], d) /\ clients[d].waiters \subseteq Waiter
    BY <1>2, ClientTypes DEF ChannelInv
  <2>2. \A v \in clients[d].waiters : v.call <= senders'[v.sender].calls
    BY <1>9, <2>1 DEF Belongs, Waiter
  <2>3. clients'[d] = clients[d]
    BY <1>4, <1>10
  <2> QED
    BY <1>1, <1>6, <2>1, <2>2, <2>3 DEF Belongs
<1>11. Numbered(clients'[c]) /\ Belongs(clients[c], c)'
  <2>1. clients[c].waiters \subseteq Waiter
    BY <1>1, <1>2, ClientTypes
  <2>2. \A v \in clients[c].waiters : v.call <= senders'[v.sender].calls
    BY <1>2, <1>9, <2>1 DEF Belongs, Waiter
  <2>3. w.call <= senders'[w.sender].calls
    BY <1>1, <1>5
  <2>4. \A m \in Elements(cs.wire) : m.msg \in Sent'
    BY <1>1, <1>2, <1>3, <1>6 DEF Belongs
  <2>5. cs.connected => c = client'
    BY <1>1, <1>2, <1>3 DEF Belongs
  <2> HIDE DEF w
  <2> QED
    BY <1>3, <1>4, <2>2, <2>3, <2>4, <2>5 DEF Belongs
<1> QED
  BY <1>4, <1>7, <1>8, <1>10, <1>11 DEF ChannelInv

-----------------------------------------------------------------------------

LEMMA InitChannel == Init => ChannelInv
<1> SUFFICES ASSUME Init PROVE ChannelInv
  OBVIOUS
<1>1. /\ clients = <<NewClient>> /\ client = 1 /\ closed = FALSE /\ stored = {}
      /\ senders = [s \in Senders |-> IdleSender]
  BY DEF Init
<1>2. clients \in Seq(ClientRecord) /\ Len(clients) = 1 /\ clients[1] = NewClient
      /\ Clients = {1}
  BY <1>1, NewClientOK DEF Clients
<1>3. IdleSender \in SenderRecord
  BY DEF IdleSender, SenderRecord
<1>4. senders \in [Senders -> SenderRecord] /\ \A s \in Senders : senders[s].sends = 0
  BY <1>1, <1>3 DEF IdleSender
<1>5. Sent = {}
  BY <1>4 DEF Sent, Message
<1>6. IsFiniteSet(Sent) /\ Cardinality(Sent) <= MaxSends
  BY <1>5, FS_EmptySet
<1>7. Types
  <2>1. 1 \in 1 .. MaxDials /\ 1 \in 0 .. 1
    OBVIOUS
  <2> QED
    BY <1>1, <1>2, <1>4, <1>6, <2>1 DEF Types
<1>8. CallOK(IdleSender, 1)
  BY DEF CallOK, IdleSender, Left
<1>9. Numbered(clients[1]) /\ Belongs(clients[1], 1)
  BY <1>1, <1>2, NewClientOK DEF Belongs
<1> QED
  BY <1>1, <1>2, <1>7, <1>8, <1>9 DEF ChannelInv

LEMMA NextKeeps == ChannelInv /\ [Next]_vars => ChannelInv'
<1> SUFFICES ASSUME ChannelInv, [Next]_vars PROVE ChannelInv'
  OBVIOUS
<1>1. ASSUME NEW s \in Senders, Send(s) \/ SendStep(s) \/ AwaitCanceled(s)
      PROVE  ChannelInv'
  BY <1>1, SendKeeps, PublishKeeps, SendStepKeeps
<1>2. CASE Close
  BY <1>2, CloseKeeps
<1>3. ASSUME NEW c \in Clients,
             Dispatch(c) \/ BrokerAnswers(c) \/ BrokerReadsOn(c) \/ ChannelDies(c)
      PROVE  ChannelInv'
  BY <1>3, DispatchStep, BrokerStep, ReadingStep, DeathStep
<1>4. CASE UNCHANGED vars
  BY <1>4 DEF ChannelInv, vars, Types, Belongs, Clients, Sent, Message
<1> QED
  BY <1>1, <1>2, <1>3, <1>4 DEF Next, Resting

\* The numbers of every channel, the states of every Send and the connections
\* fit together, whatever fails and whoever is faster.
THEOREM ChannelInvariance == Spec => []ChannelInv
<1>1. ChannelInv /\ UNCHANGED vars => ChannelInv'
  BY NextKeeps
<1> QED
  BY InitChannel, NextKeeps, PTL DEF Spec

\* Delivery tags and publish numbers stay in step: the confirm of the broker
\* reaches the Send whose message it is about.
THEOREM TagsCorrect == Spec => []TagsInStep
<1>1. ChannelInv => TagsInStep
  <2> SUFFICES ASSUME ChannelInv PROVE TagsInStep
    OBVIOUS
  <2>1. ASSUME NEW c \in Clients
        PROVE  /\ clients[c].seq \in Nat
               /\ clients[c].returned \subseteq {w.tag : w \in clients[c].waiters}
               /\ clients[c].got <= clients[c].seq
               /\ clients[c].open =>
                    /\ clients[c].seq = clients[c].got + Len(clients[c].wire)
                    /\ \A i \in 1 .. Len(clients[c].wire) :
                         clients[c].wire[i].id = clients[c].got + i
    <3>1. Numbered(clients[c]) /\ clients[c] \in ClientRecord
      BY ClientTypes DEF ChannelInv
    <3>2. clients[c].got + Len(clients[c].wire) <= clients[c].seq
          /\ clients[c].got \in Nat /\ clients[c].seq \in Nat /\ Len(clients[c].wire) \in Nat
      BY <3>1 DEF Numbered, ClientRecord
    <3>3. clients[c].got <= clients[c].seq
      BY <3>2
    <3> QED
      BY <3>1, <3>2, <3>3 DEF Numbered, Waiting
  <2>2. ASSUME NEW s \in Senders
        PROVE  /\ senders[s] \in SenderRecord
               /\ senders[s].cli \in 0 .. Len(clients)
    <3>1. senders[s] \in SenderRecord /\ senders[s].cli \in Nat /\ CallOK(senders[s], Len(clients))
      BY SenderTypes DEF ChannelInv
    <3> QED
      BY <3>1 DEF CallOK, ChannelInv, Types
  <2>3. stored \subseteq Message
    BY DEF ChannelInv, Types, Sent
  <2>4. TypeOK
    BY <2>1, <2>2, <2>3 DEF TypeOK, ChannelInv, Types, SenderRecord
  <2> QED
    BY <2>1, <2>4 DEF TagsInStep
<1> QED
  BY <1>1, ChannelInvariance, PTL

\* At most one connection is open, the one in use, however many goroutines
\* notice a failure, and none after Close.
THEOREM OneConnectionCorrect == Spec => []OneConnection
<1>1. ChannelInv => OneConnection
  BY DEF ChannelInv, Belongs, OneConnection
<1> QED
  BY <1>1, ChannelInvariance, PTL

-----------------------------------------------------------------------------
(* What Send reports.                                                      *)

\* What is known of a publish stays true while its message gets nowhere it was
\* not, and its own tag is not answered.
LEMMA AwaitedKept ==
  ASSUME NEW t \in Senders, NEW c \in Clients, NEW tag \in Nat, AwaitedOK(t, c, tag),
         senders'[t].sends = senders[t].sends, senders'[t].attempt = senders[t].attempt,
         Own(t) \in stored => Own(t) \in stored',
         Own(t) \notin Known => Own(t) \notin Known',
         \A conf \in Elements(clients'[c].confirms) :
           conf.tag = tag => conf \in Elements(clients[c].confirms),
         tag \in CameBack(clients'[c]) <=> tag \in CameBack(clients[c]),
         clients'[c].open /\ tag > clients'[c].got =>
           /\ clients[c].open /\ tag > clients[c].got
           /\ [id |-> tag, msg |-> Own(t)] \in Elements(clients[c].wire)
                => [id |-> tag, msg |-> Own(t)] \in Elements(clients'[c].wire)
           /\ senders[t].attempt = 1 /\ Own(t) \in stored' =>
                \/ Own(t) \in stored
                \/ \E d \in Clients \ {c} : \E m \in Elements(clients[d].wire) : m.msg = Own(t),
         \A d \in Clients' : \A m \in Elements(clients'[d].wire) :
           m.msg = Own(t) => d \in Clients /\ m \in Elements(clients[d].wire)
  PROVE  AwaitedOK(t, c, tag)'
<1>1. Own(t)' = Own(t)
  BY DEF Own
<1>2. clients'[c].open /\ tag > clients'[c].got =>
        [id |-> tag, msg |-> Own(t)] \in Elements(clients'[c].wire)
  BY DEF AwaitedOK
<1>3. \A conf \in Elements(clients'[c].confirms) :
        conf.tag = tag /\ conf.ack
          => Own(t) \in stored' \/ tag \in CameBack(clients'[c])
  BY DEF AwaitedOK
<1>4. senders[t].attempt = 1 /\ tag \in CameBack(clients'[c]) => Own(t) \notin Known'
  BY DEF AwaitedOK
<1>5. senders[t].attempt = 1 /\ clients'[c].open /\ tag > clients'[c].got =>
        /\ Own(t) \notin stored'
        /\ \A d \in Clients' : \A m \in Elements(clients'[d].wire) :
             m.msg = Own(t) => d = c /\ m.id = tag
  BY DEF AwaitedOK
<1> QED
  BY <1>1, <1>2, <1>3, <1>4, <1>5 DEF AwaitedOK

\* A Send whose call goes on as it was.
LEMMA ReportKept ==
  ASSUME ReportInv, NEW t \in Senders,
         senders'[t].pc = senders[t].pc, senders'[t].sends = senders[t].sends,
         senders'[t].calls = senders[t].calls, senders'[t].attempt = senders[t].attempt,
         senders'[t].result = senders[t].result,
         Own(t) \in stored => Own(t) \in stored',
         Own(t) \notin Known => Own(t) \notin Known',
         senders[t].pc = "await" =>
           /\ \/ senders'[t].answer = senders[t].answer
              \/ /\ senders'[t].answer = "ok" => Own(t) \in stored'
                 /\ senders'[t].answer = "unroutable" /\ senders[t].attempt = 1
                      => Own(t) \notin Known'
           /\ \A c \in Clients' : \A w \in clients'[c].waiters :
                w.sender = t /\ w.call = senders[t].calls => AwaitedOK(t, c, w.tag)'
  PROVE  ReportOK(t)'
<1>1. Own(t)' = Own(t) /\ ReportOK(t)
  BY DEF Own, ReportInv
<1>2. /\ senders'[t].result = "ok" => Own(t) \in stored'
      /\ senders'[t].result = "unroutable" => Own(t) \notin Known'
      /\ senders'[t].attempt = 1 /\ senders'[t].pc \in {"current", "check", "publish"}
           => Own(t) \notin Known'
  BY <1>1 DEF ReportOK
<1>3. senders[t].pc = "await" =>
        /\ senders'[t].answer = "ok" => Own(t) \in stored'
        /\ senders'[t].attempt = 1 /\ senders'[t].answer = "unroutable"
             => Own(t) \notin Known'
  BY <1>1 DEF ReportOK
<1> QED
  BY <1>1, <1>2, <1>3 DEF ReportOK

\* What can reach a queue comes from where it could reach one before.
LEMMA KnownShrinks ==
  ASSUME stored' \subseteq Known,
         \A d \in Clients' : \A m \in Elements(clients'[d].wire) : m.msg \in Known
  PROVE  Known' \subseteq Known
  BY DEF Known

LEMMA KnownHas ==
  /\ stored \subseteq Known
  /\ \A d \in Clients : \A m \in Elements(clients[d].wire) : m.msg \in Known
  BY DEF Known

\* The tags of publishes that are awaited are numbers.
LEMMA TagTypes ==
  ASSUME ChannelInv, NEW c \in Clients
  PROVE  \A w \in clients[c].waiters : w.tag \in Nat /\ w.call \in Nat /\ w.sender \in Senders
  BY ClientTypes DEF ChannelInv, Waiter

-----------------------------------------------------------------------------

\* Clients stay, or are closed, and others are dialed.
ClientsGoOn ==
  /\ Clients \subseteq Clients'
  /\ \A c \in Clients : clients'[c] \in {clients[c], Closed(clients[c])}
  /\ \A c \in Clients' \ Clients : clients'[c] = NewClient
  /\ UNCHANGED stored

LEMMA GoOnFacts ==
  ASSUME ChannelInv, ClientsGoOn
  PROVE  /\ Known' \subseteq Known
         /\ \A d \in Clients' : \A m \in Elements(clients'[d].wire) :
              d \in Clients /\ m \in Elements(clients[d].wire)
         /\ \A c \in Clients :
              /\ clients'[c].waiters = clients[c].waiters
              /\ clients'[c].confirms = clients[c].confirms
              /\ CameBack(clients'[c]) = CameBack(clients[c])
              /\ clients'[c].open => clients'[c] = clients[c]
         /\ \A c \in Clients' \ Clients : clients'[c].waiters = {}
<1>1. ASSUME NEW c \in Clients
      PROVE  /\ clients'[c].waiters = clients[c].waiters
             /\ clients'[c].confirms = clients[c].confirms
             /\ CameBack(clients'[c]) = CameBack(clients[c])
             /\ clients'[c].open => clients'[c] = clients[c]
             /\ Elements(clients'[c].wire) \subseteq Elements(clients[c].wire)
  <2>1. clients[c] \in ClientRecord /\ Numbered(clients[c])
    BY ClientTypes DEF ChannelInv
  <2> QED
    BY <2>1, ClosedOK DEF ClientsGoOn
<1>2. \A d \in Clients' : \A m \in Elements(clients'[d].wire) :
        d \in Clients /\ m \in Elements(clients[d].wire)
  BY <1>1, NewClientOK DEF ClientsGoOn
<1>3. Known' \subseteq Known
  BY <1>2, KnownHas, KnownShrinks DEF ClientsGoOn
<1>4. \A c \in Clients' \ Clients : clients'[c].waiters = {}
  BY NewClientOK DEF ClientsGoOn
<1> QED
  BY <1>1, <1>2, <1>3, <1>4

LEMMA GoOnKeeps ==
  ASSUME ReportInv, ClientsGoOn, NEW t \in Senders, senders'[t] = senders[t]
  PROVE  ReportOK(t)'
<1>1. ChannelInv /\ ReportOK(t) /\ UNCHANGED stored
  BY DEF ReportInv, ClientsGoOn
<1>2. ASSUME NEW c \in Clients', NEW w \in clients'[c].waiters, senders[t].pc = "await",
             w.sender = t, w.call = senders[t].calls
      PROVE  AwaitedOK(t, c, w.tag)'
  <2>1. c \in Clients /\ w \in clients[c].waiters
    BY <1>1, <1>2, GoOnFacts
  <2>2. w.tag \in Nat
    BY <1>1, <2>1, TagTypes
  <2>3. AwaitedOK(t, c, w.tag)
    BY <1>1, <1>2, <2>1 DEF ReportOK
  <2>4. /\ Known' \subseteq Known
        /\ \A d \in Clients' : \A m \in Elements(clients'[d].wire) :
             d \in Clients /\ m \in Elements(clients[d].wire)
        /\ clients'[c].confirms = clients[c].confirms
        /\ CameBack(clients'[c]) = CameBack(clients[c])
        /\ clients'[c].open => clients'[c] = clients[c]
    BY <1>1, <2>1, GoOnFacts
  <2> QED
    BY <1>1, <2>1, <2>2, <2>3, <2>4, AwaitedKept
<1>3. Known' \subseteq Known
  BY <1>1, GoOnFacts
<1> QED
  BY <1>1, <1>2, <1>3, ReportKept

\* What the caller of Send makes of its answer.
LEMMA ProceedsReport ==
  ASSUME ReportInv, ClientsGoOn, NEW s \in Senders, NEW r, Proceeds(s, r)
  PROVE  \A t \in Senders : ReportOK(t)'
<1>1. /\ senders'[s] = r /\ \A t \in Senders \ {s} : senders'[t] = senders[t]
      /\ ChannelInv /\ ReportOK(s) /\ UNCHANGED stored
  BY DEF Proceeds, ReportInv, ChannelInv, Types
<1>2. \A t \in Senders \ {s} : ReportOK(t)'
  BY <1>1, GoOnKeeps
<1>3. Own(s)' = Own(s) /\ Known' \subseteq Known
  BY <1>1, GoOnFacts DEF Own, Proceeds
<1>4. r.result = "ok" => Own(s) \in stored'
  BY <1>1 DEF Proceeds, ReportOK
<1>5. r.result = "unroutable" => Own(s) \notin Known'
  BY <1>1, <1>3 DEF Proceeds, ReportOK
<1>6. r.attempt = 1 /\ r.pc \in {"current", "check", "publish"} => Own(s) \notin Known'
  BY <1>1, <1>3 DEF Proceeds, ReportOK
<1>7. r.pc # "await"
  BY DEF Proceeds
<1>8. ReportOK(s)'
  BY <1>1, <1>3, <1>4, <1>5, <1>6, <1>7 DEF ReportOK
<1> QED
  BY <1>2, <1>8

LEMMA SendStepReports ==
  ASSUME ReportInv, NEW s \in Senders,
         SendStep(s) \/ AwaitCanceled(s), ~PublishWritten(s)
  PROVE  \A t \in Senders : ReportOK(t)'
<1>1. ChannelInv /\ Len(clients) \in Nat
  BY DEF ReportInv, ChannelInv, Types
<1>2. ASSUME NEW cs, ClientsOK(cs), Dialed(cs), UNCHANGED stored,
             \A c \in Clients : cs[c] \in {clients[c], Closed(clients[c])}
      PROVE  ClientsGoOn
  <2>1. cs \in Seq(ClientRecord) /\ Len(cs) = Len(clients) /\ clients' = Append(cs, NewClient)
    BY <1>2 DEF ClientsOK, Dialed
  <2>2. /\ Len(clients') = Len(clients) + 1 /\ clients'[Len(clients) + 1] = NewClient
        /\ \A c \in Clients : clients'[c] = cs[c]
    BY <1>1, <2>1, NewClientOK, AppendElements DEF Clients
  <2>3. Clients' = Clients \cup {Len(clients) + 1}
    BY <1>1, <2>2 DEF Clients
  <2> QED
    BY <1>2, <2>2, <2>3 DEF ClientsGoOn
<1>3. CASE UNCHANGED clients
  <2>1. PICK r : Proceeds(s, r) /\ UNCHANGED stored
    BY <1>1, <1>3, StaysShape
  <2>2. ClientsGoOn
    BY <1>3, <2>1 DEF ClientsGoOn, Clients
  <2> QED
    BY <2>1, <2>2, ProceedsReport
<1>4. CASE Current(s) /\ clients' # clients
  <2>1. PICK r : Proceeds(s, r)
    BY <1>1, <1>4, CurrentDials
  <2>2. Dialed(clients) /\ UNCHANGED stored
    BY <1>1, <1>4, CurrentDials
  <2>3. ClientsGoOn
    BY <1>1, <1>2, <2>2, SameClientsOK
  <2> QED
    BY <2>1, <2>3, ProceedsReport
<1>5. CASE Reconnect(s) /\ ~NoDial(senders[s].cli)
  <2> DEFINE closing == [clients EXCEPT ![client] = Closed(clients[client])]
  <2>1. PICK r : Proceeds(s, r)
    BY <1>1, <1>5, ReconnectDials
  <2>2. /\ client \in Clients /\ UNCHANGED <<closed, stored>>
        /\ Dialed(closing) \/ (clients' = closing /\ client' = 0)
    BY <1>1, <1>5, ReconnectDials
  <2>3. /\ ClientsOK(closing)
        /\ \A c \in Clients : closing[c] \in {clients[c], Closed(clients[c])}
    BY <1>1, <2>2, ClosingOK
  <2> HIDE DEF closing
  <2>4. CASE Dialed(closing)
    BY <1>2, <2>1, <2>2, <2>3, <2>4, ProceedsReport
  <2>5. CASE clients' = closing
    <3>1. Clients' = Clients
      BY <2>3, <2>5 DEF ClientsOK, Clients
    <3>2. ClientsGoOn
      BY <2>2, <2>3, <2>5, <3>1 DEF ClientsGoOn
    <3> QED
      BY <2>1, <3>2, ProceedsReport
  <2> QED
    BY <2>2, <2>4, <2>5
<1>6. CASE Reconnect(s) /\ NoDial(senders[s].cli)
  BY <1>3, <1>6 DEF Reconnect
<1>7. CASE Check(s) \/ PublishNotWritten(s) \/ Await(s) \/ AwaitCanceled(s)
  BY <1>3, <1>7 DEF Check, PublishNotWritten, Await, AwaitCanceled
<1> QED
  BY <1>3, <1>4, <1>5, <1>6, <1>7 DEF SendStep

LEMMA CloseReports ==
  ASSUME ReportInv, Close
  PROVE  \A t \in Senders : ReportOK(t)'
<1>1. /\ ChannelInv /\ UNCHANGED <<senders, stored>>
      /\ clients' = IF client = 0 THEN clients
                    ELSE [clients EXCEPT ![client] = Closed(clients[client])]
  BY DEF Close, ReportInv
<1>2. ClientsGoOn
  <2>1. CASE client = 0
    BY <1>1, <2>1 DEF ClientsGoOn, Clients
  <2>2. CASE client # 0
    <3>1. client \in Clients
      BY <1>1, <2>2 DEF ChannelInv, Types, Clients
    <3>2. /\ ClientsOK(clients')
          /\ \A c \in Clients : clients'[c] \in {clients[c], Closed(clients[c])}
      BY <1>1, <2>2, <3>1, ClosingOK
    <3>3. Clients' = Clients
      BY <3>2 DEF ClientsOK, Clients
    <3> QED
      BY <1>1, <3>2, <3>3 DEF ClientsGoOn
  <2> QED
    BY <2>1, <2>2
<1> QED
  BY <1>1, <1>2, GoOnKeeps

\* A message that was not handed over yet is nowhere.
LEMMA KnownIsSent ==
  ASSUME ChannelInv
  PROVE  Known \subseteq Sent
  BY DEF Known, ChannelInv, Types, Belongs

LEMMA SendReports ==
  ASSUME ReportInv, NEW s \in Senders, Send(s)
  PROVE  \A t \in Senders : ReportOK(t)'
<1>1. /\ senders' = [senders EXCEPT ![s].pc = "current", ![s].sends = @ + 1,
                                    ![s].attempt = 1, ![s].result = "none"]
      /\ UNCHANGED <<clients, client, closed, stored>>
      /\ ChannelInv /\ senders \in [Senders -> SenderRecord] /\ senders[s] \in SenderRecord
      /\ senders[s].sends \in Nat
  BY SenderTypes DEF Send, ReportInv, ChannelInv, Types
<1>2. ClientsGoOn
  BY <1>1 DEF ClientsGoOn, Clients
<1>3. \A t \in Senders \ {s} : ReportOK(t)'
  BY <1>1, <1>2, GoOnKeeps
<1>4. /\ senders'[s].pc = "current" /\ senders'[s].sends = senders[s].sends + 1
      /\ senders'[s].result = "none"
  BY <1>1 DEF SenderRecord
<1>5. Known' \subseteq Known
  BY <1>1, <1>2, GoOnFacts
<1>6. Own(s)' = <<s, senders[s].sends + 1>>
  BY <1>4 DEF Own
<1>7. <<s, senders[s].sends + 1>> \notin Sent
  BY <1>1 DEF Sent
<1>8. Own(s)' \notin Known'
  BY <1>1, <1>5, <1>6, <1>7, KnownIsSent
<1>9. ReportOK(s)'
  BY <1>4, <1>8 DEF ReportOK
<1> QED
  BY <1>3, <1>9

LEMMA PublishReports ==
  ASSUME ReportInv, NEW s \in Senders, PublishWritten(s)
  PROVE  \A t \in Senders : ReportOK(t)'
<1>0. PICK c \in Clients : c = senders[s].cli
  BY PublishShape DEF ReportInv
<1>10. PICK tag \in Nat : tag = clients[c].seq + 1
  BY ClientTypes DEF ReportInv, ChannelInv
<1> DEFINE call == senders[s].calls + 1
           r == [senders[s] EXCEPT !.pc = "await", !.calls = @ + 1, !.answer = "none"]
           cs == AfterPublish(clients[c], s, call, Own(s))
           w0 == [tag |-> tag, sender |-> s, call |-> call]
           m0 == [id |-> tag, msg |-> Own(s)]
<1>1. /\ clients[c].open /\ UNCHANGED <<client, closed, stored>>
      /\ Own(s) \in Message /\ call \in Nat
      /\ clients' = [clients EXCEPT ![c] = cs]
      /\ senders' = [senders EXCEPT ![s] = r] /\ r \in SenderRecord
      /\ r.sends = senders[s].sends /\ r.calls = call /\ r.pc = "await"
      /\ r.answer = "none" /\ r.attempt = senders[s].attempt
      /\ r.result = senders[s].result
      /\ senders[s].pc = "publish" /\ senders[s].result = "none"
  BY <1>0, PublishShape DEF ReportInv
<1>2. /\ clients[c] \in ClientRecord /\ Numbered(clients[c]) /\ Types /\ ChannelInv
      /\ clients[c].seq \in Nat /\ clients[c].got \in Nat /\ clients[c].got <= clients[c].seq
  <2>1. clients[c] \in ClientRecord /\ Numbered(clients[c]) /\ Types /\ ChannelInv
    BY ClientTypes DEF ReportInv, ChannelInv
  <2> QED
    BY <2>1, SMTT(30) DEF Numbered, ClientRecord
<1>3. /\ cs \in ClientRecord /\ cs.open /\ cs.got = clients[c].got
      /\ cs.confirms = clients[c].confirms /\ CameBack(cs) = CameBack(clients[c])
      /\ cs.waiters = clients[c].waiters \cup {w0}
      /\ Elements(cs.wire) = Elements(clients[c].wire) \cup {m0}
  <2> HIDE DEF call
  <2>1. /\ w0 = [tag |-> clients[c].seq + 1, sender |-> s, call |-> call]
        /\ m0 = [id |-> clients[c].seq + 1, msg |-> Own(s)]
    BY <1>10
  <2> HIDE DEF w0, m0, r
  <2> QED
    BY <1>1, <1>2, <2>1, AfterPublishOK, SMTT(30)
<1>4. w0.tag = tag /\ w0.sender = s /\ m0.id = tag /\ m0.msg = Own(s) /\ w0.call = call
  OBVIOUS
<1> HIDE DEF cs, r, m0, w0
<1>5. Clients' = Clients /\ clients'[c] = cs
      /\ \A d \in Clients \ {c} : clients'[d] = clients[d]
  BY <1>1, <1>2, <1>3, ReplaceClient
<1>6. /\ senders'[s] = r
      /\ \A t \in Senders \ {s} : senders'[t] = senders[t]
  BY <1>1, <1>2 DEF Types
<1>7. \A x : x \in Known' => x \in Known \/ x = Own(s)
  BY <1>1, <1>3, <1>4, <1>5 DEF Known
<1>8. ASSUME NEW t \in Senders, t # s
      PROVE  ReportOK(t)'
  <2>1. Own(t) # Own(s) /\ senders'[t] = senders[t]
    BY <1>6, <1>8 DEF Own
  <2>2. ASSUME NEW d \in Clients', NEW w \in clients'[d].waiters, senders[t].pc = "await",
               w.sender = t, w.call = senders[t].calls
        PROVE  AwaitedOK(t, d, w.tag)'
    <3>1. d \in Clients /\ w \in clients[d].waiters
      BY <1>3, <1>4, <1>5, <1>8, <2>2
    <3>2. w.tag \in Nat
      BY <1>2, <3>1, TagTypes
    <3>3. AwaitedOK(t, d, w.tag)
      BY <2>2, <3>1 DEF ReportOK, ReportInv
    <3>4. \A e \in Clients' : \A m \in Elements(clients'[e].wire) :
            m.msg = Own(t) => e \in Clients /\ m \in Elements(clients[e].wire)
      BY <1>3, <1>4, <1>5, <2>1
    <3>5. /\ (clients'[d].open <=> clients[d].open) /\ clients'[d].got = clients[d].got
          /\ clients'[d].confirms = clients[d].confirms
          /\ CameBack(clients'[d]) = CameBack(clients[d])
          /\ Elements(clients[d].wire) \subseteq Elements(clients'[d].wire)
      BY <1>1, <1>3, <1>5, <3>1
    <3>6. Own(t) \notin Known => Own(t) \notin Known'
      BY <1>7, <2>1
    <3> QED
      BY <1>1, <2>1, <3>1, <3>2, <3>3, <3>4, <3>5, <3>6, AwaitedKept
  <2>3. Own(t) \notin Known => Own(t) \notin Known'
    BY <1>7, <2>1
  <2> QED
    BY <1>1, <2>1, <2>2, <2>3, ReportKept
<1>9. ReportOK(s)'
  <2>1. Own(s)' = Own(s)
    BY <1>1, <1>6 DEF Own
  <2>2. ASSUME NEW d \in Clients', NEW w \in clients'[d].waiters,
               w.sender = s, w.call = senders'[s].calls
        PROVE  d = c /\ w = w0
    <3>1. ASSUME w \in clients[d].waiters PROVE FALSE
      <4>1. d \in Clients
        BY <1>5
      <4>2. w.call <= senders[s].calls /\ w.call \in Nat /\ senders[s].calls \in Nat
        BY <1>2, <2>2, <3>1, <4>1, TagTypes, SenderTypes DEF ChannelInv, Belongs
      <4>3. w.call = senders[s].calls + 1
        BY <1>1, <1>6, <2>2
      <4> QED
        BY <4>2, <4>3
    <3> QED
      BY <1>3, <1>5, <3>1
  <2>3. AwaitedOK(s, c, tag)'
    <3>1. m0 \in Elements(clients'[c].wire) /\ m0 = [id |-> tag, msg |-> Own(s)]
      BY <1>3, <1>5 DEF m0
    <3>2. tag > clients[c].got /\ ~(tag <= clients[c].got)
      BY <1>10, <1>2
    <3>3. \A conf \in Elements(clients'[c].confirms) : conf.tag # tag
      BY <1>2, <1>3, <1>5, <3>2 DEF Numbered
    <3>4. tag \notin CameBack(clients'[c])
      BY <1>2, <1>3, <1>5, <3>2 DEF Numbered, CameBack
    <3>5. ASSUME senders[s].attempt = 1
          PROVE  /\ Own(s) \notin stored'
                 /\ \A d \in Clients' : \A m \in Elements(clients'[d].wire) :
                      m.msg = Own(s) => d = c /\ m.id = tag
      <4>1. Own(s) \notin Known
        BY <1>1, <3>5 DEF ReportInv, ReportOK
      <4> QED
        BY <1>1, <1>3, <1>4, <1>5, <4>1 DEF Known
    <3>6. /\ Own(s)' = Own(s) /\ senders'[s].attempt = senders[s].attempt
      BY <1>1, <1>6, <2>1
    <3> QED
      BY <3>1, <3>3, <3>4, <3>5, <3>6 DEF AwaitedOK
  <2>4. /\ senders'[s].pc = "await" /\ senders'[s].answer = "none"
        /\ senders'[s].result = "none"
    BY <1>1, <1>6
  <2> HIDE DEF call
  <2> QED
    BY <1>4, <2>2, <2>3, <2>4 DEF ReportOK
<1> QED
  BY <1>8, <1>9

\* Whom an answer reaches.
LEMMA AnswerReaches ==
  ASSUME Types, NEW ws, NEW answer, senders' = Answer(ws, answer), NEW t \in Senders
  PROVE  \/ senders'[t].answer = senders[t].answer
         \/ /\ senders'[t].answer = answer
            /\ \E w \in ws : w.sender = t /\ w.call = senders[t].calls
<1>1. senders[t] \in SenderRecord
  BY DEF Types
<1> QED
  BY <1>1 DEF Answer, SenderRecord

\* A step of client c that puts nothing on a wire.
LEMMA ClientReports ==
  ASSUME ReportInv, NEW c \in Clients, NEW r \in ClientRecord,
         clients' = [clients EXCEPT ![c] = r], OnlyAnswers,
         Elements(r.wire) \subseteq Elements(clients[c].wire),
         r.waiters \subseteq clients[c].waiters,
         stored \subseteq stored',
         \A x \in stored' \ stored : \E m \in Elements(clients[c].wire) : x = m.msg,
         NEW t \in Senders,
         senders[t].pc = "await" =>
           /\ \/ senders'[t].answer = senders[t].answer
              \/ /\ senders'[t].answer = "ok" => Own(t) \in stored
                 /\ senders'[t].answer = "unroutable" /\ senders[t].attempt = 1
                      => Own(t) \notin Known
           /\ \A w \in r.waiters :
                w.sender = t /\ w.call = senders[t].calls => AwaitedOK(t, c, w.tag)'
  PROVE  ReportOK(t)'
<1>1. ChannelInv /\ Types /\ ReportOK(t)
  BY DEF ReportInv, ChannelInv
<1>2. /\ Clients' = Clients /\ clients'[c] = r
      /\ \A d \in Clients \ {c} : clients'[d] = clients[d]
  BY <1>1, ReplaceClient
<1>3. \A d \in Clients' : \A m \in Elements(clients'[d].wire) :
        d \in Clients /\ m \in Elements(clients[d].wire)
  BY <1>2
<1>4. Known' \subseteq Known
  BY <1>3, KnownHas, KnownShrinks
<1>5. ASSUME NEW d \in Clients', NEW w \in clients'[d].waiters, senders[t].pc = "await",
             w.sender = t, w.call = senders[t].calls
      PROVE  AwaitedOK(t, d, w.tag)'
  <2>1. CASE d = c
    BY <1>2, <1>5, <2>1
  <2>2. CASE d # c
    <3>1. d \in Clients /\ w \in clients[d].waiters /\ clients'[d] = clients[d]
      BY <1>2, <2>2
    <3>2. w.tag \in Nat
      BY <1>1, <3>1, TagTypes
    <3>3. AwaitedOK(t, d, w.tag)
      BY <1>1, <1>5, <3>1 DEF ReportOK
    <3>4. Own(t) \in stored' =>
            \/ Own(t) \in stored
            \/ \E e \in Clients \ {d} : \E m \in Elements(clients[e].wire) : m.msg = Own(t)
      BY <2>2
    <3> QED
      BY <1>3, <1>4, <3>1, <3>2, <3>3, <3>4, AwaitedKept DEF OnlyAnswers
  <2> QED
    BY <2>1, <2>2
<1>6. senders[t].pc = "await" =>
        \/ senders'[t].answer = senders[t].answer
        \/ /\ senders'[t].answer = "ok" => Own(t) \in stored'
           /\ senders'[t].answer = "unroutable" /\ senders[t].attempt = 1
                => Own(t) \notin Known'
  BY <1>4
<1>7. /\ senders'[t].pc = senders[t].pc /\ senders'[t].sends = senders[t].sends
      /\ senders'[t].calls = senders[t].calls /\ senders'[t].attempt = senders[t].attempt
      /\ senders'[t].result = senders[t].result
      /\ Own(t) \in stored => Own(t) \in stored'
  BY DEF OnlyAnswers
<1> QED
  BY <1>4, <1>5, <1>6, <1>7, ReportKept

\* The publishes that wait on a client which neither answers them nor takes
\* their messages off the wire.
LEMMA WaitersKept ==
  ASSUME ReportInv, NEW c \in Clients, NEW r \in ClientRecord,
         clients' = [clients EXCEPT ![c] = r], OnlyAnswers,
         Elements(r.wire) \subseteq Elements(clients[c].wire),
         Elements(r.confirms) \subseteq Elements(clients[c].confirms),
         stored \subseteq stored', Known' \subseteq Known,
         r.open => /\ clients[c].open /\ r.got = clients[c].got
                   /\ r.wire = clients[c].wire /\ stored' = stored,
         NEW t \in Senders, senders[t].pc = "await",
         NEW w \in clients[c].waiters, w.sender = t, w.call = senders[t].calls,
         w.tag \in CameBack(r) <=> w.tag \in CameBack(clients[c])
  PROVE  AwaitedOK(t, c, w.tag)'
<1>1. ChannelInv /\ Types /\ AwaitedOK(t, c, w.tag)
  BY DEF ReportInv, ChannelInv, ReportOK
<1>2. /\ Clients' = Clients /\ clients'[c] = r
      /\ \A d \in Clients \ {c} : clients'[d] = clients[d]
  BY <1>1, ReplaceClient
<1>3. \A d \in Clients' : \A m \in Elements(clients'[d].wire) :
        d \in Clients /\ m \in Elements(clients[d].wire)
  BY <1>2
<1>4. w.tag \in Nat
  BY <1>1, TagTypes
<1> QED
  BY <1>1, <1>2, <1>3, <1>4, AwaitedKept DEF OnlyAnswers

\* The step of one client leaves no message where none was.
LEMMA ClientKnown ==
  ASSUME ReportInv, NEW c \in Clients, NEW r \in ClientRecord,
         clients' = [clients EXCEPT ![c] = r],
         Elements(r.wire) \subseteq Elements(clients[c].wire), stored' \subseteq Known
  PROVE  Known' \subseteq Known
<1>1. /\ Clients' = Clients /\ clients'[c] = r
      /\ \A d \in Clients \ {c} : clients'[d] = clients[d]
  BY ReplaceClient DEF ReportInv, ChannelInv
<1>2. \A d \in Clients' : \A m \in Elements(clients'[d].wire) : m.msg \in Known
  BY <1>1, KnownHas
<1> QED
  BY <1>2, KnownShrinks

LEMMA DispatchReports ==
  ASSUME ReportInv, NEW c \in Clients, Dispatch(c), NEW t \in Senders
  PROVE  ReportOK(t)'
<1> DEFINE cs == clients[c]
<1>1. /\ ChannelInv /\ Types /\ Numbered(cs) /\ cs \in ClientRecord /\ ReportOK(t)
      /\ stored \subseteq Known
  BY ClientTypes, KnownHas DEF ReportInv, ChannelInv
<1>2. UNCHANGED <<client, closed, stored>>
  BY <1>1, DispatchShape
<1>3. CASE /\ cs.returns # << >>
           /\ clients' = [clients EXCEPT ![c] = AfterReturn(cs)]
           /\ UNCHANGED senders
  <2> DEFINE r == AfterReturn(cs)
  <2>1. /\ r \in ClientRecord /\ r.wire = cs.wire /\ r.waiters = cs.waiters
        /\ \A w \in cs.waiters : w.tag \in CameBack(r) <=> w.tag \in CameBack(cs)
        /\ r.open <=> cs.open
        /\ r.got = cs.got /\ r.confirms = cs.confirms
    BY <1>1, <1>3, AfterReturnOK
  <2>2. OnlyAnswers
    BY <1>1, <1>3, SameSenders
  <2> HIDE DEF r
  <2>3. clients' = [clients EXCEPT ![c] = r]
    BY <1>3 DEF r
  <2>4. Known' \subseteq Known
    BY <1>1, <1>2, <2>1, <2>3, ClientKnown
  <2>5. \A w \in r.waiters : senders[t].pc = "await" /\ w.sender = t
          /\ w.call = senders[t].calls => AwaitedOK(t, c, w.tag)'
    BY <1>2, <2>1, <2>2, <2>3, <2>4, WaitersKept
  <2> QED
    BY <1>2, <1>3, <2>1, <2>2, <2>3, <2>5, ClientReports
<1>4. CASE /\ cs.confirms # << >>
           /\ clients' = [clients EXCEPT ![c] = AfterConfirm(cs)]
           /\ senders' = Answer({w \in cs.waiters : w.tag = Head(cs.confirms).tag},
                                IF Head(cs.confirms).tag \in drainReturns(cs)
                                THEN "unroutable"
                                ELSE IF Head(cs.confirms).ack THEN "ok" ELSE "rejected")
  <2> DEFINE r == AfterConfirm(cs)
             conf == Head(cs.confirms)
             answer == IF conf.tag \in drainReturns(cs) THEN "unroutable"
                       ELSE IF conf.ack THEN "ok" ELSE "rejected"
  <2>1. /\ r \in ClientRecord /\ r.wire = cs.wire /\ r.waiters \subseteq cs.waiters
        /\ \A w \in r.waiters : w.tag \in CameBack(r) <=> w.tag \in CameBack(cs)
        /\ r.open <=> cs.open
        /\ r.got = cs.got /\ Elements(r.confirms) \subseteq Elements(cs.confirms)
    BY <1>1, <1>4, AfterConfirmOK
  <2>2. OnlyAnswers
    BY <1>1, <1>4, AnswersOnly, VerdictTypes
  <2> HIDE DEF r
  <2>3. clients' = [clients EXCEPT ![c] = r]
    BY <1>4 DEF r
  <2>4. Known' \subseteq Known
    BY <1>1, <1>2, <2>1, <2>3, ClientKnown
  <2>5. \A w \in r.waiters : senders[t].pc = "await" /\ w.sender = t
          /\ w.call = senders[t].calls => AwaitedOK(t, c, w.tag)'
    BY <1>2, <2>1, <2>2, <2>3, <2>4, WaitersKept
  <2>6. senders[t].pc = "await" =>
          \/ senders'[t].answer = senders[t].answer
          \/ /\ senders'[t].answer = "ok" => Own(t) \in stored
             /\ senders'[t].answer = "unroutable" /\ senders[t].attempt = 1
                  => Own(t) \notin Known
    <3> SUFFICES ASSUME senders[t].pc = "await", senders'[t].answer # senders[t].answer
                 PROVE  /\ senders'[t].answer = "ok" => Own(t) \in stored
                        /\ senders'[t].answer = "unroutable" /\ senders[t].attempt = 1
                             => Own(t) \notin Known
      OBVIOUS
    <3>1. senders' = Answer({w \in cs.waiters : w.tag = conf.tag}, answer)
      BY <1>4
    <3> HIDE DEF answer
    <3>2. senders'[t].answer = answer
      BY <1>1, <3>1, AnswerReaches
    <3>3. PICK w \in cs.waiters : /\ w.tag = conf.tag /\ w.sender = t
                                  /\ w.call = senders[t].calls
      BY <1>1, <3>1, AnswerReaches
    <3>4. AwaitedOK(t, c, conf.tag)
      BY <1>1, <3>3 DEF ReportOK
    <3>5. conf \in Elements(cs.confirms)
      BY <1>1, <1>4, ElementsTyped DEF ClientRecord
    <3>6. conf.tag \in drainReturns(cs) <=> conf.tag \in CameBack(cs)
      BY <3>3 DEF drainReturns, MarkReturned, CameBack, Waiting
    <3>7. conf.tag \in CameBack(cs) /\ senders[t].attempt = 1 => Own(t) \notin Known
      BY <3>4 DEF AwaitedOK
    <3>8. conf.ack /\ conf.tag \notin CameBack(cs) => Own(t) \in stored
      BY <3>4, <3>5 DEF AwaitedOK
    <3> HIDE DEF conf
    <3> QED
      BY <3>2, <3>6, <3>7, <3>8 DEF answer
  <2> HIDE DEF conf, answer
  <2> QED
    BY <1>2, <2>1, <2>2, <2>3, <2>5, <2>6, ClientReports
<1>5. CASE /\ ~cs.open
           /\ clients' = [clients EXCEPT ![c] = AfterClosed(cs)]
           /\ senders' = Answer(cs.waiters, "stopped")
  <2> DEFINE r == AfterClosed(cs)
  <2>1. r \in ClientRecord /\ r.wire = cs.wire /\ r.waiters = {}
    BY <1>1, <1>5, AfterClosedOK
  <2>2. OnlyAnswers
    BY <1>1, <1>5, AnswersOnly
  <2> HIDE DEF r
  <2>3. clients' = [clients EXCEPT ![c] = r]
    BY <1>5 DEF r
  <2>4. senders'[t].answer = senders[t].answer \/ senders'[t].answer = "stopped"
    BY <1>1, <1>5, AnswerReaches
  <2> QED
    BY <1>2, <2>1, <2>2, <2>3, <2>4, ClientReports
<1> QED
  BY <1>1, <1>3, <1>4, <1>5, DispatchShape

LEMMA DeathReports ==
  ASSUME ReportInv, NEW c \in Clients, ChannelDies(c), NEW t \in Senders
  PROVE  ReportOK(t)'
<1> DEFINE cs == clients[c]
<1>1. /\ ChannelInv /\ Types /\ Numbered(cs) /\ cs \in ClientRecord
      /\ stored \subseteq Known /\ \A m \in Elements(cs.wire) : m.msg \in Known
  BY ClientTypes, KnownHas DEF ReportInv, ChannelInv
<1>2. /\ UNCHANGED <<client, closed, senders>> /\ stored \subseteq stored'
      /\ \A x \in stored' \ stored : \E m \in Elements(cs.wire) : x = m.msg
  BY <1>1, DeathShape
<1>3. PICK connected \in BOOLEAN :
        clients' = [clients EXCEPT ![c] = AfterDeath(cs, connected)]
  BY <1>1, DeathShape
<1> DEFINE r == AfterDeath(cs, connected)
<1>4. /\ r \in ClientRecord /\ r.wire = << >> /\ r.waiters = cs.waiters
      /\ r.open = FALSE /\ r.confirms = cs.confirms /\ CameBack(r) = CameBack(cs)
  BY <1>1, AfterDeathOK
<1>5. OnlyAnswers
  BY <1>1, <1>2, SameSenders
<1> HIDE DEF r
<1>6. Elements(r.wire) \subseteq Elements(cs.wire) /\ clients' = [clients EXCEPT ![c] = r]
  BY <1>3, <1>4, EmptyElements DEF r
<1>7. Known' \subseteq Known
  <2>1. stored' \subseteq Known
    BY <1>1, <1>2
  <2> QED
    BY <1>4, <1>6, <2>1, ClientKnown
<1>8. \A w \in r.waiters : senders[t].pc = "await" /\ w.sender = t
        /\ w.call = senders[t].calls => AwaitedOK(t, c, w.tag)'
  BY <1>2, <1>4, <1>5, <1>6, <1>7, WaitersKept
<1> QED
  BY <1>2, <1>4, <1>5, <1>6, <1>8, ClientReports

\* What is read of a closed channel could reach a queue before.
LEMMA ReadingReports ==
  ASSUME ReportInv, NEW c \in Clients, BrokerReadsOn(c), NEW t \in Senders
  PROVE  ReportOK(t)'
<1> DEFINE cs == clients[c]
           r  == AfterReading(cs)
           m  == Head(cs.wire)
<1>1. /\ ChannelInv /\ Types
      /\ stored \subseteq Known /\ \A x \in Elements(cs.wire) : x.msg \in Known
  BY KnownHas DEF ReportInv, ChannelInv
<1>2. /\ UNCHANGED <<client, closed, senders>> /\ m \in Elements(cs.wire)
      /\ stored' \in {stored, stored \cup {m.msg}}
      /\ clients' = [clients EXCEPT ![c] = r] /\ r \in ClientRecord
      /\ Elements(r.wire) \subseteq Elements(cs.wire) /\ r.waiters = cs.waiters
      /\ r.open = FALSE /\ r.confirms = cs.confirms /\ CameBack(r) = CameBack(cs)
  BY <1>1, ReadingShape
<1> HIDE DEF r, m
<1>3. OnlyAnswers
  BY <1>1, <1>2, SameSenders
<1>4. /\ stored \subseteq stored' /\ stored' \subseteq Known
      /\ \A x \in stored' \ stored : \E k \in Elements(cs.wire) : x = k.msg
  BY <1>1, <1>2
<1>5. Known' \subseteq Known
  BY <1>2, <1>4, ClientKnown
<1>6. \A w \in r.waiters : senders[t].pc = "await" /\ w.sender = t
        /\ w.call = senders[t].calls => AwaitedOK(t, c, w.tag)'
  BY <1>2, <1>3, <1>4, <1>5, WaitersKept
<1> QED
  BY <1>2, <1>3, <1>4, <1>6, ClientReports

\* The broker takes the message with the number after the last one it answered.
LEMMA HeadOfWire ==
  ASSUME NEW cs \in ClientRecord, Numbered(cs), cs.open, cs.wire # << >>
  PROVE  /\ Head(cs.wire) \in Elements(cs.wire) /\ Head(cs.wire).id = cs.got + 1
         /\ \A m \in Elements(cs.wire) : m.id = cs.got + 1 => m = Head(cs.wire)
         /\ \A m \in Elements(Tail(cs.wire)) : m.id # cs.got + 1
         /\ \A m \in Elements(cs.wire) :
              m.id # cs.got + 1 => m \in Elements(Tail(cs.wire))
<1>1. /\ cs.wire \in Seq(Publish) /\ cs.got \in Nat
      /\ \A i \in 1 .. Len(cs.wire) : cs.wire[i].id = cs.got + i
  BY DEF ClientRecord, Numbered
<1>2. /\ Head(cs.wire) \in Elements(cs.wire) /\ Head(cs.wire) = cs.wire[1]
      /\ Len(cs.wire) # 0 /\ Len(cs.wire) \in Nat
  BY <1>1, ElementsTyped
<1>3. Head(cs.wire).id = cs.got + 1
  BY <1>1, <1>2
<1>4. \A m \in Elements(cs.wire) : m.id = cs.got + 1 => m = Head(cs.wire)
  <2> SUFFICES ASSUME NEW m \in Elements(cs.wire), m.id = cs.got + 1
               PROVE  m = Head(cs.wire)
    OBVIOUS
  <2>1. PICK i \in 1 .. Len(cs.wire) : m = cs.wire[i]
    BY DEF Elements
  <2>2. cs.got + i = cs.got + 1
    BY <1>1, <2>1
  <2>3. \A a, b \in Nat : a + b = a + 1 => b = 1
    OBVIOUS
  <2>4. i \in Nat
    BY <1>2
  <2> QED
    BY <1>1, <1>2, <2>1, <2>2, <2>3, <2>4
<1>5. \A m \in Elements(Tail(cs.wire)) : m.id # cs.got + 1
  <2> SUFFICES ASSUME NEW m \in Elements(Tail(cs.wire)) PROVE m.id # cs.got + 1
    OBVIOUS
  <2>1. PICK i \in 1 .. Len(Tail(cs.wire)) : m = Tail(cs.wire)[i]
    BY DEF Elements
  <2>2. i + 1 \in 1 .. Len(cs.wire) /\ m = cs.wire[i + 1]
    BY <1>1, <2>1, TailElements
  <2>3. m.id = cs.got + (i + 1)
    BY <1>1, <2>2
  <2>4. \A a, b \in Nat : b # 0 => a + (b + 1) # a + 1
    OBVIOUS
  <2>5. i \in Nat /\ i # 0
    BY <1>2, <2>2
  <2> QED
    BY <1>1, <2>3, <2>4, <2>5
<1>6. Elements(cs.wire) = {Head(cs.wire)} \cup Elements(Tail(cs.wire))
  BY <1>1, TailElements
<1> QED
  BY <1>2, <1>3, <1>4, <1>5, <1>6

LEMMA BrokerReports ==
  ASSUME ReportInv, NEW c \in Clients, BrokerAnswers(c), NEW t \in Senders
  PROVE  ReportOK(t)'
<1> DEFINE cs == clients[c]
           m == Head(cs.wire)
<1>1. /\ ChannelInv /\ Types /\ Numbered(cs) /\ cs \in ClientRecord /\ ReportOK(t)
      /\ stored \subseteq Known /\ \A x \in Elements(cs.wire) : x.msg \in Known
      /\ cs.got \in Nat
  BY ClientTypes, KnownHas DEF ReportInv, ChannelInv
<1>2. cs.open /\ cs.wire # << >> /\ UNCHANGED <<client, closed, senders>>
  BY <1>1, BrokerShape
<1>3. PICK ack \in BOOLEAN, returns \in {<< >>, <<m.id>>} :
        /\ clients' = [clients EXCEPT ![c] = AfterAnswer(cs, ack, returns)]
        /\ \/ ack /\ returns = << >> /\ stored' = stored \cup {m.msg}
           \/ ~ack /\ stored' = stored
           \/ returns = <<m.id>> /\ stored' = stored
  BY <1>1, BrokerShape
<1>4. /\ m \in Elements(cs.wire) /\ m.id = cs.got + 1
      /\ \A x \in Elements(cs.wire) : x.id = cs.got + 1 => x = m
      /\ \A x \in Elements(Tail(cs.wire)) : x.id # cs.got + 1
      /\ \A x \in Elements(cs.wire) : x.id # cs.got + 1 => x \in Elements(Tail(cs.wire))
      /\ Elements(Tail(cs.wire)) \subseteq Elements(cs.wire)
  BY <1>1, <1>2, HeadOfWire, TailElements DEF ClientRecord
<1> DEFINE r == AfterAnswer(cs, ack, returns)
           conf == [tag |-> cs.got + 1, ack |-> ack]
<1>5. /\ r \in ClientRecord /\ r.waiters = cs.waiters /\ r.got = cs.got + 1
      /\ r.wire = Tail(cs.wire)
      /\ Elements(r.confirms) = Elements(cs.confirms) \cup {conf}
      /\ CameBack(r) = IF returns = << >> THEN CameBack(cs)
                       ELSE CameBack(cs) \cup {cs.got + 1}
  <2>1. returns \in {<< >>, <<Head(cs.wire).id>>}
    OBVIOUS
  <2> HIDE DEF cs
  <2> QED
    BY <1>1, <1>2, <2>1, AfterAnswerOK, ZenonT(60)
<1>6. conf.tag = cs.got + 1 /\ conf.ack = ack
  OBVIOUS
<1>7. OnlyAnswers
  BY <1>1, <1>2, SameSenders
<1>8. <<m.id>> # << >>
  OBVIOUS
<1> HIDE DEF r, conf, m
<1>9. /\ clients' = [clients EXCEPT ![c] = r]
      /\ Elements(r.wire) \subseteq Elements(cs.wire)
      /\ stored \subseteq stored' /\ stored' \subseteq stored \cup {m.msg}
  BY <1>3, <1>4, <1>5 DEF r
<1>10. Known' \subseteq Known
  <2>1. stored' \subseteq Known
    BY <1>1, <1>4, <1>9
  <2> QED
    BY <1>5, <1>9, <2>1, ClientKnown
<1>11. /\ Clients' = Clients /\ clients'[c] = r
       /\ \A d \in Clients \ {c} : clients'[d] = clients[d]
  BY <1>1, <1>5, <1>9, ReplaceClient
<1>12. \A d \in Clients' : \A x \in Elements(clients'[d].wire) :
         d \in Clients /\ x \in Elements(clients[d].wire)
  BY <1>9, <1>11
<1>13. ASSUME NEW w \in r.waiters, senders[t].pc = "await", w.sender = t,
              w.call = senders[t].calls
       PROVE  AwaitedOK(t, c, w.tag)'
  <2>1. w \in cs.waiters /\ w.tag \in Nat /\ AwaitedOK(t, c, w.tag)
    BY <1>1, <1>5, <1>13, TagTypes DEF ReportOK
  <2>2. CASE w.tag # cs.got + 1
    <3>1. \A k \in Elements(clients'[c].confirms) :
            k.tag = w.tag => k \in Elements(cs.confirms)
      BY <1>5, <1>6, <1>11, <2>2
    <3>2. w.tag \in CameBack(clients'[c]) <=> w.tag \in CameBack(cs)
      BY <1>5, <1>11, <2>2
    <3>3. clients'[c].open /\ w.tag > clients'[c].got => w.tag > cs.got
      BY <1>1, <1>5, <1>11, <2>1
    <3>4. [id |-> w.tag, msg |-> Own(t)] \in Elements(cs.wire)
            => [id |-> w.tag, msg |-> Own(t)] \in Elements(clients'[c].wire)
      BY <1>4, <1>5, <1>11, <2>2
    <3>5. w.tag > cs.got /\ senders[t].attempt = 1 /\ Own(t) \in stored'
            => Own(t) \in stored
      BY <1>2, <1>4, <1>9, <2>1, <2>2 DEF AwaitedOK
    <3> QED
      BY <1>2, <1>7, <1>9, <1>10, <1>12, <2>1, <3>1, <3>2, <3>3, <3>4, <3>5, AwaitedKept
      DEF OnlyAnswers
  <2>3. CASE w.tag = cs.got + 1
    <3>0. w.tag > cs.got /\ ~(w.tag > r.got) /\ Own(t)' = Own(t)
      BY <1>1, <1>2, <1>5, <2>3 DEF Own
    <3>1. [id |-> w.tag, msg |-> Own(t)] \in Elements(cs.wire)
      BY <1>2, <2>1, <3>0 DEF AwaitedOK
    <3>2. m.msg = Own(t)
      <4>1. [id |-> w.tag, msg |-> Own(t)] = m
        BY <1>4, <2>3, <3>1
      <4> QED
        BY <4>1
    <3>3. \A k \in Elements(clients'[c].confirms) :
            k.tag = w.tag /\ k.ack => Own(t) \in stored' \/ w.tag \in CameBack(clients'[c])
      <4> SUFFICES ASSUME NEW k \in Elements(clients'[c].confirms), k.tag = w.tag, k.ack
                   PROVE  Own(t) \in stored' \/ w.tag \in CameBack(clients'[c])
        OBVIOUS
      <4>1. CASE k \in Elements(cs.confirms)
        <5>1. Own(t) \in stored \/ w.tag \in CameBack(cs)
          BY <2>1, <4>1 DEF AwaitedOK
        <5>2. CameBack(cs) \subseteq CameBack(r)
          BY <1>5
        <5> QED
          BY <1>9, <1>11, <5>1, <5>2
      <4>2. CASE k = conf
        <5>1. ack
          BY <1>6, <4>2
        <5>2. CASE stored' = stored \cup {m.msg}
          BY <3>2, <5>2
        <5>3. CASE returns = <<m.id>>
          BY <1>5, <1>8, <1>11, <2>3, <5>3
        <5> QED
          BY <1>3, <5>1, <5>2, <5>3
      <4> QED
        BY <1>5, <1>11, <4>1, <4>2
    <3>4. ASSUME senders[t].attempt = 1, w.tag \in CameBack(clients'[c])
          PROVE  Own(t) \notin Known'
      <4>1. CASE w.tag \in CameBack(cs)
        BY <1>10, <2>1, <3>4, <4>1 DEF AwaitedOK
      <4>2. CASE w.tag \notin CameBack(cs)
        <5>1. returns # << >> /\ stored' = stored
          BY <1>3, <1>5, <1>11, <3>4, <4>2
        <5>2. /\ Own(t) \notin stored
              /\ \A d \in Clients : \A x \in Elements(clients[d].wire) :
                   x.msg = Own(t) => d = c /\ x.id = w.tag
          BY <1>2, <2>1, <3>0, <3>4 DEF AwaitedOK
        <5>3. \A d \in Clients' : \A x \in Elements(clients'[d].wire) : x.msg # Own(t)
          BY <1>4, <1>5, <1>11, <1>12, <2>3, <5>2
        <5> QED
          BY <5>1, <5>2, <5>3 DEF Known
      <4> QED
        BY <4>1, <4>2
    <3> QED
      BY <1>2, <1>5, <1>11, <3>0, <3>3, <3>4 DEF AwaitedOK
  <2> QED
    BY <2>2, <2>3
<1>14. \A x \in stored' \ stored : \E k \in Elements(cs.wire) : x = k.msg
  BY <1>4, <1>9
<1> QED
  BY <1>2, <1>5, <1>7, <1>9, <1>13, <1>14, ClientReports

-----------------------------------------------------------------------------

LEMMA InitReports == Init => ReportInv
<1> SUFFICES ASSUME Init, NEW s \in Senders PROVE ReportOK(s)
  BY InitChannel DEF ReportInv
<1>1. senders[s] = IdleSender
  BY DEF Init
<1> QED
  BY <1>1 DEF IdleSender, ReportOK

LEMMA NextReports == ReportInv /\ [Next]_vars => ReportInv'
<1> SUFFICES ASSUME ReportInv, [Next]_vars, NEW t \in Senders PROVE ReportOK(t)'
  BY NextKeeps DEF ReportInv
<1>1. ASSUME NEW s \in Senders, Send(s) \/ SendStep(s) \/ AwaitCanceled(s)
      PROVE  ReportOK(t)'
  BY <1>1, SendReports, PublishReports, SendStepReports
<1>2. CASE Close
  BY <1>2, CloseReports
<1>3. ASSUME NEW c \in Clients,
             Dispatch(c) \/ BrokerAnswers(c) \/ BrokerReadsOn(c) \/ ChannelDies(c)
      PROVE  ReportOK(t)'
  BY <1>3, DispatchReports, BrokerReports, ReadingReports, DeathReports
<1>4. CASE UNCHANGED vars
  BY <1>4, SMTT(30)
  DEF ReportInv, vars, ReportOK, AwaitedOK, CameBack, Own, Known, Clients
<1> QED
  BY <1>1, <1>2, <1>3, <1>4 DEF Next, Resting

\* What is known of every publish that is awaited holds throughout, whatever
\* is lost, rejected or sent back, and in whichever order the answers come.
THEOREM ReportInvariance == Spec => []ReportInv
<1>1. ReportInv /\ UNCHANGED vars => ReportInv'
  BY NextReports
<1> QED
  BY InitReports, NextReports, PTL DEF Spec

\* What Send reports is true: success is a message in a queue, and a message
\* that is called unroutable is in none.
THEOREM ReportCorrect == Spec => []ReportIsTrue
<1>1. ReportInv => ReportIsTrue
  BY KnownHas DEF ReportInv, ReportOK, ReportIsTrue, Own
<1> QED
  BY <1>1, ReportInvariance, PTL

=============================================================================
