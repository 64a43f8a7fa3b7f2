------------------------- MODULE RabbitConsumerProofs -------------------------
(* Theorems about RabbitConsumer, for any queue, configuration, number of  *)
(* faults and environment.                                                 *)
EXTENDS RabbitConsumer, FiniteSetTheorems, WellFoundedInduction, TLAPS

USE RabbitConsumerAssumption DEF RabbitConsumerAssumption

\* The elements of a sequence, and the messages of a sequence of answers.
Elems(q) == {q[j] : j \in DOMAIN q}
Answered(q) == {q[j][1] : j \in DOMAIN q}

Distinct(q) == \A j, k \in DOMAIN q : q[j] = q[k] => j = k
Once(q) == \A j, k \in DOMAIN q : q[j][1] = q[k][1] => j = k

\* An answer is no more than what the handler said.
Earned(answer) ==
  /\ answer[2] = "ack" => answer[1] \in accepted \cup Junk
  /\ answer[2] = "drop" => answer[1] \in dropped

\* A subscription, when h is what consume has in hand of it.  The broker waits
\* for the messages on the way to consume, in its hand, and on the way back.
SubOK(s, h) ==
  /\ s.prefetch = prefetch
  /\ ~s.open => s.unacked = {} /\ s.acks = << >>
  /\ s.stop /\ s.open => ~s.delivering /\ s.deliveries = << >>
  /\ \A j \in DOMAIN s.acks : Earned(s.acks[j])
  /\ s.open => /\ s.unacked = Elems(s.deliveries) \cup h \cup Answered(s.acks)
               /\ Elems(s.deliveries) \cap h = {}
               /\ Elems(s.deliveries) \cap Answered(s.acks) = {}
               /\ h \cap Answered(s.acks) = {}
               /\ Distinct(s.deliveries) /\ Once(s.acks)

InHand == IF pc \in {"handle", "settle"} THEN {msg} ELSE {}
Hand(i) == IF i = cur THEN InHand ELSE {}

\* Every message has one place: in the queue, gone, or with one subscription.
Placed ==
  /\ ready \cap gone = {}
  /\ Messages = ready \cup gone \cup AllUnacked
  /\ \A i \in DOMAIN subs : subs[i].unacked \cap (ready \cup gone) = {}
  /\ \A i, k \in DOMAIN subs : i # k => subs[i].unacked \cap subs[k].unacked = {}

\* Consume uses the latest subscription and has left all others.  What it still
\* reads from one that is lost is back in the queue.
Latest ==
  /\ \A i \in DOMAIN subs :
       subs[i].stop <=> (i # cur \/ pc \in {"loop", "dial", "ended"})
  /\ pc \in {"next", "handle", "settle", "return"} => subs # << >>
  /\ pc = "return" /\ subs[cur].open =>
       ~subs[cur].delivering /\ subs[cur].deliveries = << >>
  /\ pc \in {"next", "handle", "settle"} /\ ~subs[cur].open =>
       Elems(subs[cur].deliveries) \cup InHand \subseteq ready

\* What the answer that consume is about to give rests on.
Judged ==
  pc = "settle" =>
    /\ verdict \in Verdicts
    /\ verdict = "retry" => msg \notin Junk
    /\ verdict = "ack" => msg \in accepted \cup Junk

\* With a prefetch of one the broker waits for a message only when those before
\* it are gone.
Paced ==
  prefetch = 1 /\ (\A i \in DOMAIN subs : subs[i].delivering) =>
    \A i \in DOMAIN subs : \A m \in subs[i].unacked : \A k \in Messages : k < m => k \in gone

IInv ==
  /\ TypeOK
  /\ \A i \in DOMAIN subs : SubOK(subs[i], Hand(i))
  /\ Placed /\ Latest /\ Judged /\ Paced

-----------------------------------------------------------------------------
(* Sequences.                                                              *)

LEMMA TailOf ==
  ASSUME NEW S, NEW q \in Seq(S), q # << >>
  PROVE  /\ Tail(q) \in Seq(S) /\ Head(q) \in S /\ 1 \in DOMAIN q /\ Head(q) = q[1]
         /\ \A j \in DOMAIN Tail(q) : j + 1 \in DOMAIN q /\ Tail(q)[j] = q[j + 1] /\ j \in Nat
         /\ \A j \in DOMAIN q : j = 1 \/ (j - 1 \in DOMAIN Tail(q) /\ q[j] = Tail(q)[j - 1])
<1>1. Len(q) \in Nat /\ Len(q) # 0 /\ DOMAIN q = 1 .. Len(q)
  OBVIOUS
<1>2. Len(Tail(q)) = Len(q) - 1 /\ Tail(q) \in Seq(S)
  BY <1>1
<1>3. DOMAIN Tail(q) = 1 .. (Len(q) - 1) /\ \A j \in 1 .. (Len(q) - 1) : Tail(q)[j] = q[j + 1]
  BY <1>1, <1>2
<1>4. \A j \in 1 .. Len(q) : j = 1 \/ (j - 1 \in 1 .. (Len(q) - 1) /\ (j - 1) + 1 = j)
  BY <1>1
<1>5. \A j \in 1 .. (Len(q) - 1) : j + 1 \in 1 .. Len(q) /\ j \in Nat
  BY <1>1
<1> QED
  BY <1>1, <1>2, <1>3, <1>4, <1>5

LEMMA TailElems ==
  ASSUME NEW S, NEW q \in Seq(S), q # << >>
  PROVE  /\ Elems(q) = {Head(q)} \cup Elems(Tail(q))
         /\ Distinct(q) => Distinct(Tail(q)) /\ Head(q) \notin Elems(Tail(q))
<1>1. ASSUME NEW x \in Elems(q) PROVE x = Head(q) \/ x \in Elems(Tail(q))
  <2>1. PICK j \in DOMAIN q : x = q[j]
    BY DEF Elems
  <2>2. j = 1 \/ \E k \in DOMAIN Tail(q) : q[j] = Tail(q)[k]
    BY TailOf, ZenonT(60)
  <2> QED
    BY <2>1, <2>2, TailOf DEF Elems
<1>2. Elems(Tail(q)) \subseteq Elems(q) /\ Head(q) \in Elems(q)
  BY TailOf DEF Elems
<1>3. ASSUME Distinct(q), NEW j \in DOMAIN Tail(q), NEW k \in DOMAIN Tail(q),
             Tail(q)[j] = Tail(q)[k]
      PROVE  j = k
  <2>1. j + 1 = k + 1 /\ j \in Nat /\ k \in Nat
    BY <1>3, TailOf DEF Distinct
  <2> QED
    BY <2>1
<1>4. ASSUME Distinct(q), NEW j \in DOMAIN Tail(q), Head(q) = Tail(q)[j]
      PROVE  FALSE
  <2>1. 1 = j + 1 /\ j \in Nat /\ j \in DOMAIN Tail(q)
    BY <1>4, TailOf DEF Distinct
  <2>2. j \in 1 .. Len(Tail(q))
    BY TailOf
  <2> QED
    BY <2>1, <2>2
<1> QED
  BY <1>1, <1>2, <1>3, <1>4 DEF Distinct, Elems

LEMMA TailAnswers ==
  ASSUME NEW S, NEW q \in Seq(S), q # << >>
  PROVE  /\ Answered(q) = {Head(q)[1]} \cup Answered(Tail(q))
         /\ Once(q) => Once(Tail(q)) /\ Head(q)[1] \notin Answered(Tail(q))
         /\ \A j \in DOMAIN Tail(q) : \E k \in DOMAIN q : Tail(q)[j] = q[k]
<1>1. ASSUME NEW x \in Answered(q) PROVE x = Head(q)[1] \/ x \in Answered(Tail(q))
  <2>1. PICK j \in DOMAIN q : x = q[j][1]
    BY DEF Answered
  <2>2. j = 1 \/ \E k \in DOMAIN Tail(q) : q[j] = Tail(q)[k]
    BY TailOf, ZenonT(60)
  <2> QED
    BY <2>1, <2>2, TailOf DEF Answered
<1>2. Answered(Tail(q)) \subseteq Answered(q) /\ Head(q)[1] \in Answered(q)
  BY TailOf DEF Answered
<1>3. ASSUME Once(q), NEW j \in DOMAIN Tail(q), NEW k \in DOMAIN Tail(q),
             Tail(q)[j][1] = Tail(q)[k][1]
      PROVE  j = k
  <2>1. j + 1 = k + 1 /\ j \in Nat /\ k \in Nat
    BY <1>3, TailOf DEF Once
  <2> QED
    BY <2>1
<1>4. ASSUME Once(q), NEW j \in DOMAIN Tail(q), Head(q)[1] = Tail(q)[j][1]
      PROVE  FALSE
  <2>1. 1 = j + 1 /\ j \in Nat
    BY <1>4, TailOf DEF Once
  <2>2. j \in 1 .. Len(Tail(q))
    BY TailOf
  <2> QED
    BY <2>1, <2>2
<1>5. \A j \in DOMAIN Tail(q) : \E k \in DOMAIN q : Tail(q)[j] = q[k]
  BY TailOf
<1> QED
  BY <1>1, <1>2, <1>3, <1>4, <1>5 DEF Once, Answered

LEMMA AppendTo ==
  ASSUME NEW S, NEW q \in Seq(S), NEW x \in S
  PROVE  /\ Append(q, x) \in Seq(S)
         /\ DOMAIN Append(q, x) = DOMAIN q \cup {Len(q) + 1} /\ Len(q) + 1 \notin DOMAIN q
         /\ Append(q, x)[Len(q) + 1] = x
         /\ \A j \in DOMAIN q : Append(q, x)[j] = q[j]
<1>1. Len(q) \in Nat /\ DOMAIN q = 1 .. Len(q)
  OBVIOUS
<1>2. Append(q, x) \in Seq(S) /\ Len(Append(q, x)) = Len(q) + 1
  BY <1>1
<1>3. DOMAIN Append(q, x) = 1 .. (Len(q) + 1)
  BY <1>2
<1>4. 1 .. (Len(q) + 1) = (1 .. Len(q)) \cup {Len(q) + 1} /\ Len(q) + 1 \notin 1 .. Len(q)
  BY <1>1
<1>5. Append(q, x)[Len(q) + 1] = x /\ \A j \in 1 .. Len(q) : Append(q, x)[j] = q[j]
  BY <1>1
<1> QED
  BY <1>1, <1>2, <1>3, <1>4, <1>5

LEMMA AppendElems ==
  ASSUME NEW S, NEW q \in Seq(S), NEW x \in S
  PROVE  /\ Elems(Append(q, x)) = Elems(q) \cup {x}
         /\ Distinct(q) /\ x \notin Elems(q) => Distinct(Append(q, x))
<1> DEFINE r == Append(q, x)
           n == Len(q) + 1
<1>1. /\ DOMAIN r = DOMAIN q \cup {n} /\ n \notin DOMAIN q /\ r[n] = x
      /\ \A j \in DOMAIN q : r[j] = q[j]
  BY AppendTo
<1> HIDE DEF r, n
<1> QED
  BY <1>1 DEF Elems, Distinct, r

LEMMA AppendAnswers ==
  ASSUME NEW S, NEW q \in Seq(S), NEW x \in S
  PROVE  /\ Answered(Append(q, x)) = Answered(q) \cup {x[1]}
         /\ Once(q) /\ x[1] \notin Answered(q) => Once(Append(q, x))
         /\ \A j \in DOMAIN Append(q, x) : Append(q, x)[j] = x
                                           \/ \E k \in DOMAIN q : Append(q, x)[j] = q[k]
<1> DEFINE r == Append(q, x)
           n == Len(q) + 1
<1>1. /\ DOMAIN r = DOMAIN q \cup {n} /\ n \notin DOMAIN q /\ r[n] = x
      /\ \A j \in DOMAIN q : r[j] = q[j]
  BY AppendTo
<1> HIDE DEF r, n
<1> QED
  BY <1>1 DEF Answered, Once, r

LEMMA EmptyElems ==
  Elems(<< >>) = {} /\ Answered(<< >>) = {} /\ Distinct(<< >>) /\ Once(<< >>)
  BY DEF Elems, Answered, Distinct, Once

LEMMA ReplaceSub ==
  ASSUME subs \in Seq(Subscription), NEW i \in DOMAIN subs, NEW s \in Subscription,
         subs' = [subs EXCEPT ![i] = s]
  PROVE  /\ subs' \in Seq(Subscription) /\ cur' = cur /\ DOMAIN subs' = DOMAIN subs
         /\ subs'[i] = s /\ \A k \in DOMAIN subs : k # i => subs'[k] = subs[k]
  BY DEF cur

-----------------------------------------------------------------------------
(* What a step may do to the invariant.                                    *)

\* A subscription that does not change, when more was accepted.
LEMMA SubStays ==
  ASSUME NEW i, SubOK(subs[i], Hand(i)), subs'[i] = subs[i],
         subs[i].open => Hand(i)' = Hand(i), UNCHANGED prefetch, accepted \subseteq accepted', dropped \subseteq dropped'
  PROVE  SubOK(subs[i], Hand(i))'
  BY DEF SubOK, Earned

\* The latest subscription, when there is one.
LEMMA Current ==
  ASSUME subs \in Seq(Subscription), subs # << >>
  PROVE  cur \in DOMAIN subs
<1>1. Len(subs) \in Nat /\ Len(subs) # 0 /\ DOMAIN subs = 1 .. Len(subs)
  OBVIOUS
<1> QED
  BY <1>1 DEF cur

\* The messages of one subscription move between it and the queue.
LEMMA PlacedMoves ==
  ASSUME IInv, NEW i \in DOMAIN subs, NEW s \in Subscription,
         subs' = [subs EXCEPT ![i] = s],
         ready' \cup gone' \cup s.unacked = ready \cup gone \cup subs[i].unacked,
         ready' \cap gone' = {}, s.unacked \cap (ready' \cup gone') = {}
  PROVE  Placed'
<1>1. /\ DOMAIN subs' = DOMAIN subs /\ subs'[i] = s
      /\ \A k \in DOMAIN subs : k # i => subs'[k] = subs[k]
  BY ReplaceSub DEF IInv, TypeOK
<1>2. /\ Messages = ready \cup gone \cup AllUnacked
      /\ \A k \in DOMAIN subs : subs[k].unacked \cap (ready \cup gone) = {}
      /\ \A j, k \in DOMAIN subs : j # k => subs[j].unacked \cap subs[k].unacked = {}
  BY DEF IInv, Placed
<1>3. ASSUME NEW k \in DOMAIN subs, k # i
      PROVE  subs[k].unacked \cap (ready' \cup gone' \cup s.unacked) = {}
  BY <1>2, <1>3
<1>4. \A k \in DOMAIN subs : subs'[k].unacked \cap (ready' \cup gone') = {}
  BY <1>1, <1>3
<1>5. \A j, k \in DOMAIN subs : j # k => subs'[j].unacked \cap subs'[k].unacked = {}
  BY <1>1, <1>2, <1>3
<1>6. ready' \cup gone' \cup AllUnacked' = ready \cup gone \cup AllUnacked
  <2>1. \A m : m \in AllUnacked' <=> (m \in s.unacked \/ \E k \in DOMAIN subs : k # i /\ m \in subs[k].unacked)
    BY <1>1 DEF AllUnacked
  <2>2. \A m : m \in AllUnacked <=> (m \in subs[i].unacked \/ \E k \in DOMAIN subs : k # i /\ m \in subs[k].unacked)
    BY DEF AllUnacked
  <2> QED
    BY <2>1, <2>2
<1> QED
  BY <1>1, <1>2, <1>4, <1>5, <1>6 DEF Placed

\* Nothing is put on the way to consume.
LEMMA PacedStays ==
  ASSUME IInv, NEW i \in DOMAIN subs, NEW s \in Subscription,
         subs' = [subs EXCEPT ![i] = s], UNCHANGED prefetch, gone \subseteq gone',
         s.delivering => subs[i].delivering, s.unacked \subseteq subs[i].unacked
  PROVE  Paced'
<1>1. /\ DOMAIN subs' = DOMAIN subs /\ subs'[i] = s
      /\ \A k \in DOMAIN subs : k # i => subs'[k] = subs[k]
  BY ReplaceSub DEF IInv, TypeOK
<1> QED
  BY <1>1 DEF IInv, Paced

\* The queue and the subscriptions stay as they are.
LEMMA QuietKeeps ==
  ASSUME IInv, UNCHANGED <<prefetch, ready, gone, subs>>, TypeOK',
         subs[cur].open => InHand' = InHand, accepted \subseteq accepted', dropped \subseteq dropped', Latest', Judged'
  PROVE  IInv'
<1>1. \A i \in DOMAIN subs : SubOK(subs[i], Hand(i))'
  <2> TAKE i \in DOMAIN subs
  <2>1. subs'[i] = subs[i] /\ (subs[i].open => Hand(i)' = Hand(i))
    BY DEF Hand, cur
  <2> QED
    BY <2>1, SubStays DEF IInv
<1>2. Placed' /\ Paced'
  BY DEF IInv, Placed, Paced, AllUnacked
<1> QED
  BY <1>1, <1>2 DEF IInv

\* One subscription changes on the side of the broker, and what is on the way
\* to consume only grows.
LEMMA SubKeeps ==
  ASSUME IInv, NEW i \in DOMAIN subs, NEW s \in Subscription,
         subs' = [subs EXCEPT ![i] = s], UNCHANGED <<config, up, consumer, stops, history>>,
         faults' \in 0 .. MaxFaults, ready' \subseteq Messages, gone' \subseteq Messages,
         s.stop = subs[i].stop, s.open => subs[i].open,
         pc = "return" /\ i = cur /\ s.open => ~s.delivering /\ s.deliveries = << >>,
         \A h : h = Hand(i) => SubOK(s, h),
         ready \subseteq ready' \/ i = cur,
         pc \in {"next", "handle", "settle"} /\ i = cur /\ ~s.open =>
           Elems(s.deliveries) \cup InHand \subseteq ready',
         Placed', Paced'
  PROVE  IInv'
<1>1. /\ DOMAIN subs' = DOMAIN subs /\ subs'[i] = s /\ subs' \in Seq(Subscription)
      /\ \A k \in DOMAIN subs : k # i => subs'[k] = subs[k]
      /\ cur' = cur
  BY ReplaceSub DEF IInv, TypeOK
<1>2. TypeOK'
  BY <1>1, ZenonT(60) DEF IInv, TypeOK, config, consumer, stops, history
<1>3. ASSUME NEW k \in DOMAIN subs
      PROVE  SubOK(subs[k], Hand(k))'
  <2>1. Hand(k)' = Hand(k)
    BY <1>1 DEF Hand, InHand, consumer
  <2>2. CASE k # i
    BY <1>1, <1>3, <2>1, <2>2, SubStays DEF IInv, config, history
  <2>3. CASE k = i
    <3>1. SubOK(s, Hand(i))
      OBVIOUS
    <3> QED
      BY <1>1, <2>1, <2>3, <3>1 DEF SubOK, Earned, config, history
  <2> QED
    BY <2>2, <2>3
<1>4. Latest'
  <2>1. UNCHANGED <<pc, msg>> /\ InHand' = InHand
    BY DEF consumer, InHand
  <2>2. \A k \in DOMAIN subs : subs'[k].stop = subs[k].stop
    BY <1>1
  <2>3. subs # << >> => subs' # << >>
    BY <1>1
  <2>4. cur = i \/ subs'[cur] = subs[cur] \/ subs = << >>
    <3>1. subs # << >> => cur \in DOMAIN subs
      BY Current DEF IInv, TypeOK
    <3> QED
      BY <1>1, <3>1
  <2> QED
    BY <1>1, <2>1, <2>2, <2>3, <2>4 DEF IInv, Latest
<1>5. Judged'
  BY DEF IInv, Judged, consumer, history
<1> QED
  BY <1>1, <1>2, <1>3, <1>4, <1>5 DEF IInv

\* Consume takes something from its subscription or writes something to it.
LEMMA ConsumerKeeps ==
  ASSUME IInv, subs # << >>, NEW s \in Subscription, subs' = [subs EXCEPT ![cur] = s],
         UNCHANGED <<config, ready, gone>>, TypeOK',
         accepted \subseteq accepted', dropped \subseteq dropped',
         s.unacked = subs[cur].unacked, s.delivering = subs[cur].delivering,
         SubOK(s, InHand)', Latest', Judged'
  PROVE  IInv'
<1>1. subs \in Seq(Subscription) /\ cur \in DOMAIN subs
  BY Current DEF IInv, TypeOK
<1>2. /\ DOMAIN subs' = DOMAIN subs /\ subs'[cur] = s /\ cur' = cur
      /\ \A k \in DOMAIN subs : k # cur => subs'[k] = subs[k]
  BY <1>1, ReplaceSub
<1>3. ASSUME NEW k \in DOMAIN subs
      PROVE  SubOK(subs[k], Hand(k))'
  <2>1. CASE k = cur
    <3>1. Hand(k)' = InHand' /\ subs'[k] = s
      BY <1>2, <2>1 DEF Hand
    <3> QED
      BY <3>1
  <2>2. CASE k # cur
    <3>1. Hand(k)' = Hand(k) /\ subs'[k] = subs[k]
      BY <1>2, <1>3, <2>2 DEF Hand
    <3> QED
      BY <3>1, SubStays DEF IInv, config
  <2> QED
    BY <2>1, <2>2
<1>4. Placed'
  <2>1. \A k \in DOMAIN subs : subs'[k].unacked = subs[k].unacked
    BY <1>2
  <2>2. AllUnacked' = AllUnacked
    BY <1>2, <2>1 DEF AllUnacked
  <2> QED
    BY <1>2, <2>1, <2>2 DEF IInv, Placed
<1>5. Paced'
  <2>1. \A k \in DOMAIN subs : subs'[k].unacked = subs[k].unacked
                               /\ subs'[k].delivering = subs[k].delivering
    BY <1>2
  <2> QED
    BY <1>2, <2>1 DEF IInv, Paced, config
<1> QED
  BY <1>2, <1>3, <1>4, <1>5 DEF IInv

-----------------------------------------------------------------------------
(* Consume.                                                                *)

LEMMA LoopKeeps ==
  ASSUME IInv, Loop \/ DeliveriesClosed \/ SettleFails
  PROVE  IInv'
<1>1. /\ UNCHANGED <<config, broker, subs, msg, verdict, stops, history, faults>>
      /\ pc' \in {"dial", "ended", "return"}
  BY DEF Loop, DeliveriesClosed, SettleFails, Returns
<1>2. TypeOK'
  BY <1>1 DEF Loop, DeliveriesClosed, SettleFails, Returns, IInv, TypeOK, config, broker,
              stops, history
<1>3. Latest'
  BY <1>1 DEF Loop, DeliveriesClosed, SettleFails, Returns, IInv, Latest, cur
<1>4. Judged'
  BY <1>1 DEF Judged
<1>5. subs[cur].open => InHand' = InHand
  BY <1>1 DEF Loop, DeliveriesClosed, SettleFails, InHand
<1> QED
  BY <1>1, <1>2, <1>3, <1>4, <1>5, QuietKeeps DEF config, broker, history

LEMMA ProcessKeeps ==
  ASSUME IInv, ProcessMessage
  PROVE  IInv'
<1>1. /\ UNCHANGED <<config, broker, subs, msg, err, result, stops, dropped, faults>>
      /\ pc = "handle" /\ pc' = "settle" /\ verdict' \in Dispositions(msg)
      /\ accepted' = IF verdict' = "ack" THEN accepted \cup ({msg} \ Junk) ELSE accepted
      /\ rejects' = IF verdict' = "retry" THEN rejects + Cardinality({msg} \ Junk) ELSE rejects
      /\ rejects' <= MaxRejects /\ msg \in Messages /\ rejects \in 0 .. MaxRejects
  BY DEF ProcessMessage, IInv, TypeOK
<1>2. Cardinality({msg} \ Junk) \in Nat
  <2>1. IsFiniteSet({msg}) /\ {msg} \ Junk \subseteq {msg}
    BY FS_Singleton
  <2> QED
    BY <2>1, FS_Subset, FS_CardinalityType
<1>3. rejects' \in 0 .. MaxRejects
  BY <1>1, <1>2
<1>4. verdict' \in Verdicts /\ (verdict' = "retry" => msg \notin Junk)
  BY <1>1 DEF Dispositions, Verdicts
<1>5. accepted' \subseteq Messages /\ accepted \subseteq accepted'
  BY <1>1 DEF IInv, TypeOK
<1>6. TypeOK'
  BY <1>1, <1>3, <1>4, <1>5 DEF IInv, TypeOK, config, broker, stops
<1>7. Latest'
  BY <1>1 DEF IInv, Latest, InHand, cur, broker
<1>8. Judged'
  BY <1>1, <1>4 DEF Judged
<1>9. InHand' = InHand
  BY <1>1 DEF InHand
<1> QED
  BY <1>1, <1>5, <1>6, <1>7, <1>8, <1>9, QuietKeeps DEF config, broker

LEMMA StopsKeep ==
  ASSUME IInv, Cancel \/ Close \/ BrokerUp
  PROVE  IInv'
<1>1. /\ UNCHANGED <<config, ready, gone, subs, consumer, history, faults>>
      /\ up' \in BOOLEAN /\ ctxDone' \in BOOLEAN /\ closed' \in BOOLEAN
  BY DEF Cancel, Close, BrokerUp, broker, stops, IInv, TypeOK
<1>2. TypeOK'
  BY <1>1 DEF IInv, TypeOK, config, consumer, history
<1>3. Latest' /\ Judged' /\ InHand' = InHand
  BY <1>1 DEF IInv, Latest, Judged, InHand, cur, consumer, history
<1> QED
  BY <1>1, <1>2, <1>3, QuietKeeps DEF config, history

LEMMA DialKeeps ==
  ASSUME IInv, Dial
  PROVE  IInv'
<1>1. /\ UNCHANGED <<config, broker, msg, verdict, err, stops, history, faults>>
      /\ pc = "dial"
  BY DEF Dial
<1>2. CASE ~up /\ Returns("failed") /\ UNCHANGED subs
  <2>1. pc' = "ended" /\ result' = "failed"
    BY <1>2 DEF Returns
  <2>2. TypeOK'
    BY <1>1, <1>2, <2>1 DEF IInv, TypeOK, config, broker, stops, history
  <2>3. Latest' /\ Judged' /\ InHand' = InHand
    BY <1>1, <1>2, <2>1 DEF IInv, Latest, Judged, InHand, cur
  <2> QED
    BY <1>1, <1>2, <2>2, <2>3, QuietKeeps DEF config, broker, history
<1>3. CASE subs' = Append(subs, NewSubscription) /\ pc' = "next" /\ UNCHANGED result
  <2>1. prefetch \in Nat
    BY DEF IInv, TypeOK
  <2>2. NewSubscription \in Subscription
    BY <2>1 DEF NewSubscription, Subscription, Qos
  <2>3. PICK s \in Subscription : s = NewSubscription
    BY <2>2
  <2>4. /\ s.open /\ s.delivering /\ ~s.stop /\ s.prefetch = prefetch
        /\ s.deliveries = << >> /\ s.unacked = {} /\ s.acks = << >>
    BY <2>3 DEF NewSubscription, Qos
  <2>5. subs' = Append(subs, s) /\ subs \in Seq(Subscription)
    BY <1>3, <2>3 DEF IInv, TypeOK
  <2> DEFINE n == Len(subs) + 1
  <2>6. /\ subs' \in Seq(Subscription) /\ DOMAIN subs' = DOMAIN subs \cup {n}
        /\ n \notin DOMAIN subs /\ subs'[n] = s
        /\ \A k \in DOMAIN subs : subs'[k] = subs[k]
    BY <2>5, AppendTo
  <2>7. cur' = n /\ subs' # << >>
    BY <2>5 DEF cur
  <2> HIDE DEF n
  <2>8. TypeOK'
    BY <1>1, <1>3, <2>6 DEF IInv, TypeOK, config, broker, stops, history
  <2>9. \A k \in DOMAIN subs : subs[k].stop
    BY <1>1 DEF IInv, Latest
  <2>10. ASSUME NEW k \in DOMAIN subs'
         PROVE  SubOK(subs[k], Hand(k))'
    <3>1. Hand(k)' = {} /\ (k \in DOMAIN subs => Hand(k) = {})
      BY <1>1, <1>3 DEF Hand, InHand
    <3>2. CASE k \in DOMAIN subs
      BY <1>1, <2>6, <3>1, <3>2, SubStays DEF IInv, config, history
    <3>3. CASE k = n
      <4>1. SubOK(s, {})'
        BY <1>1, <2>4, EmptyElems DEF SubOK, config
      <4> QED
        BY <2>6, <3>1, <3>3, <4>1
    <3> QED
      BY <2>6, <3>2, <3>3
  <2>11. Placed'
    <3>1. AllUnacked' = AllUnacked
      BY <2>4, <2>6 DEF AllUnacked
    <3> QED
      BY <1>1, <2>4, <2>6, <3>1 DEF IInv, Placed, broker
  <2>12. Latest'
    BY <1>1, <1>3, <2>4, <2>6, <2>7, <2>9 DEF Latest
  <2>13. Judged'
    BY <1>3 DEF Judged
  <2>14. Paced'
    BY <1>1, <2>4, <2>6 DEF IInv, Paced, config, broker
  <2> QED
    BY <2>8, <2>10, <2>11, <2>12, <2>13, <2>14 DEF IInv
<1> QED
  BY <1>2, <1>3 DEF Dial

\* The latest subscription, its type and what holds of it.
LEMMA CurrentOK ==
  ASSUME IInv, pc \in {"next", "handle", "settle", "return"}
  PROVE  /\ subs # << >> /\ cur \in DOMAIN subs /\ subs[cur] \in Subscription
         /\ SubOK(subs[cur], InHand) /\ ~subs[cur].stop /\ subs \in Seq(Subscription)
         /\ \A k \in DOMAIN subs : k # cur => subs[k].stop
<1>1. subs # << >> /\ subs \in Seq(Subscription)
  BY DEF IInv, Latest, TypeOK
<1>2. cur \in DOMAIN subs
  BY <1>1, Current
<1> QED
  BY <1>1, <1>2 DEF IInv, Latest, Hand

LEMMA NextDeliveryKeeps ==
  ASSUME IInv, NextDelivery
  PROVE  IInv'
<1>1. /\ pc = "next" /\ pc' = "handle" /\ msg' = Head(subs[cur].deliveries)
      /\ subs[cur].deliveries # << >>
      /\ UNCHANGED <<config, broker, verdict, err, result, stops, history, faults>>
  BY DEF NextDelivery
<1>2. PICK o \in Subscription : o = subs[cur]
  BY <1>1, CurrentOK
<1>3. /\ subs # << >> /\ cur \in DOMAIN subs /\ SubOK(o, {}) /\ ~o.stop
      /\ subs \in Seq(Subscription)
      /\ \A k \in DOMAIN subs : k # cur => subs[k].stop
  BY <1>1, <1>2, CurrentOK DEF InHand
<1>4. o.deliveries \in Seq(Messages) /\ o.deliveries # << >> /\ msg' = Head(o.deliveries)
  BY <1>1, <1>2 DEF Subscription
<1>5. Tail(o.deliveries) \in Seq(Messages) /\ msg' \in Messages
  BY <1>4, TailOf
<1>6. /\ Elems(o.deliveries) = {msg'} \cup Elems(Tail(o.deliveries))
      /\ Distinct(o.deliveries) =>
           Distinct(Tail(o.deliveries)) /\ msg' \notin Elems(Tail(o.deliveries))
  BY <1>4, TailElems
<1>7. PICK s \in Subscription : s = [o EXCEPT !.deliveries = Tail(o.deliveries)]
  BY <1>5 DEF Subscription
<1>8. /\ s.prefetch = o.prefetch /\ s.open = o.open /\ s.unacked = o.unacked
      /\ s.acks = o.acks /\ s.stop = o.stop /\ s.delivering = o.delivering
      /\ s.deliveries = Tail(o.deliveries)
  BY <1>7 DEF Subscription
<1>9. subs' = [subs EXCEPT ![cur] = s]
  BY <1>2, <1>3, <1>7 DEF NextDelivery
<1>10. /\ subs' \in Seq(Subscription) /\ cur' = cur /\ DOMAIN subs' = DOMAIN subs
       /\ subs'[cur] = s /\ \A k \in DOMAIN subs : k # cur => subs'[k] = subs[k]
  BY <1>3, <1>9, ReplaceSub
<1>11. TypeOK'
  BY <1>1, <1>5, <1>10 DEF IInv, TypeOK, config, broker, stops, history
<1>12. InHand' = {msg'}
  BY <1>1 DEF InHand
<1>13. SubOK(s, InHand)'
  <2>1. /\ s.prefetch = prefetch' /\ (~s.open => s.unacked = {} /\ s.acks = << >>)
        /\ ~s.stop
        /\ \A j \in DOMAIN s.acks : Earned(s.acks[j])'
    BY <1>1, <1>3, <1>8 DEF SubOK, Earned, config, history
  <2>2. s.open => /\ s.unacked = Elems(s.deliveries) \cup {msg'} \cup Answered(s.acks)
                  /\ Elems(s.deliveries) \cap {msg'} = {}
                  /\ Elems(s.deliveries) \cap Answered(s.acks) = {}
                  /\ {msg'} \cap Answered(s.acks) = {}
                  /\ Distinct(s.deliveries) /\ Once(s.acks)
    BY <1>3, <1>6, <1>8 DEF SubOK
  <2> QED
    BY <1>12, <2>1, <2>2 DEF SubOK
<1>14. Latest'
  <2>1. ~s.open => Elems(o.deliveries) \subseteq ready
    BY <1>1, <1>2, <1>8 DEF IInv, Latest
  <2>2. ~s.open => Elems(s.deliveries) \cup {msg'} \subseteq ready'
    BY <1>1, <1>6, <1>8, <2>1 DEF broker
  <2>3. subs' # << >>
    BY <1>3, <1>10
  <2> QED
    BY <1>1, <1>3, <1>8, <1>10, <1>12, <2>2, <2>3 DEF Latest
<1>15. Judged'
  BY <1>1 DEF Judged
<1> QED
  BY <1>1, <1>2, <1>3, <1>8, <1>9, <1>11, <1>13, <1>14, <1>15, ConsumerKeeps
  DEF broker, history

LEMMA SettleKeeps ==
  ASSUME IInv, SettleWritten
  PROVE  IInv'
<1> DEFINE a == <<msg, Answer>>
<1>1. /\ pc = "settle" /\ pc' = "next" /\ subs[cur].open
      /\ dropped' = IF verdict = "retry" /\ dropOnError THEN dropped \cup {msg} ELSE dropped
      /\ UNCHANGED <<config, broker, msg, verdict, err, result, stops, accepted, rejects,
                     faults>>
  BY DEF SettleWritten
<1>2. PICK o \in Subscription : o = subs[cur]
  BY <1>1, CurrentOK
<1>3. /\ subs # << >> /\ cur \in DOMAIN subs /\ SubOK(o, {msg}) /\ ~o.stop /\ o.open
      /\ subs \in Seq(Subscription)
      /\ \A k \in DOMAIN subs : k # cur => subs[k].stop
  BY <1>1, <1>2, CurrentOK DEF InHand
<1>4. msg \in Messages /\ Answer \in {"ack", "drop", "requeue"}
  BY <1>1 DEF IInv, TypeOK, Answer
<1>5. a \in Messages \X {"ack", "drop", "requeue"} /\ a[1] = msg /\ a[2] = Answer
  BY <1>4
<1>6. o.acks \in Seq(Messages \X {"ack", "drop", "requeue"})
  BY DEF Subscription
<1>7. /\ dropped \subseteq dropped' /\ dropped' \subseteq Messages
      /\ a[2] = "ack" => a[1] \in accepted \cup Junk
      /\ a[2] = "drop" => a[1] \in dropped'
  BY <1>1, <1>4, <1>5 DEF IInv, Judged, TypeOK, Answer, Verdicts
<1> HIDE DEF a
<1>8. /\ Append(o.acks, a) \in Seq(Messages \X {"ack", "drop", "requeue"})
      /\ Answered(Append(o.acks, a)) = Answered(o.acks) \cup {a[1]}
      /\ Once(o.acks) /\ a[1] \notin Answered(o.acks) => Once(Append(o.acks, a))
      /\ \A j \in DOMAIN Append(o.acks, a) :
           Append(o.acks, a)[j] = a \/ \E k \in DOMAIN o.acks : Append(o.acks, a)[j] = o.acks[k]
  BY <1>5, <1>6, AppendTo, AppendAnswers
<1>9. PICK s \in Subscription : s = [o EXCEPT !.acks = Append(o.acks, a)]
  BY <1>8 DEF Subscription
<1>10. /\ s.prefetch = o.prefetch /\ s.open = o.open /\ s.unacked = o.unacked
       /\ s.acks = Append(o.acks, a) /\ s.stop = o.stop /\ s.delivering = o.delivering
       /\ s.deliveries = o.deliveries
  BY <1>9 DEF Subscription
<1>11. subs' = [subs EXCEPT ![cur] = s]
  BY <1>2, <1>3, <1>9 DEF SettleWritten, a
<1>12. /\ subs' \in Seq(Subscription) /\ cur' = cur /\ DOMAIN subs' = DOMAIN subs
       /\ subs'[cur] = s /\ \A k \in DOMAIN subs : k # cur => subs'[k] = subs[k]
  BY <1>3, <1>11, ReplaceSub
<1>13. TypeOK'
  BY <1>1, <1>7, <1>12 DEF IInv, TypeOK, config, broker, stops
<1>14. InHand' = {}
  BY <1>1 DEF InHand
<1>15. SubOK(s, InHand)'
  <2>1. ASSUME NEW j \in DOMAIN s.acks PROVE Earned(s.acks[j])'
    <3>1. s.acks[j] = a \/ \E k \in DOMAIN o.acks : s.acks[j] = o.acks[k]
      BY <1>8, <1>10
    <3>2. CASE s.acks[j] = a
      BY <1>1, <1>7, <3>2 DEF Earned
    <3>3. CASE \E k \in DOMAIN o.acks : s.acks[j] = o.acks[k]
      BY <1>1, <1>3, <1>7, <3>3 DEF SubOK, Earned
    <3> QED
      BY <3>1, <3>2, <3>3
  <2>2. /\ s.unacked = Elems(s.deliveries) \cup Answered(s.acks)
        /\ Elems(s.deliveries) \cap Answered(s.acks) = {}
        /\ Distinct(s.deliveries) /\ Once(s.acks)
    BY <1>3, <1>5, <1>8, <1>10 DEF SubOK
  <2>3. s.prefetch = prefetch' /\ s.open /\ ~s.stop
    BY <1>1, <1>3, <1>10 DEF SubOK, config
  <2> QED
    BY <1>14, <2>1, <2>2, <2>3 DEF SubOK
<1>16. Latest'
  <2>1. subs' # << >>
    BY <1>3, <1>12
  <2> QED
    BY <1>1, <1>3, <1>10, <1>12, <2>1 DEF Latest
<1>17. Judged'
  BY <1>1 DEF Judged
<1> QED
  BY <1>1, <1>2, <1>3, <1>7, <1>10, <1>11, <1>13, <1>15, <1>16, <1>17, ConsumerKeeps
  DEF broker

LEMMA ReturnKeeps ==
  ASSUME IInv, ConsumeReturns
  PROVE  IInv'
<1>1. /\ pc = "return" /\ pc' \in {"loop", "ended"}
      /\ result' \in {"nil", "canceled", "failed", result}
      /\ UNCHANGED <<config, broker, msg, verdict, err, stops, history, faults>>
  BY DEF ConsumeReturns, Returns
<1>2. PICK o \in Subscription : o = subs[cur]
  BY <1>1, CurrentOK
<1>3. /\ subs # << >> /\ cur \in DOMAIN subs /\ SubOK(o, {}) /\ ~o.stop
      /\ subs \in Seq(Subscription)
      /\ \A k \in DOMAIN subs : k # cur => subs[k].stop
  BY <1>1, <1>2, CurrentOK DEF InHand
<1>4. PICK s \in Subscription : s = [o EXCEPT !.stop = TRUE]
  BY DEF Subscription
<1>5. /\ s.prefetch = o.prefetch /\ s.open = o.open /\ s.unacked = o.unacked
      /\ s.acks = o.acks /\ s.stop /\ s.delivering = o.delivering
      /\ s.deliveries = o.deliveries
  BY <1>4 DEF Subscription
<1>6. subs' = [subs EXCEPT ![cur] = s]
  BY <1>2, <1>3, <1>4 DEF ConsumeReturns
<1>7. /\ subs' \in Seq(Subscription) /\ cur' = cur /\ DOMAIN subs' = DOMAIN subs
      /\ subs'[cur] = s /\ \A k \in DOMAIN subs : k # cur => subs'[k] = subs[k]
  BY <1>3, <1>6, ReplaceSub
<1>8. TypeOK'
  BY <1>1, <1>7 DEF IInv, TypeOK, config, broker, stops, history
<1>9. InHand' = {}
  BY <1>1 DEF InHand
<1>10. SubOK(s, InHand)'
  <2>1. s.open => ~s.delivering /\ s.deliveries = << >>
    BY <1>1, <1>2, <1>5 DEF IInv, Latest
  <2> QED
    BY <1>1, <1>3, <1>5, <1>9, <2>1 DEF SubOK, Earned, config, history
<1>11. Latest'
  <2>1. subs' # << >>
    BY <1>3, <1>7
  <2> QED
    BY <1>1, <1>3, <1>5, <1>7, <2>1 DEF Latest
<1>12. Judged'
  BY <1>1 DEF Judged
<1> QED
  BY <1>1, <1>2, <1>3, <1>5, <1>6, <1>8, <1>10, <1>11, <1>12, ConsumerKeeps
  DEF broker, history

-----------------------------------------------------------------------------
(* The broker and the watchdogs.                                           *)

\* A subscription, its type and what holds of it.
LEMMA SubIs ==
  ASSUME IInv, NEW i \in DOMAIN subs
  PROVE  subs[i] \in Subscription /\ SubOK(subs[i], Hand(i))
<1>1. subs \in Seq(Subscription) /\ SubOK(subs[i], Hand(i))
  BY DEF IInv, TypeOK
<1> QED
  BY <1>1

LEMMA FaultCounted ==
  ASSUME IInv, NEW event, Fault(event)
  PROVE  faults' \in 0 .. MaxFaults
<1>1. faults \in 0 .. MaxFaults
  BY DEF IInv, TypeOK
<1> QED
  BY <1>1 DEF Fault

\* The messages of a channel that has none on the way.
LEMMA NoneIsTyped == << >> \in Seq(Messages \X {"ack", "drop", "requeue"})
  OBVIOUS

\* A channel is gone: the broker takes back what it waited for, without some
\* of the messages that were answered.
LEMMA LetGo ==
  ASSUME IInv, NEW i \in DOMAIN subs, NEW s \in Subscription,
         subs' = [subs EXCEPT ![i] = s],
         UNCHANGED <<config, up, consumer, stops, history>>, faults' \in 0 .. MaxFaults,
         s.stop = subs[i].stop, s.prefetch = subs[i].prefetch,
         s.delivering = subs[i].delivering, s.deliveries = subs[i].deliveries,
         ~s.open, s.unacked = {}, s.acks = << >>,
         NEW T, T \subseteq subs[i].unacked \cap Answered(subs[i].acks),
         gone' = gone \cup T, ready' = ready \cup (subs[i].unacked \ T)
  PROVE  IInv'
<1>1. PICK o \in Subscription : o = subs[i] /\ SubOK(o, Hand(i))
  BY SubIs
<1>2. /\ o.unacked \subseteq Messages /\ o.unacked \cap (ready \cup gone) = {}
      /\ ready \cap gone = {}
  BY <1>1 DEF Subscription, IInv, Placed
<1>3. ready' \subseteq Messages /\ gone' \subseteq Messages
  BY <1>1, <1>2 DEF IInv, TypeOK
<1>4. Placed'
  <2>1. ready' \cap gone' = {}
    BY <1>1, <1>2
  <2> QED
    BY <1>1, <1>2, <2>1, PlacedMoves
<1>5. Paced'
  BY PacedStays DEF config
<1>6. ASSUME NEW h PROVE SubOK(s, h)
  <2>1. \A j \in DOMAIN s.acks : Earned(s.acks[j])
    OBVIOUS
  <2> QED
    BY <1>1, <2>1 DEF SubOK
<1>7. ASSUME pc \in {"next", "handle", "settle"}, i = cur
      PROVE  Elems(s.deliveries) \cup InHand \subseteq ready'
  <2>1. CASE o.open
    <3>1. o.unacked = Elems(o.deliveries) \cup InHand \cup Answered(o.acks)
      BY <1>1, <1>7, <2>1 DEF SubOK, Hand
    <3>2. /\ Elems(o.deliveries) \cap Answered(o.acks) = {}
          /\ InHand \cap Answered(o.acks) = {}
      BY <1>1, <1>7, <2>1 DEF SubOK, Hand
    <3> QED
      BY <1>1, <3>1, <3>2
  <2>2. CASE ~o.open
    BY <1>1, <1>7, <2>2 DEF IInv, Latest
  <2> QED
    BY <2>1, <2>2
<1> QED
  BY <1>3, <1>4, <1>5, <1>6, <1>7, SubKeeps

LEMMA WatchdogKeeps ==
  ASSUME IInv, NEW i \in DOMAIN subs, Watchdog(i)
  PROVE  IInv'
<1>1. UNCHANGED <<config, up, consumer, stops, history>> /\ UNCHANGED faults
  BY DEF Watchdog
<1>2. PICK o \in Subscription : o = subs[i] /\ SubOK(o, Hand(i))
  BY SubIs
<1>3. CASE CloseSubscription(i)
  <2> DEFINE T == Taken(o, {"ack", "drop"})
  <2>1. T \subseteq o.unacked /\ T \subseteq Answered(o.acks)
    <3>1. ASSUME NEW m \in T PROVE m \in Answered(o.acks)
      <4>1. PICK j \in 1 .. Len(o.acks) : o.acks[j] \in {m} \X {"ack", "drop"}
        BY DEF Taken
      <4>2. DOMAIN o.acks = 1 .. Len(o.acks)
        BY DEF Subscription
      <4> QED
        BY <4>1, <4>2 DEF Answered
    <3> QED
      BY <3>1 DEF Taken
  <2>2. PICK s \in Subscription :
          s = [o EXCEPT !.connected = FALSE, !.open = FALSE, !.unacked = {},
                        !.acks = << >>, !.watch = FALSE]
    BY NoneIsTyped DEF Subscription
  <2>3. /\ ~s.open /\ s.unacked = {} /\ s.acks = << >> /\ s.stop = o.stop
        /\ s.prefetch = o.prefetch /\ s.delivering = o.delivering
        /\ s.deliveries = o.deliveries
    BY <2>2 DEF Subscription
  <2>4. subs' = [subs EXCEPT ![i] = s]
    BY <1>2, <1>3, <2>2 DEF CloseSubscription
  <2>5. gone' = gone \cup T /\ ready' = ready \cup (o.unacked \ T)
    BY <1>2, <1>3 DEF CloseSubscription
  <2> HIDE DEF T
  <2> QED
    BY <1>1, <1>2, <2>1, <2>3, <2>4, <2>5, LetGo DEF IInv, TypeOK
<1>4. CASE subs' = [subs EXCEPT ![i].watch = FALSE] /\ UNCHANGED <<ready, gone>>
  <2>1. PICK s \in Subscription : s = [o EXCEPT !.watch = FALSE]
    BY DEF Subscription
  <2>2. /\ s.open = o.open /\ s.unacked = o.unacked /\ s.acks = o.acks
        /\ s.stop = o.stop /\ s.prefetch = o.prefetch /\ s.delivering = o.delivering
        /\ s.deliveries = o.deliveries
    BY <2>1 DEF Subscription
  <2>3. subs' = [subs EXCEPT ![i] = s]
    BY <1>2, <1>4, <2>1
  <2>4. Placed'
    <3>1. ready \cap gone = {} /\ o.unacked \cap (ready \cup gone) = {}
      BY <1>2 DEF IInv, Placed
    <3> QED
      BY <1>2, <1>4, <2>2, <2>3, <3>1, PlacedMoves
  <2>5. Paced'
    BY <1>1, <1>2, <1>4, <2>2, <2>3, PacedStays DEF config
  <2>6. \A h : h = Hand(i) => SubOK(s, h)
    BY <1>2, <2>2 DEF SubOK
  <2>7. /\ faults' \in 0 .. MaxFaults /\ ready \subseteq Messages /\ gone \subseteq Messages
        /\ pc = "return" /\ i = cur /\ o.open => ~o.delivering /\ o.deliveries = << >>
        /\ pc \in {"next", "handle", "settle"} /\ i = cur /\ ~o.open =>
             Elems(o.deliveries) \cup InHand \subseteq ready
    BY <1>1, <1>2 DEF IInv, TypeOK, Latest
  <2>8. ready' = ready /\ gone' = gone
    BY <1>4
  <2>9. /\ faults' \in 0 .. MaxFaults /\ ready' \subseteq Messages /\ gone' \subseteq Messages
        /\ ready \subseteq ready' \/ i = cur
        /\ pc = "return" /\ i = cur /\ s.open => ~s.delivering /\ s.deliveries = << >>
        /\ pc \in {"next", "handle", "settle"} /\ i = cur /\ ~s.open =>
             Elems(s.deliveries) \cup InHand \subseteq ready'
    BY <2>2, <2>7, <2>8
  <2> QED
    BY <1>1, <1>2, <2>2, <2>3, <2>4, <2>5, <2>6, <2>9, SubKeeps
<1> QED
  BY <1>3, <1>4 DEF Watchdog

LEMMA ChannelClosedKeeps ==
  ASSUME IInv, NEW i \in DOMAIN subs, ChannelClosed(i)
  PROVE  IInv'
<1>1. UNCHANGED <<config, gone, up, consumer, stops, history>>
  BY DEF ChannelClosed
<1>2. PICK o \in Subscription : o = subs[i]
  BY SubIs
<1>3. PICK s \in Subscription : s = Lost(o)
  BY NoneIsTyped DEF Subscription, Lost
<1>4. /\ ~s.open /\ s.unacked = {} /\ s.acks = << >> /\ s.stop = o.stop
      /\ s.prefetch = o.prefetch /\ s.delivering = o.delivering
      /\ s.deliveries = o.deliveries
  BY <1>3 DEF Subscription, Lost
<1>5. subs' = [subs EXCEPT ![i] = s] /\ ready' = ready \cup (o.unacked \ {})
  <2>1. subs' = [subs EXCEPT ![i] = s] /\ ready' = ready \cup o.unacked
    BY <1>2, <1>3 DEF ChannelClosed
  <2> QED
    BY <2>1
<1>6. faults' \in 0 .. MaxFaults
  BY FaultCounted DEF ChannelClosed
<1>7. {} \subseteq o.unacked \cap Answered(o.acks) /\ gone' = gone \cup {}
  BY <1>1
<1> QED
  BY <1>1, <1>2, <1>4, <1>5, <1>6, <1>7, LetGo

LEMMA CanceledKeeps ==
  ASSUME IInv, NEW i \in DOMAIN subs, SubscriptionCanceled(i)
  PROVE  IInv'
<1>1. UNCHANGED <<config, ready, gone, up, consumer, stops, history>>
  BY DEF SubscriptionCanceled, broker
<1>2. PICK o \in Subscription : o = subs[i] /\ SubOK(o, Hand(i)) /\ o.open /\ o.delivering
  BY SubIs DEF SubscriptionCanceled
<1>3. PICK s \in Subscription : s = [o EXCEPT !.delivering = FALSE]
  BY DEF Subscription
<1>4. /\ s.open = o.open /\ s.unacked = o.unacked /\ s.acks = o.acks
      /\ s.stop = o.stop /\ s.prefetch = o.prefetch /\ ~s.delivering
      /\ s.deliveries = o.deliveries
  BY <1>3 DEF Subscription
<1>5. subs' = [subs EXCEPT ![i] = s]
  BY <1>2, <1>3 DEF SubscriptionCanceled
<1>6. faults' \in 0 .. MaxFaults
  BY FaultCounted DEF SubscriptionCanceled
<1>7. Placed'
  <2>1. ready \cap gone = {} /\ o.unacked \cap (ready \cup gone) = {}
    BY <1>2 DEF IInv, Placed
  <2> QED
    BY <1>1, <1>2, <1>4, <1>5, <2>1, PlacedMoves
<1>8. Paced'
  BY <1>1, <1>2, <1>4, <1>5, PacedStays DEF config
<1>9. \A h : h = Hand(i) => SubOK(s, h)
  BY <1>2, <1>4 DEF SubOK
<1>10. /\ ready \subseteq Messages /\ gone \subseteq Messages
       /\ pc = "return" /\ i = cur /\ o.open => ~o.delivering /\ o.deliveries = << >>
       /\ pc \in {"next", "handle", "settle"} /\ i = cur /\ ~o.open =>
            Elems(o.deliveries) \cup InHand \subseteq ready
  BY <1>2 DEF IInv, TypeOK, Latest
<1> QED
  BY <1>1, <1>2, <1>4, <1>5, <1>6, <1>7, <1>8, <1>9, <1>10, SubKeeps

LEMMA BrokerSettlesKeeps ==
  ASSUME IInv, NEW i \in DOMAIN subs, BrokerSettles(i)
  PROVE  IInv'
<1> DEFINE A == Messages \X {"ack", "drop", "requeue"}
<1>1. UNCHANGED <<config, up, consumer, stops, history>> /\ UNCHANGED faults
  BY DEF BrokerSettles
<1>2. PICK o \in Subscription : o = subs[i] /\ SubOK(o, Hand(i)) /\ o.acks # << >>
  BY SubIs DEF BrokerSettles
<1>3. o.open /\ o.acks \in Seq(A)
  BY <1>2 DEF SubOK, Subscription
<1>4. PICK m \in Messages : m = Head(o.acks)[1]
  <2>1. Head(o.acks) \in A
    BY <1>2, <1>3
  <2> QED
    BY <2>1
<1>5. /\ Tail(o.acks) \in Seq(A)
      /\ Answered(o.acks) = {m} \cup Answered(Tail(o.acks))
      /\ Once(o.acks) => Once(Tail(o.acks)) /\ m \notin Answered(Tail(o.acks))
      /\ \A j \in DOMAIN Tail(o.acks) : \E k \in DOMAIN o.acks : Tail(o.acks)[j] = o.acks[k]
  <2> HIDE DEF A
  <2> QED
    BY <1>2, <1>3, <1>4, TailAnswers, TailOf
<1>6. PICK s \in Subscription : s = [o EXCEPT !.acks = Tail(o.acks), !.unacked = o.unacked \ {m}]
  BY <1>5 DEF Subscription
<1>7. /\ s.open = o.open /\ s.unacked = o.unacked \ {m} /\ s.acks = Tail(o.acks)
      /\ s.stop = o.stop /\ s.prefetch = o.prefetch /\ s.delivering = o.delivering
      /\ s.deliveries = o.deliveries
  BY <1>6 DEF Subscription
<1>8. subs' = [subs EXCEPT ![i] = s]
  BY <1>2, <1>4, <1>6 DEF BrokerSettles
<1>9. \/ ready' = ready \cup {m} /\ gone' = gone
      \/ ready' = ready /\ gone' = gone \cup {m}
  BY <1>2, <1>4 DEF BrokerSettles
<1>10. /\ o.unacked = Elems(o.deliveries) \cup Hand(i) \cup Answered(o.acks)
       /\ Elems(o.deliveries) \cap Hand(i) = {}
       /\ Elems(o.deliveries) \cap Answered(o.acks) = {}
       /\ Hand(i) \cap Answered(o.acks) = {}
       /\ Distinct(o.deliveries) /\ Once(o.acks)
  BY <1>2, <1>3 DEF SubOK
<1>11. m \in o.unacked
  BY <1>5, <1>10
<1>12. Placed'
  <2>1. ready \cap gone = {} /\ o.unacked \cap (ready \cup gone) = {}
    BY <1>2 DEF IInv, Placed
  <2>2. /\ ready' \cup gone' \cup s.unacked = ready \cup gone \cup o.unacked
        /\ ready' \cap gone' = {} /\ s.unacked \cap (ready' \cup gone') = {}
    BY <1>7, <1>9, <1>11, <2>1
  <2> QED
    BY <1>2, <1>8, <2>2, PlacedMoves
<1>13. Paced'
  BY <1>1, <1>2, <1>7, <1>8, <1>9, PacedStays DEF config
<1>14. SubOK(s, Hand(i))
  <2>1. \A j \in DOMAIN s.acks : Earned(s.acks[j])
    BY <1>2, <1>5, <1>7 DEF SubOK
  <2>2. s.unacked = Elems(s.deliveries) \cup Hand(i) \cup Answered(s.acks)
    BY <1>5, <1>7, <1>10
  <2>3. /\ Elems(s.deliveries) \cap Answered(s.acks) = {}
        /\ Hand(i) \cap Answered(s.acks) = {}
    BY <1>5, <1>7, <1>10
  <2> QED
    BY <1>2, <1>3, <1>5, <1>7, <1>10, <2>1, <2>2, <2>3 DEF SubOK
<1>15. /\ faults' \in 0 .. MaxFaults /\ ready' \subseteq Messages /\ gone' \subseteq Messages
       /\ ready \subseteq ready' /\ s.open
       /\ pc = "return" /\ i = cur /\ s.open => ~s.delivering /\ s.deliveries = << >>
  BY <1>1, <1>2, <1>3, <1>7, <1>9 DEF IInv, TypeOK, Latest
<1> QED
  BY <1>1, <1>2, <1>7, <1>8, <1>12, <1>13, <1>14, <1>15, SubKeeps

\* The least number of a set, which is the next message of a queue.
LEMMA MinIs ==
  ASSUME NEW S, S \subseteq Nat, S # {}
  PROVE  Min(S) \in S /\ \A k \in S : Min(S) <= k
<1>1. PICK x \in S : \A y \in S : ~(<<y, x>> \in OpToRel(<, Nat))
  BY NatLessThanWellFounded, WFMin
<1>2. \A y \in S : ~(y < x)
  BY <1>1 DEF OpToRel
<1>3. \A y \in S : x <= y
  BY <1>2
<1> QED
  BY <1>3 DEF Min

\* The broker delivers only to the subscription that Consume reads.
LEMMA DeliversToCurrent ==
  ASSUME IInv, NEW i \in DOMAIN subs, subs[i].open, subs[i].delivering
  PROVE  /\ i = cur /\ pc \in {"next", "handle", "settle"}
         /\ \A k \in DOMAIN subs : k # i /\ subs[k].delivering => subs[k].unacked = {}
<1>1. ~subs[i].stop
  BY SubIs DEF SubOK
<1>2. i = cur /\ pc \notin {"loop", "dial", "ended"}
  BY <1>1 DEF IInv, Latest
<1>3. pc \in {"next", "handle", "settle"}
  BY <1>2 DEF IInv, Latest, TypeOK
<1>4. ASSUME NEW k \in DOMAIN subs, k # i, subs[k].delivering
      PROVE  subs[k].unacked = {}
  <2>1. subs[k].stop
    BY <1>2, <1>4 DEF IInv, Latest
  <2> QED
    BY <1>4, <2>1, SubIs DEF SubOK
<1> QED
  BY <1>2, <1>3, <1>4

LEMMA BrokerDeliversKeeps ==
  ASSUME IInv, NEW i \in DOMAIN subs, BrokerDelivers(i)
  PROVE  IInv'
<1>1. /\ UNCHANGED <<config, up, consumer, stops, history>>
      /\ UNCHANGED faults /\ UNCHANGED gone /\ ready # {}
  BY DEF BrokerDelivers
<1>2. PICK o \in Subscription : o = subs[i] /\ SubOK(o, Hand(i)) /\ o.open /\ o.delivering
  BY SubIs DEF BrokerDelivers
<1>3. /\ i = cur /\ pc \in {"next", "handle", "settle"}
      /\ \A k \in DOMAIN subs : k # i /\ subs[k].delivering => subs[k].unacked = {}
  BY <1>2, DeliversToCurrent
<1>4. PICK m \in Messages : m = Min(ready) /\ m \in ready /\ \A k \in ready : m <= k
  <2>1. ready \subseteq Messages /\ ready \subseteq Nat
    <3>1. ready \subseteq Messages
      BY DEF IInv, TypeOK
    <3>2. Messages \subseteq Nat
      BY DEF Messages
    <3> QED
      BY <3>1, <3>2
  <2>2. Min(ready) \in ready /\ \A k \in ready : Min(ready) <= k
    BY <1>1, <2>1, MinIs
  <2> QED
    BY <2>1, <2>2
<1>5. o.deliveries \in Seq(Messages)
  BY DEF Subscription
<1>6. /\ Append(o.deliveries, m) \in Seq(Messages)
      /\ Elems(Append(o.deliveries, m)) = Elems(o.deliveries) \cup {m}
      /\ Distinct(o.deliveries) /\ m \notin Elems(o.deliveries) =>
           Distinct(Append(o.deliveries, m))
  BY <1>5, AppendTo, AppendElems
<1>7. PICK s \in Subscription : s = [o EXCEPT !.unacked = o.unacked \cup {m},
                                              !.deliveries = Append(o.deliveries, m)]
  BY <1>6 DEF Subscription
<1>8. /\ s.open = o.open /\ s.unacked = o.unacked \cup {m} /\ s.acks = o.acks
      /\ s.stop = o.stop /\ s.prefetch = o.prefetch /\ s.delivering = o.delivering
      /\ s.deliveries = Append(o.deliveries, m)
  BY <1>7 DEF Subscription
<1>9. subs' = [subs EXCEPT ![i] = s] /\ ready' = ready \ {m}
  BY <1>2, <1>4, <1>7 DEF BrokerDelivers
<1>10. /\ o.unacked = Elems(o.deliveries) \cup Hand(i) \cup Answered(o.acks)
       /\ Elems(o.deliveries) \cap Hand(i) = {}
       /\ Elems(o.deliveries) \cap Answered(o.acks) = {}
       /\ Hand(i) \cap Answered(o.acks) = {}
       /\ Distinct(o.deliveries) /\ Once(o.acks)
  BY <1>2 DEF SubOK
<1>11. /\ ready \cap gone = {} /\ o.unacked \cap (ready \cup gone) = {}
       /\ Messages = ready \cup gone \cup AllUnacked
  BY <1>2 DEF IInv, Placed
<1>12. Placed'
  <2>1. /\ ready' \cup gone' \cup s.unacked = ready \cup gone \cup o.unacked
        /\ ready' \cap gone' = {} /\ s.unacked \cap (ready' \cup gone') = {}
    BY <1>1, <1>4, <1>8, <1>9, <1>11
  <2> QED
    BY <1>2, <1>9, <2>1, PlacedMoves
<1>13. Paced'
  <2>1. /\ DOMAIN subs' = DOMAIN subs /\ subs'[i] = s
        /\ \A k \in DOMAIN subs : k # i => subs'[k] = subs[k]
    BY <1>9, ReplaceSub DEF IInv, TypeOK
  <2>2. SUFFICES ASSUME prefetch = 1, \A k \in DOMAIN subs : subs'[k].delivering,
                        NEW j \in DOMAIN subs, NEW n \in subs'[j].unacked,
                        NEW k \in Messages, k < n
                 PROVE  k \in gone
    BY <1>1, <2>1 DEF Paced, config
  <2>3. o.unacked = {}
    <3>1. Cardinality(o.unacked) < 1
      BY <1>2, <2>2 DEF BrokerDelivers, SubOK
    <3>2. IsFiniteSet(o.unacked)
      <4>1. IsFiniteSet(1 .. N)
        BY FS_Interval
      <4>2. o.unacked \in SUBSET (1 .. N)
        BY DEF Subscription, Messages
      <4> QED
        BY <4>1, <4>2, FS_Subset
    <3>3. Cardinality(o.unacked) \in Nat
      BY <3>2, FS_CardinalityType
    <3>4. Cardinality(o.unacked) = 0
      BY <3>1, <3>3
    <3> QED
      BY <3>2, <3>4, FS_EmptySet
  <2>4. \A l \in DOMAIN subs : subs[l].unacked = {}
    BY <1>2, <1>3, <2>1, <2>2, <2>3
  <2>5. Messages = ready \cup gone
    BY <1>11, <2>4 DEF AllUnacked
  <2>6. n = m
    BY <1>8, <2>1, <2>2, <2>3, <2>4
  <2>7. k \notin ready
    <3>1. k \in Nat /\ m \in Nat
      BY DEF Messages
    <3> QED
      BY <1>4, <2>2, <2>6, <3>1
  <2> QED
    BY <2>5, <2>7
<1>14. SubOK(s, Hand(i))
  <2>1. m \notin o.unacked
    BY <1>4, <1>11
  <2>2. s.unacked = Elems(s.deliveries) \cup Hand(i) \cup Answered(s.acks)
    BY <1>6, <1>8, <1>10
  <2>3. /\ Elems(s.deliveries) \cap Answered(s.acks) = {}
        /\ Elems(s.deliveries) \cap Hand(i) = {}
    BY <1>6, <1>8, <1>10, <2>1
  <2>4. Distinct(s.deliveries)
    BY <1>6, <1>8, <1>10, <2>1
  <2> QED
    BY <1>2, <1>8, <1>10, <2>2, <2>3, <2>4 DEF SubOK
<1>15. /\ faults' \in 0 .. MaxFaults /\ ready' \subseteq Messages /\ gone' \subseteq Messages
  BY <1>1, <1>9 DEF IInv, TypeOK
<1>16. s.open /\ pc # "return"
  BY <1>2, <1>3, <1>8
<1> QED
  BY <1>1, <1>2, <1>3, <1>8, <1>9, <1>12, <1>13, <1>14, <1>15, <1>16, SubKeeps

-----------------------------------------------------------------------------
(* The end of a broker or of a process.                                    *)

\* Everything that was with a subscription is back in the queue.
LEMMA AllBack ==
  ASSUME IInv, ready' = ready \cup AllUnacked, UNCHANGED gone,
         \A k \in DOMAIN subs' : subs'[k].unacked = {}
  PROVE  /\ ready' \subseteq Messages
         /\ Placed' /\ Paced'
         /\ \A k \in DOMAIN subs : SubOK(subs[k], Hand(k)) /\ subs[k].unacked \subseteq ready'
<1>1. AllUnacked' = {}
  BY DEF AllUnacked
<1>2. AllUnacked \cap gone = {} /\ Messages = ready \cup gone \cup AllUnacked /\ ready \cap gone = {}
  BY DEF IInv, Placed, AllUnacked
<1>3. Placed'
  BY <1>1, <1>2 DEF Placed
<1>4. Paced'
  BY DEF Paced
<1>5. \A k \in DOMAIN subs : subs[k].unacked \subseteq ready'
  BY DEF AllUnacked
<1> QED
  BY <1>2, <1>3, <1>4, <1>5, SubIs

LEMMA BrokerDownKeeps ==
  ASSUME IInv, BrokerDown
  PROVE  IInv'
<1>1. /\ UNCHANGED <<config, gone, consumer, stops, history>>
      /\ up' = FALSE /\ ready' = ready \cup AllUnacked /\ faults' \in 0 .. MaxFaults
  BY FaultCounted DEF BrokerDown
<1>2. subs' = [k \in DOMAIN subs |-> Disconnected(subs[k])] /\ subs \in Seq(Subscription)
  BY DEF BrokerDown, IInv, TypeOK
<1>3. ASSUME NEW o \in Subscription
      PROVE  /\ Disconnected(o) \in Subscription /\ ~Disconnected(o).open
             /\ Disconnected(o).unacked = {} /\ Disconnected(o).acks = << >>
             /\ Disconnected(o).stop = o.stop /\ Disconnected(o).prefetch = o.prefetch
             /\ Disconnected(o).deliveries = o.deliveries
  BY NoneIsTyped DEF Subscription, Disconnected, Lost
<1>4. /\ subs' \in Seq(Subscription) /\ DOMAIN subs' = DOMAIN subs /\ Len(subs') = Len(subs)
      /\ \A k \in DOMAIN subs : subs[k] \in Subscription /\ subs'[k] = Disconnected(subs[k])
  BY <1>2, <1>3
<1>5. \A k \in DOMAIN subs :
        /\ ~subs'[k].open /\ subs'[k].unacked = {} /\ subs'[k].acks = << >>
        /\ subs'[k].stop = subs[k].stop /\ subs'[k].prefetch = subs[k].prefetch
        /\ subs'[k].deliveries = subs[k].deliveries
  BY <1>3, <1>4
<1>6. /\ ready' \subseteq Messages /\ Placed' /\ Paced'
      /\ \A k \in DOMAIN subs : SubOK(subs[k], Hand(k)) /\ subs[k].unacked \subseteq ready'
  BY <1>1, <1>4, <1>5, AllBack
<1>7. TypeOK'
  BY <1>1, <1>4, <1>6 DEF IInv, TypeOK, config, consumer, stops, history
<1>8. \A k \in DOMAIN subs' : SubOK(subs[k], Hand(k))'
  BY <1>1, <1>4, <1>5, <1>6 DEF SubOK, config
<1>9. cur' = cur /\ UNCHANGED <<pc, msg>> /\ InHand' = InHand
  BY <1>1, <1>4 DEF cur, consumer, InHand
<1>10. Latest'
  <2>1. subs # << >> => cur \in DOMAIN subs /\ subs' # << >>
    BY <1>2, <1>4, Current
  <2>2. \A k \in DOMAIN subs' : subs'[k].stop <=> (k # cur \/ pc \in {"loop", "dial", "ended"})
    BY <1>4, <1>5 DEF IInv, Latest
  <2>3. ASSUME pc \in {"next", "handle", "settle"}
        PROVE  Elems(subs[cur].deliveries) \cup InHand \subseteq ready'
    <3>1. cur \in DOMAIN subs
      BY <2>1, <2>3 DEF IInv, Latest
    <3>2. CASE subs[cur].open
      <4>1. Elems(subs[cur].deliveries) \cup InHand \subseteq subs[cur].unacked
        BY <1>6, <3>1, <3>2 DEF SubOK, Hand
      <4> QED
        BY <1>6, <3>1, <4>1
    <3>3. CASE ~subs[cur].open
      BY <1>1, <2>3, <3>3 DEF IInv, Latest
    <3> QED
      BY <3>2, <3>3
  <2>4. pc \in {"next", "handle", "settle", "return"} => subs # << >>
    BY DEF IInv, Latest
  <2> QED
    BY <1>4, <1>5, <1>9, <2>1, <2>2, <2>3, <2>4 DEF Latest
<1>11. Judged'
  BY <1>1 DEF IInv, Judged, consumer, history
<1> QED
  BY <1>6, <1>7, <1>8, <1>10, <1>11 DEF IInv

LEMMA CrashKeeps ==
  ASSUME IInv, Crash
  PROVE  IInv'
<1>1. /\ UNCHANGED <<config, gone, up, history>>
      /\ ready' = ready \cup AllUnacked /\ faults' \in 0 .. MaxFaults
      /\ subs' = << >> /\ pc' = "loop" /\ msg' = 0 /\ verdict' = "none" /\ err' = "none"
      /\ result' = "none" /\ ctxDone' = FALSE /\ closed' = FALSE
  BY FaultCounted DEF Crash
<1>2. DOMAIN subs' = {} /\ subs' \in Seq(Subscription)
  BY <1>1
<1>3. ready' \subseteq Messages /\ Placed' /\ Paced'
  BY <1>1, <1>2, AllBack
<1>4. TypeOK'
  BY <1>1, <1>2, <1>3 DEF IInv, TypeOK, config, history
<1>5. Latest' /\ Judged'
  BY <1>1, <1>2 DEF Latest, Judged
<1> QED
  BY <1>2, <1>3, <1>4, <1>5 DEF IInv

-----------------------------------------------------------------------------
(* The theorems.                                                           *)

LEMMA InitInv == Init => IInv
<1> SUFFICES ASSUME Init PROVE IInv
  OBVIOUS
<1>1. DOMAIN subs = {} /\ subs \in Seq(Subscription)
  BY DEF Init
<1>2. TypeOK
  <2>1. 0 \in 0 .. MaxRejects /\ 0 \in 0 .. MaxFaults
    OBVIOUS
  <2>2. rejects = 0 /\ faults = 0
    BY DEF Init
  <2> QED
    BY <1>1, <2>1, <2>2 DEF Init, TypeOK
<1>3. Placed /\ Latest /\ Judged /\ Paced
  BY <1>1 DEF Init, Placed, Latest, Judged, Paced, AllUnacked
<1> QED
  BY <1>1, <1>2, <1>3 DEF IInv

LEMMA StutterKeeps ==
  ASSUME IInv, UNCHANGED vars
  PROVE  IInv'
<1>1. UNCHANGED <<prefetch, dropOnError, ready, gone, up, subs, pc, msg, verdict, err, result,
                  ctxDone, closed, accepted, dropped, rejects, faults>>
  BY DEF vars, config, broker, consumer, stops, history
<1>2. TypeOK'
  BY <1>1, ZenonT(60) DEF IInv, TypeOK
<1>3. Latest' /\ Judged' /\ InHand' = InHand
  BY <1>1 DEF IInv, Latest, Judged, InHand, cur
<1> QED
  BY <1>1, <1>2, <1>3, QuietKeeps

LEMMA NextKeeps == IInv /\ [Next]_vars => IInv'
<1> SUFFICES ASSUME IInv, [Next]_vars PROVE IInv'
  OBVIOUS
<1>1. CASE ConsumeStep
  BY <1>1, LoopKeeps, DialKeeps, NextDeliveryKeeps, ProcessKeeps, SettleKeeps, ReturnKeeps
  DEF ConsumeStep
<1>2. ASSUME NEW i \in DOMAIN subs,
             Watchdog(i) \/ BrokerStep(i) \/ ChannelClosed(i) \/ SubscriptionCanceled(i)
      PROVE  IInv'
  BY <1>2, WatchdogKeeps, BrokerDeliversKeeps, BrokerSettlesKeeps, ChannelClosedKeeps,
     CanceledKeeps DEF BrokerStep
<1>3. CASE BrokerDown \/ BrokerUp \/ Cancel \/ Close \/ Crash
  BY <1>3, BrokerDownKeeps, StopsKeep, CrashKeeps
<1>4. CASE Resting \/ UNCHANGED vars
  BY <1>4, StutterKeeps DEF Resting
<1> QED
  BY <1>1, <1>2, <1>3, <1>4 DEF Next

\* The invariant the other theorems rest on: it types every variable, gives every
\* message one place, and says of each subscription of Consume which messages are
\* on its channel in either direction.
THEOREM Invariance == Spec => []IInv
  BY InitInv, NextKeeps, PTL DEF Spec

\* A queue is never stuck behind a subscription that Consume has left: what the
\* broker still waits for there was answered, and the answers are on their way.
THEOREM StrandedCorrect == Spec => []NothingStranded
<1>1. ASSUME IInv PROVE NothingStranded
  <2>1. ASSUME NEW i \in DOMAIN subs, subs[i].stop, subs[i].open
        PROVE  /\ ~subs[i].delivering
               /\ subs[i].unacked = {subs[i].acks[j][1] : j \in DOMAIN subs[i].acks}
    <3>1. Hand(i) = {}
      BY <1>1, <2>1 DEF IInv, Latest, Hand, InHand
    <3>2. ~subs[i].delivering /\ subs[i].unacked = Answered(subs[i].acks)
      BY <1>1, <2>1, <3>1, SubIs, EmptyElems DEF SubOK
    <3> QED
      BY <3>2 DEF Answered
  <2>2. TypeOK
    BY <1>1 DEF IInv
  <2> QED
    BY <2>1, <2>2 DEF NothingStranded
<1>2. IInv => NothingStranded
  BY <1>1
<1> QED
  BY <1>2, Invariance, PTL

\* What lets go of a message: the broker waited for it, and it was accepted,
\* given up, or no event.
LEMMA GoneSteps ==
  ASSUME IInv, [Next]_vars
  PROVE  \/ UNCHANGED gone
         \/ /\ UNCHANGED <<accepted, dropped>> /\ gone \subseteq gone'
            /\ \A m \in gone' \ gone : /\ m \in accepted \cup dropped \cup Junk
                                       /\ \E i \in DOMAIN subs : m \in subs[i].unacked
<1>1. ASSUME NEW i \in DOMAIN subs, CloseSubscription(i), UNCHANGED history
      PROVE  /\ UNCHANGED <<accepted, dropped>> /\ gone \subseteq gone'
             /\ \A m \in gone' \ gone : /\ m \in accepted \cup dropped \cup Junk
                                        /\ \E k \in DOMAIN subs : m \in subs[k].unacked
  <2>1. gone' = gone \cup Taken(subs[i], {"ack", "drop"})
    BY <1>1 DEF CloseSubscription
  <2>2. ASSUME NEW m \in Taken(subs[i], {"ack", "drop"})
        PROVE  m \in accepted \cup dropped \cup Junk /\ m \in subs[i].unacked
    <3>1. PICK j \in 1 .. Len(subs[i].acks) : subs[i].acks[j] \in {m} \X {"ack", "drop"}
      BY <2>2 DEF Taken
    <3>2. j \in DOMAIN subs[i].acks
      BY SubIs DEF Subscription
    <3>3. Earned(subs[i].acks[j])
      BY <3>2, SubIs DEF SubOK
    <3> QED
      BY <2>2, <3>1, <3>3 DEF Earned, Taken
  <2> QED
    BY <1>1, <2>1, <2>2 DEF history
<1>2. ASSUME NEW i \in DOMAIN subs, BrokerSettles(i)
      PROVE  \/ UNCHANGED gone
             \/ /\ UNCHANGED <<accepted, dropped>> /\ gone \subseteq gone'
                /\ \A m \in gone' \ gone : /\ m \in accepted \cup dropped \cup Junk
                                           /\ \E k \in DOMAIN subs : m \in subs[k].unacked
  <2>1. PICK o \in Subscription : o = subs[i] /\ SubOK(o, Hand(i)) /\ o.acks # << >>
    BY <1>2, SubIs DEF BrokerSettles
  <2>2. /\ o.open /\ o.acks \in Seq(Messages \X {"ack", "drop", "requeue"})
        /\ \A j \in DOMAIN o.acks : Earned(o.acks[j])
    BY <2>1 DEF SubOK, Subscription
  <2>3. /\ 1 \in DOMAIN o.acks /\ Head(o.acks) = o.acks[1]
        /\ Head(o.acks) \in Messages \X {"ack", "drop", "requeue"}
        /\ Head(o.acks)[1] \in Answered(o.acks)
    BY <2>1, <2>2, TailOf, TailAnswers
  <2>4. Earned(Head(o.acks)) /\ Head(o.acks)[1] \in o.unacked
    BY <2>1, <2>2, <2>3 DEF SubOK
  <2>5. CASE Head(o.acks)[2] = "requeue"
    BY <1>2, <2>1, <2>5 DEF BrokerSettles
  <2>6. CASE Head(o.acks)[2] # "requeue"
    <3>1. Head(o.acks)[2] \in {"ack", "drop"}
      BY <2>3, <2>6
    <3>2. gone' = gone \cup {Head(o.acks)[1]} /\ UNCHANGED history
      BY <1>2, <2>1, <2>6 DEF BrokerSettles
    <3>3. Head(o.acks)[1] \in accepted \cup dropped \cup Junk
      BY <2>4, <3>1 DEF Earned
    <3> QED
      BY <2>1, <2>4, <3>2, <3>3 DEF history
  <2> QED
    BY <2>5, <2>6
<1>3. CASE ConsumeStep
  BY <1>3 DEF ConsumeStep, Loop, Dial, NextDelivery, DeliveriesClosed, ProcessMessage,
              SettleWritten, SettleFails, ConsumeReturns, broker
<1>4. ASSUME NEW i \in DOMAIN subs, Watchdog(i)
      PROVE  (CloseSubscription(i) /\ UNCHANGED history) \/ UNCHANGED gone
  BY <1>4 DEF Watchdog
<1>5. ASSUME NEW i \in DOMAIN subs,
             BrokerDelivers(i) \/ ChannelClosed(i) \/ SubscriptionCanceled(i)
      PROVE  UNCHANGED gone
  BY <1>5 DEF BrokerDelivers, ChannelClosed, SubscriptionCanceled, broker
<1>6. CASE BrokerDown \/ BrokerUp \/ Cancel \/ Close \/ Crash \/ Resting \/ UNCHANGED vars
  BY <1>6 DEF BrokerDown, BrokerUp, Cancel, Close, Crash, Resting, vars, broker
<1> QED
  BY <1>1, <1>2, <1>3, <1>4, <1>5, <1>6 DEF Next, BrokerStep

\* With a prefetch of one the messages leave the queue in its order.
THEOREM OrderCorrect == Spec => GoneInOrder
<1>1. ASSUME IInv, [Next]_vars, NEW m \in gone' \ gone,
             prefetch = 1, \A i \in DOMAIN subs : subs[i].delivering
      PROVE  1 .. m \subseteq gone'
  <2>1. gone \subseteq gone'
    BY <1>1, GoneSteps
  <2>2. PICK i \in DOMAIN subs : m \in subs[i].unacked
    BY <1>1, GoneSteps
  <2>3. \A k \in Messages : k < m => k \in gone
    BY <1>1, <2>2 DEF IInv, Paced
  <2>4. m \in 1 .. N
    BY <1>1, <2>2, SubIs DEF Subscription, Messages
  <2>5. ASSUME NEW k \in 1 .. m PROVE k \in gone'
    <3>1. k \in 1 .. N /\ (k = m \/ k < m)
      BY <2>4
    <3> QED
      BY <1>1, <2>1, <2>3, <3>1 DEF Messages
  <2> QED
    BY <2>5
<1>2. IInv /\ [Next]_vars =>
        [\A m \in gone' \ gone :
           prefetch = 1 /\ (\A i \in DOMAIN subs : subs[i].delivering)
             => 1 .. m \subseteq gone']_vars
  BY <1>1
<1> QED
  BY <1>2, Invariance, PTL DEF Spec, GoneInOrder

-----------------------------------------------------------------------------
(* The consumer implements Redelivery.                                     *)

\* The message in hand is still kept.
LEMMA InHandIsKept ==
  ASSUME IInv, pc \in {"handle", "settle"}
  PROVE  msg \in Messages \ gone
<1>1. cur \in DOMAIN subs /\ SubOK(subs[cur], {msg})
  BY CurrentOK DEF InHand
<1>2. CASE subs[cur].open
  <2>1. msg \in subs[cur].unacked
    BY <1>1, <1>2 DEF SubOK
  <2> QED
    BY <1>1, <2>1 DEF IInv, Placed, TypeOK
<1>3. CASE ~subs[cur].open
  <2>1. msg \in ready
    BY <1>3 DEF IInv, Latest, InHand
  <2> QED
    BY <2>1 DEF IInv, Placed, TypeOK
<1> QED
  BY <1>2, <1>3

\* What the handler is given credit for.
LEMMA AcceptSteps ==
  ASSUME IInv, [Next]_vars
  PROVE  \/ UNCHANGED <<accepted, dropped>>
         \/ /\ UNCHANGED gone
            /\ \E m \in (Messages \ gone) \ Junk :
                 accepted' \cup dropped' = (accepted \cup dropped) \cup {m}
<1>1. CASE ProcessMessage
  <2>1. /\ pc = "handle" /\ UNCHANGED <<gone, dropped>>
        /\ accepted' = IF verdict' = "ack" THEN accepted \cup ({msg} \ Junk) ELSE accepted
    BY <1>1 DEF ProcessMessage, broker
  <2>2. msg \in Messages \ gone
    BY <2>1, InHandIsKept
  <2> QED
    BY <2>1, <2>2
<1>2. CASE SettleWritten
  <2>1. /\ pc = "settle" /\ UNCHANGED <<gone, accepted>>
        /\ dropped' = IF verdict = "retry" /\ dropOnError THEN dropped \cup {msg} ELSE dropped
    BY <1>2 DEF SettleWritten, broker
  <2>2. msg \in Messages \ gone /\ (verdict = "retry" => msg \notin Junk)
    BY <2>1, InHandIsKept DEF IInv, Judged
  <2> QED
    BY <2>1, <2>2
<1>3. CASE Loop \/ Dial \/ NextDelivery \/ DeliveriesClosed \/ SettleFails \/ ConsumeReturns
  BY <1>3 DEF Loop, Dial, NextDelivery, DeliveriesClosed, SettleFails, ConsumeReturns, history
<1>4. ASSUME NEW i \in DOMAIN subs,
             \/ Watchdog(i) \/ BrokerDelivers(i) \/ BrokerSettles(i)
             \/ ChannelClosed(i) \/ SubscriptionCanceled(i)
      PROVE  UNCHANGED <<accepted, dropped>>
  BY <1>4 DEF Watchdog, BrokerDelivers, BrokerSettles, ChannelClosed, SubscriptionCanceled,
              history
<1>5. CASE BrokerDown \/ BrokerUp \/ Cancel \/ Close \/ Crash \/ Resting \/ UNCHANGED vars
  BY <1>5 DEF BrokerDown, BrokerUp, Cancel, Close, Crash, Resting, vars, history
<1> QED
  BY <1>1, <1>2, <1>3, <1>4, <1>5 DEF Next, ConsumeStep, BrokerStep

\* No crash, lost channel or lost acknowledgement makes the queue forget an
\* event that the handler has neither accepted nor given up: a verdict is
\* Accept, an acknowledgement the broker takes is Remove, and everything else
\* leaves what Redelivery sees as it is.
THEOREM RedeliveryCorrect == Spec => RedeliverySpec
<1> DEFINE keptBar == Messages \ gone
           acceptedBar == accepted \cup dropped
<1>1. Init => Contract!Init
  BY DEF Init, Contract!Init
<1>2. ASSUME IInv, [Next]_vars
      PROVE  Contract!Accept \/ Contract!Remove \/ UNCHANGED <<keptBar, acceptedBar>>
  <2>1. CASE UNCHANGED gone /\ UNCHANGED <<accepted, dropped>>
    BY <2>1
  <2>2. CASE UNCHANGED gone /\ ~UNCHANGED <<accepted, dropped>>
    <3>1. PICK m \in (Messages \ gone) \ Junk :
            accepted' \cup dropped' = (accepted \cup dropped) \cup {m}
      BY <1>2, <2>2, AcceptSteps
    <3> QED
      BY <2>2, <3>1 DEF Contract!Accept
  <2>3. CASE ~UNCHANGED gone
    <3>1. /\ UNCHANGED <<accepted, dropped>> /\ gone \subseteq gone'
          /\ \A m \in gone' \ gone : m \in accepted \cup dropped \cup Junk
      BY <1>2, <2>3, GoneSteps
    <3>2. gone' \subseteq Messages
      BY <1>2, NextKeeps DEF IInv, TypeOK
    <3> DEFINE S == gone' \ gone
    <3>3. S \in SUBSET ((Messages \ gone) \cap ((accepted \cup dropped) \cup Junk))
      BY <3>1, <3>2
    <3>4. Messages \ gone' = (Messages \ gone) \ S
      BY <3>1
    <3> HIDE DEF S
    <3> QED
      BY <3>1, <3>3, <3>4 DEF Contract!Remove
  <2> QED
    BY <2>1, <2>2, <2>3
<1>3. IInv /\ [Next]_vars =>
        [Contract!Accept \/ Contract!Remove]_<<Messages \ gone, accepted \cup dropped>>
  BY <1>2
<1> QED
  BY <1>1, <1>3, Invariance, PTL DEF Spec, RedeliverySpec, Contract!Spec

=============================================================================
