---------------------- MODULE ReconnectingProducerProofs ----------------------
(* Theorems about ReconnectingProducer, for any senders and any number of  *)
(* sends and faults, in every environment.                                 *)
EXTENDS ReconnectingProducer, FiniteSetTheorems, TLAPS

USE ReconnectingAssumption DEF ReconnectingAssumption

\* What a goroutine that sends alone, and has the record r, can rely on.  With
\* one fault at most it reconnects once, and what it then publishes with works.
Lone(r) ==
  /\ r.pc # "panicked"
  /\ r.pc = "read again" => producer # 0
  /\ r.pc = "publish" => r.cli # 0
  /\ ~closed /\ faults <= 1 =>
       /\ producer # 0 /\ r.result # "failed"
       /\ faults = 0 => handles[producer] = "open"
       /\ r.pc = "read" => r.attempt = 1
       /\ r.pc = "reconnect" => faults = 1 /\ r.attempt = 2
       /\ r.pc = "read again" => r.attempt = 2
       /\ r.pc = "publish" => r.cli = producer
       /\ r.pc \in {"read again", "publish"} /\ r.attempt = 2 =>
            faults = 1 /\ handles[producer] = "open"

OthersReleased ==
  \A i \in DOMAIN handles : handles[i] # "released" => i = producer /\ ~closed

\* OnlyTheCurrentIsOpen is inductive; what a lone sender can rely on follows from
\* where it is, and from that nobody else has begun.
IInv ==
  /\ TypeOK
  /\ IsFiniteSet(Sent)
  /\ OthersReleased
  /\ \A s \in Senders : senders[s].pc # "idle" => senders[s].sends # 0
  /\ \A s \in Senders : Alone(s) => Lone(senders[s])

-----------------------------------------------------------------------------
(* Types, and the sends that were counted.                                 *)

SenderRecord(n) ==
  [pc : {"idle", "read", "reconnect", "read again", "publish", "panicked"},
   sends : 0 .. MaxSends, cli : 0 .. n, attempt : {1, 2},
   result : {"none", "ok", "failed"}]

LEMMA SenderTypes ==
  ASSUME TypeOK
  PROVE  /\ senders \in [Senders -> SenderRecord(Len(handles))]
         /\ Len(handles) \in Nat /\ DOMAIN handles = 1 .. Len(handles)
         /\ \A s \in Senders : /\ senders[s] \in SenderRecord(Len(handles))
                               /\ senders[s].sends \in 0 .. MaxSends
                               /\ senders[s].cli \in 0 .. Len(handles)
                               /\ senders[s].attempt \in {1, 2}
<1>1. senders \in [Senders -> SenderRecord(Len(handles))] /\ handles \in Seq(HandleStates)
  BY DEF TypeOK, SenderRecord
<1>2. \A s \in Senders : senders[s] \in SenderRecord(Len(handles))
  BY <1>1
<1>3. ASSUME NEW r \in SenderRecord(Len(handles))
      PROVE  /\ r.sends \in 0 .. MaxSends /\ r.cli \in 0 .. Len(handles)
             /\ r.attempt \in {1, 2}
  BY DEF SenderRecord
<1> QED
  BY <1>1, <1>2, <1>3

\* Sent depends on the calls of Send alone.
LEMMA SameSent ==
  ASSUME \A s \in Senders : senders'[s].sends = senders[s].sends
  PROVE  Sent' = Sent
  BY DEF Sent, Message

\* A goroutine's sends are among those that were counted.
LEMMA SendsCounted ==
  ASSUME TypeOK, IsFiniteSet(Sent), NEW s \in Senders
  PROVE  senders[s].sends <= Cardinality(Sent)
<1> DEFINE n == senders[s].sends
           T == {m \in Sent : m[1] = s}
           f == [m \in T |-> m[2]]
<1>1. n \in Nat /\ n <= MaxSends
  BY SenderTypes
<1>2. IsFiniteSet(T) /\ Cardinality(T) <= Cardinality(Sent)
  <2>1. T \subseteq Sent
    OBVIOUS
  <2> HIDE DEF T
  <2> QED
    BY <2>1, FS_Subset
<1>3. \A m \in T : m[2] \in 1 .. n
  BY <1>1 DEF Sent, Message
<1>4. \A i \in 1 .. n : <<s, i>> \in T
  <2> SUFFICES ASSUME NEW i \in 1 .. n PROVE <<s, i>> \in Sent
    OBVIOUS
  <2>1. i \in 1 .. MaxSends /\ i <= n
    BY <1>1
  <2> QED
    BY <2>1 DEF Sent, Message
<1>5. f \in [T -> 1 .. n] /\ \A i \in 1 .. n : \E m \in T : f[m] = i
  <2>1. \A i \in 1 .. n : <<s, i>> \in T /\ f[<<s, i>>] = i
    BY <1>4
  <2>2. f \in [T -> 1 .. n]
    BY <1>3
  <2> HIDE DEF f
  <2> QED
    BY <2>1, <2>2
<1>6. f \in Surjection(T, 1 .. n)
  BY <1>5 DEF Surjection
<1>7. Cardinality(1 .. n) <= Cardinality(T)
  <2> HIDE DEF f, T, n
  <2> QED
    BY <1>2, <1>6, FS_Surjection
<1>8. Cardinality(1 .. n) = n
  <2> HIDE DEF n
  <2> QED
    BY <1>1, FS_Interval
<1>9. Cardinality(T) \in Nat /\ Cardinality(Sent) \in Nat
  BY <1>2, FS_CardinalityType
<1> HIDE DEF T, n
<1> QED
  BY <1>1, <1>2, <1>7, <1>8, <1>9 DEF n

-----------------------------------------------------------------------------
(* What a step may do to the invariant.                                    *)

\* One goroutine that has begun a Send moves on, and maybe the handles with it.
LEMMA SenderKeeps ==
  ASSUME IInv, NEW o \in Senders, NEW r \in SenderRecord(Len(handles')),
         senders' = [senders EXCEPT ![o] = r], UNCHANGED closed,
         senders[o].sends <= r.sends, r.sends # 0,
         handles' \in Seq(HandleStates), Len(handles) <= Len(handles'),
         producer' \in 0 .. Len(handles'), stored' \in [Message -> Nat],
         faults' \in 0 .. MaxFaults, OthersReleased', IsFiniteSet(Sent'),
         Alone(o) => Lone(r)'
  PROVE  IInv'
<1>1. /\ senders \in [Senders -> SenderRecord(Len(handles))] /\ Len(handles) \in Nat
      /\ Len(handles') \in Nat /\ TypeOK
      /\ \A s \in Senders : /\ senders[s] \in SenderRecord(Len(handles))
                            /\ senders[s].sends \in 0 .. MaxSends
  BY SenderTypes DEF IInv
<1>2. \A s \in Senders : senders[s] \in SenderRecord(Len(handles'))
  <2>1. 0 .. Len(handles) \subseteq 0 .. Len(handles')
    BY <1>1
  <2> QED
    BY <1>1, <2>1 DEF SenderRecord
<1>3. /\ senders' \in [Senders -> SenderRecord(Len(handles'))]
      /\ senders'[o] = r /\ \A s \in Senders \ {o} : senders'[s] = senders[s]
  BY <1>1, <1>2
<1>4. TypeOK'
  BY <1>1, <1>3 DEF TypeOK, SenderRecord
<1>5. ASSUME NEW s \in Senders, senders'[s].pc # "idle"
      PROVE  senders'[s].sends # 0
  BY <1>3, <1>5 DEF IInv
<1>6. ASSUME NEW s \in Senders, Alone(s)'
      PROVE  Lone(senders[s])'
  <2>1. s = o
    BY <1>3, <1>6 DEF Alone
  <2>2. Alone(o)
    BY <1>3, <1>6, <2>1 DEF Alone
  <2> QED
    BY <1>3, <2>1, <2>2
<1> QED
  BY <1>4, <1>5, <1>6 DEF IInv

\* It moves on and nothing else does.
LEMMA QuietKeeps ==
  ASSUME IInv, NEW o \in Senders, NEW r \in SenderRecord(Len(handles)),
         senders' = [senders EXCEPT ![o] = r], UNCHANGED <<handles, producer, closed>>,
         stored' \in [Message -> Nat], faults' \in 0 .. MaxFaults,
         senders[o].pc # "idle", r.sends = senders[o].sends,
         Alone(o) => Lone(r)'
  PROVE  IInv'
<1>1. /\ senders \in [Senders -> SenderRecord(Len(handles))]
      /\ senders[o].sends \in 0 .. MaxSends /\ Len(handles) \in Nat
      /\ handles \in Seq(HandleStates) /\ producer \in 0 .. Len(handles)
  BY SenderTypes DEF IInv, TypeOK
<1>2. \A s \in Senders : senders'[s].sends = senders[s].sends
  BY <1>1
<1>3. OthersReleased' /\ IsFiniteSet(Sent')
  BY <1>2, SameSent DEF IInv, OthersReleased
<1>4. senders[o].sends <= r.sends /\ r.sends # 0
  BY <1>1 DEF IInv
<1>5. /\ handles' \in Seq(HandleStates) /\ Len(handles) <= Len(handles')
      /\ producer' \in 0 .. Len(handles') /\ r \in SenderRecord(Len(handles'))
  BY <1>1
<1> QED
  BY <1>3, <1>4, <1>5, SenderKeeps

-----------------------------------------------------------------------------
(* The steps of a goroutine.                                               *)

LEMMA SendKeeps ==
  ASSUME IInv, NEW s \in Senders, Send(s)
  PROVE  IInv'
<1> DEFINE m == <<s, senders[s].sends + 1>>
<1>1. /\ senders \in [Senders -> SenderRecord(Len(handles))] /\ Len(handles) \in Nat
      /\ senders[s] \in SenderRecord(Len(handles)) /\ senders[s].sends \in 0 .. MaxSends
      /\ senders[s].cli \in 0 .. Len(handles)
      /\ TypeOK /\ IsFiniteSet(Sent) /\ senders[s].pc = "idle"
      /\ UNCHANGED <<handles, producer, closed, stored, faults>>
  BY SenderTypes DEF IInv, Send
<1>2. senders[s].sends + 1 \in 1 .. MaxSends
  <2>1. senders[s].sends <= Cardinality(Sent) /\ Cardinality(Sent) \in Nat
    BY <1>1, SendsCounted, FS_CardinalityType
  <2>2. Cardinality(Sent) < MaxSends
    BY DEF Send
  <2> QED
    BY <1>1, <2>1, <2>2
<1>3. PICK r : r = [senders[s] EXCEPT !.pc = "read", !.sends = senders[s].sends + 1,
                                      !.attempt = 1, !.result = "none"]
  OBVIOUS
<1>4. r \in SenderRecord(Len(handles))
  <2>1. senders[s].sends + 1 \in 0 .. MaxSends
    BY <1>2
  <2> QED
    BY <1>1, <1>3, <2>1 DEF SenderRecord
<1>5. /\ r.pc = "read" /\ r.sends = senders[s].sends + 1 /\ r.attempt = 1
      /\ r.result = "none"
  BY <1>1, <1>3 DEF SenderRecord
<1>6. senders' = [senders EXCEPT ![s] = r]
  BY <1>1, <1>3 DEF Send
<1>7. senders'[s] = r /\ \A t \in Senders \ {s} : senders'[t] = senders[t]
  BY <1>1, <1>6
<1>8. Sent' = Sent \cup {m}
  <2>1. m \in Message
    BY <1>2 DEF Message
  <2>2. \A x \in Message : x[1] \in Senders /\ x[2] \in Nat /\ x = <<x[1], x[2]>>
    BY DEF Message
  <2>3. ASSUME NEW x \in Message PROVE x \in Sent' <=> x \in Sent \/ x = m
    <3>1. CASE x[1] # s
      BY <1>7, <2>2, <3>1 DEF Sent
    <3>2. CASE x[1] = s
      <4>1. x[2] <= senders[s].sends + 1
              <=> x[2] <= senders[s].sends \/ x[2] = senders[s].sends + 1
        BY <1>1, <2>2
      <4>2. x[2] = senders[s].sends + 1 <=> x = m
        BY <2>2, <3>2
      <4> QED
        BY <1>5, <1>7, <3>2, <4>1, <4>2 DEF Sent
    <3> QED
      BY <3>1, <3>2
  <2> QED
    BY <2>1, <2>3 DEF Sent
<1>9. IsFiniteSet(Sent')
  <2> HIDE DEF m
  <2> QED
    BY <1>1, <1>8, FS_AddElement
<1>10. Alone(s) => Lone(r)'
  <2>1. Alone(s) => Lone(senders[s])
    BY DEF IInv
  <2> QED
    BY <1>1, <1>5, <2>1 DEF Lone
<1>11. OthersReleased'
  BY <1>1 DEF IInv, OthersReleased
<1>12. /\ handles' \in Seq(HandleStates) /\ Len(handles) <= Len(handles')
       /\ producer' \in 0 .. Len(handles') /\ r \in SenderRecord(Len(handles'))
       /\ stored' \in [Message -> Nat] /\ faults' \in 0 .. MaxFaults
  <2>1. /\ handles \in Seq(HandleStates) /\ producer \in 0 .. Len(handles)
        /\ stored \in [Message -> Nat] /\ faults \in 0 .. MaxFaults
    BY <1>1 DEF TypeOK
  <2> QED
    BY <1>1, <1>4, <2>1
<1>13. senders[s].sends <= r.sends /\ r.sends # 0
  BY <1>1, <1>5
<1> QED
  BY <1>1, <1>6, <1>9, <1>10, <1>11, <1>12, <1>13, SenderKeeps

\* Where a sender is, with the types of what its steps change.
LEMMA SenderAt ==
  ASSUME IInv, NEW s \in Senders
  PROVE  /\ senders \in [Senders -> SenderRecord(Len(handles))] /\ Len(handles) \in Nat
         /\ senders[s] \in SenderRecord(Len(handles)) /\ senders[s].sends \in 0 .. MaxSends
         /\ senders[s].attempt \in {1, 2} /\ senders[s].cli \in 0 .. Len(handles)
         /\ producer \in 0 .. Len(handles) /\ stored \in [Message -> Nat]
         /\ faults \in 0 .. MaxFaults /\ handles \in Seq(HandleStates) /\ closed \in BOOLEAN
         /\ DOMAIN handles = 1 .. Len(handles)
         /\ Alone(s) => Lone(senders[s])
<1>1. TypeOK /\ (Alone(s) => Lone(senders[s]))
  BY DEF IInv
<1> QED
  BY <1>1, SenderTypes DEF TypeOK

\* A Send that returns.
LEMMA ReturnsAs ==
  ASSUME IInv, NEW s \in Senders, NEW result \in {"none", "ok", "failed"}, Returns(s, result)
  PROVE  \E r \in SenderRecord(Len(handles)) :
           /\ senders' = [senders EXCEPT ![s] = r]
           /\ r.pc = "idle" /\ r.sends = senders[s].sends /\ r.result = result
<1>1. PICK r : r = [senders[s] EXCEPT !.pc = "idle", !.cli = 0, !.result = result]
  OBVIOUS
<1>2. /\ senders \in [Senders -> SenderRecord(Len(handles))]
      /\ senders[s] \in SenderRecord(Len(handles)) /\ 0 \in 0 .. Len(handles)
  BY SenderAt
<1>3. r \in SenderRecord(Len(handles))
  BY <1>1, <1>2 DEF SenderRecord
<1>4. r.pc = "idle" /\ r.sends = senders[s].sends /\ r.result = result
  BY <1>1, <1>2 DEF SenderRecord
<1>5. senders' = [senders EXCEPT ![s] = r]
  BY <1>1, <1>2 DEF Returns
<1> QED
  BY <1>3, <1>4, <1>5

LEMMA ReadKeeps ==
  ASSUME IInv, NEW s \in Senders, Read(s) \/ ReadAgain(s)
  PROVE  IInv'
<1>1. /\ senders \in [Senders -> SenderRecord(Len(handles))]
      /\ senders[s] \in SenderRecord(Len(handles)) /\ senders[s].attempt \in {1, 2}
      /\ producer \in 0 .. Len(handles) /\ (Alone(s) => Lone(senders[s]))
      /\ UNCHANGED <<handles, producer, closed, stored, faults>>
      /\ stored' \in [Message -> Nat] /\ faults' \in 0 .. MaxFaults
      /\ senders[s].pc \in {"read", "read again"}
  BY SenderAt DEF Read, ReadAgain
<1>2. CASE closed /\ Returns(s, "failed")
  <2>1. PICK r \in SenderRecord(Len(handles)) :
          /\ senders' = [senders EXCEPT ![s] = r]
          /\ r.pc = "idle" /\ r.sends = senders[s].sends /\ r.result = "failed"
    BY <1>2, ReturnsAs
  <2>2. Alone(s) => Lone(r)'
    BY <1>1, <1>2, <2>1 DEF Lone
  <2> QED
    BY <1>1, <2>1, <2>2, QuietKeeps
<1>3. CASE /\ senders[s].pc = "read" /\ ~closed /\ producer = 0
           /\ senders' = [senders EXCEPT ![s].pc = "reconnect"]
  <2>1. PICK r : r = [senders[s] EXCEPT !.pc = "reconnect"]
    OBVIOUS
  <2>2. /\ r \in SenderRecord(Len(handles)) /\ r.pc = "reconnect"
        /\ r.sends = senders[s].sends /\ r.result = senders[s].result
    BY <1>1, <2>1 DEF SenderRecord
  <2>3. senders' = [senders EXCEPT ![s] = r]
    BY <1>1, <1>3, <2>1
  <2>4. Alone(s) => Lone(r)'
    BY <1>1, <1>3, <2>2 DEF Lone
  <2> QED
    BY <1>1, <2>2, <2>3, <2>4, QuietKeeps
<1>4. CASE /\ senders[s].pc = "read" => ~closed /\ producer # 0
           /\ senders' = [senders EXCEPT ![s].pc = "publish", ![s].cli = producer]
  <2>1. PICK r : r = [senders[s] EXCEPT !.pc = "publish", !.cli = producer]
    OBVIOUS
  <2>2. /\ r \in SenderRecord(Len(handles)) /\ r.pc = "publish" /\ r.cli = producer
        /\ r.sends = senders[s].sends /\ r.result = senders[s].result
        /\ r.attempt = senders[s].attempt
    BY <1>1, <2>1 DEF SenderRecord
  <2>3. senders' = [senders EXCEPT ![s] = r]
    BY <1>1, <1>4, <2>1
  <2>4. Alone(s) => Lone(r)'
    <3>1. CASE senders[s].pc = "read"
      BY <1>1, <1>4, <2>2, <3>1 DEF Lone
    <3>2. CASE senders[s].pc = "read again"
      BY <1>1, <1>4, <2>2, <3>2 DEF Lone
    <3> QED
      BY <1>1, <3>1, <3>2
  <2> QED
    BY <1>1, <2>2, <2>3, <2>4, QuietKeeps
<1> QED
  BY <1>2, <1>3, <1>4 DEF Read, ReadAgain

LEMMA StoreTyped ==
  ASSUME IInv, NEW s \in Senders, Store(s) \/ UNCHANGED stored
  PROVE  stored' \in [Message -> Nat]
<1>1. stored \in [Message -> Nat]
  BY SenderAt
<1> QED
  BY <1>1 DEF Store

LEMMA PublishKeeps ==
  ASSUME IInv, NEW s \in Senders, Publish(s) \/ PublishFails(s) \/ PublishPanics(s)
  PROVE  IInv'
<1>1. /\ senders \in [Senders -> SenderRecord(Len(handles))]
      /\ senders[s] \in SenderRecord(Len(handles)) /\ senders[s].attempt \in {1, 2}
      /\ faults \in 0 .. MaxFaults /\ (Alone(s) => Lone(senders[s]))
      /\ UNCHANGED <<handles, producer, closed>> /\ stored' \in [Message -> Nat]
      /\ senders[s].pc = "publish"
  BY SenderAt, StoreTyped DEF Publish, PublishFails, PublishPanics
<1>2. CASE Publish(s)
  <2>1. PICK r \in SenderRecord(Len(handles)) :
          /\ senders' = [senders EXCEPT ![s] = r]
          /\ r.pc = "idle" /\ r.sends = senders[s].sends /\ r.result = "ok"
    BY <1>2, ReturnsAs DEF Publish
  <2>2. faults' = faults
    BY <1>2 DEF Publish
  <2>3. Alone(s) => Lone(r)'
    BY <1>1, <2>1, <2>2 DEF Lone
  <2> QED
    BY <1>1, <2>1, <2>2, <2>3, QuietKeeps
<1>3. CASE PublishFails(s)
  <2>1. /\ senders[s].cli # 0 /\ faults' \in 0 .. MaxFaults
        /\ \/ handles[senders[s].cli] = "open" /\ faults' = faults + 1
           \/ handles[senders[s].cli] # "open" /\ faults' = faults
    BY <1>1, <1>3 DEF PublishFails, Fault
  <2>2. ASSUME Alone(s), ~closed, faults' <= 1
        PROVE  senders[s].attempt = 1 /\ faults' = 1
    <3>1. faults <= 1
      BY <1>1, <2>1, <2>2
    <3>2. Lone(senders[s]) /\ senders[s].cli = producer
      BY <1>1, <2>2, <3>1 DEF Lone
    <3>3. CASE faults = 0
      <4>1. senders[s].attempt = 1 /\ handles[senders[s].cli] = "open"
        BY <1>1, <2>2, <3>2, <3>3 DEF Lone
      <4> QED
        BY <2>1, <3>3, <4>1
    <3>4. CASE faults = 1
      <4>1. handles[senders[s].cli] # "open" /\ faults' = faults
        BY <2>1, <2>2, <3>4
      <4>2. senders[s].attempt = 1
        BY <1>1, <2>2, <3>1, <3>2, <4>1 DEF Lone
      <4> QED
        BY <3>4, <4>1, <4>2
    <3> QED
      BY <1>1, <3>1, <3>3, <3>4
  <2>3. CASE senders[s].attempt = 1
    <3>1. PICK r : r = [senders[s] EXCEPT !.pc = "reconnect", !.attempt = 2]
      OBVIOUS
    <3>2. /\ r \in SenderRecord(Len(handles)) /\ r.pc = "reconnect" /\ r.attempt = 2
          /\ r.sends = senders[s].sends /\ r.result = senders[s].result
      BY <1>1, <3>1 DEF SenderRecord
    <3>3. senders' = [senders EXCEPT ![s] = r]
      BY <1>1, <1>3, <2>3, <3>1 DEF PublishFails
    <3>4. Alone(s) => Lone(r)'
      <4>1. faults' <= 1 => faults <= 1
        BY <1>1, <2>1
      <4> QED
        BY <1>1, <2>2, <3>2, <4>1 DEF Lone
    <3> QED
      BY <1>1, <2>1, <3>2, <3>3, <3>4, QuietKeeps
  <2>4. CASE senders[s].attempt = 2
    <3>1. PICK r \in SenderRecord(Len(handles)) :
            /\ senders' = [senders EXCEPT ![s] = r]
            /\ r.pc = "idle" /\ r.sends = senders[s].sends /\ r.result = "failed"
      BY <1>3, <2>4, ReturnsAs DEF PublishFails
    <3>2. Alone(s) => Lone(r)'
      BY <1>1, <2>2, <2>4, <3>1 DEF Lone
    <3> QED
      BY <1>1, <2>1, <3>1, <3>2, QuietKeeps
  <2> QED
    BY <1>1, <2>3, <2>4
<1>4. CASE PublishPanics(s)
  <2>1. PICK r : r = [senders[s] EXCEPT !.pc = "panicked"]
    OBVIOUS
  <2>2. r \in SenderRecord(Len(handles)) /\ r.sends = senders[s].sends
    BY <1>1, <2>1 DEF SenderRecord
  <2>3. senders' = [senders EXCEPT ![s] = r] /\ faults' = faults
    BY <1>1, <1>4, <2>1 DEF PublishPanics
  <2>4. ~Alone(s)
    BY <1>1, <1>4 DEF PublishPanics, Lone
  <2> QED
    BY <1>1, <2>2, <2>3, <2>4, QuietKeeps
<1> QED
  BY <1>2, <1>3, <1>4

\* The lock is held while the old handle is released: nothing is open then.
LEMMA ReleasedAll ==
  ASSUME IInv
  PROVE  /\ Released \in Seq(HandleStates) /\ Len(Released) = Len(handles)
         /\ DOMAIN Released = DOMAIN handles
         /\ \A i \in DOMAIN handles : Released[i] = "released"
<1>1. handles \in Seq(HandleStates) /\ OthersReleased
  BY DEF IInv, TypeOK
<1>2. \A i \in DOMAIN handles : Released[i] = "released"
  BY <1>1 DEF Released, OthersReleased
<1>3. Len(handles) \in Nat /\ DOMAIN handles = 1 .. Len(handles)
  BY <1>1
<1>4. Released \in [1 .. Len(handles) -> HandleStates]
  BY <1>2, <1>3 DEF Released, HandleStates
<1>5. Released \in Seq(HandleStates) /\ Len(Released) = Len(handles)
  BY <1>3, <1>4
<1> QED
  BY <1>2, <1>5 DEF Released

LEMMA ReconnectKeeps ==
  ASSUME IInv, NEW s \in Senders, Reconnect(s)
  PROVE  IInv'
<1>1. /\ senders \in [Senders -> SenderRecord(Len(handles))] /\ Len(handles) \in Nat
      /\ senders[s] \in SenderRecord(Len(handles)) /\ senders[s].sends \in 0 .. MaxSends
      /\ faults \in 0 .. MaxFaults /\ (Alone(s) => Lone(senders[s]))
      /\ UNCHANGED <<closed, stored>> /\ stored' \in [Message -> Nat]
      /\ DOMAIN handles = 1 .. Len(handles)
      /\ senders[s].pc = "reconnect"
  BY SenderAt DEF Reconnect
<1>2. senders[s].sends # 0
  BY <1>1 DEF IInv
<1>3. PICK R \in Seq(HandleStates) :
        /\ R = Released /\ Len(R) = Len(handles)
        /\ \A i \in 1 .. Len(handles) : R[i] = "released"
  BY <1>1, ReleasedAll
<1>4. CASE closed /\ Returns(s, "failed") /\ UNCHANGED <<handles, producer, faults>>
  <2>1. PICK r \in SenderRecord(Len(handles)) :
          /\ senders' = [senders EXCEPT ![s] = r]
          /\ r.pc = "idle" /\ r.sends = senders[s].sends /\ r.result = "failed"
    BY <1>4, ReturnsAs
  <2>2. Alone(s) => Lone(r)'
    BY <1>1, <1>4, <2>1 DEF Lone
  <2> QED
    BY <1>1, <1>4, <2>1, <2>2, QuietKeeps
<1>5. CASE /\ ~closed /\ handles' = Append(Released, "open")
           /\ producer' = Len(handles) + 1
           /\ senders' = [senders EXCEPT ![s].pc = "read again"]
           /\ UNCHANGED faults
  <2>1. /\ handles' = Append(R, "open") /\ "open" \in HandleStates
    BY <1>3, <1>5 DEF HandleStates
  <2>2. /\ handles' \in Seq(HandleStates) /\ Len(handles') = Len(handles) + 1
        /\ DOMAIN handles' = 1 .. (Len(handles) + 1)
        /\ handles'[Len(handles) + 1] = "open"
        /\ \A i \in 1 .. Len(handles) : handles'[i] = "released"
    BY <1>1, <1>3, <2>1
  <2>3. OthersReleased'
    <3>1. \A i \in 1 .. (Len(handles) + 1) : i \in 1 .. Len(handles) \/ i = Len(handles) + 1
      BY <1>1
    <3>2. \A i \in DOMAIN handles' : handles'[i] # "released" => i = producer'
      BY <1>5, <2>2, <3>1
    <3>3. ~closed'
      BY <1>1, <1>5
    <3> QED
      BY <3>2, <3>3 DEF OthersReleased
  <2>4. PICK r : r = [senders[s] EXCEPT !.pc = "read again"]
    OBVIOUS
  <2>5. /\ r \in SenderRecord(Len(handles')) /\ r.pc = "read again"
        /\ r.sends = senders[s].sends /\ r.result = senders[s].result
        /\ r.attempt = senders[s].attempt
    <3>1. 0 .. Len(handles) \subseteq 0 .. Len(handles')
      BY <1>1, <2>2
    <3> QED
      BY <1>1, <2>4, <3>1 DEF SenderRecord
  <2>6. senders' = [senders EXCEPT ![s] = r]
    BY <1>1, <1>5, <2>4
  <2>7. Alone(s) => Lone(r)'
    <3>1. SUFFICES ASSUME Alone(s) PROVE Lone(r)'
      OBVIOUS
    <3>2. Lone(senders[s])
      BY <1>1, <3>1
    <3>3. ~closed /\ faults <= 1 => faults = 1 /\ r.attempt = 2 /\ r.result # "failed"
      BY <1>1, <2>5, <3>2 DEF Lone
    <3>4. producer' # 0 /\ handles'[producer'] = "open"
      <4>1. \A n \in Nat : n + 1 # 0
        OBVIOUS
      <4>2. producer' = Len(handles) + 1
        BY <1>5
      <4>3. Len(handles) + 1 # 0
        BY <1>1, <4>1, Zenon
      <4> QED
        BY <2>2, <4>2, <4>3, Zenon
    <3>5. closed' = closed /\ faults' = faults
      BY <1>1, <1>5
    <3> QED
      BY <2>5, <3>3, <3>4, <3>5 DEF Lone
  <2>8. IsFiniteSet(Sent')
    <3>1. \A t \in Senders : senders'[t].sends = senders[t].sends
      BY <1>1, <2>5, <2>6
    <3> QED
      BY <3>1, SameSent DEF IInv
  <2>9. /\ Len(handles) <= Len(handles') /\ producer' \in 0 .. Len(handles')
        /\ senders[s].sends <= r.sends /\ r.sends # 0
    <3>1. \A n \in Nat : n <= n + 1 /\ n + 1 \in 0 .. (n + 1)
      OBVIOUS
    <3>2. senders[s].sends \in Nat
      BY <1>1, SenderTypes DEF IInv
    <3>3. senders[s].sends <= r.sends /\ r.sends # 0
      <4>1. \A n \in Nat : n <= n
        OBVIOUS
      <4> QED
        BY <1>2, <2>5, <3>2, <4>1, Zenon
    <3> QED
      BY <1>1, <1>5, <2>2, <3>1, <3>3
  <2> QED
    BY <1>1, <1>5, <2>2, <2>3, <2>5, <2>6, <2>7, <2>8, <2>9, SenderKeeps
<1>6. CASE ~closed /\ Fault("refuse") /\ handles' = Released /\ producer' = 0
           /\ Returns(s, "failed")
  <2>1. PICK r \in SenderRecord(Len(handles)) :
          /\ senders' = [senders EXCEPT ![s] = r]
          /\ r.pc = "idle" /\ r.sends = senders[s].sends /\ r.result = "failed"
    BY <1>6, ReturnsAs
  <2>2. handles' = R /\ faults' = faults + 1 /\ faults' \in 0 .. MaxFaults
    BY <1>1, <1>3, <1>6 DEF Fault
  <2>3. OthersReleased'
    BY <1>1, <1>3, <2>2 DEF OthersReleased
  <2>4. Alone(s) => Lone(r)'
    <3>1. ASSUME Alone(s), ~closed, faults' <= 1 PROVE FALSE
      <4>1. faults = 0
        BY <1>1, <2>2, <3>1
      <4> QED
        BY <1>1, <3>1, <4>1 DEF Lone
    <3> QED
      BY <1>1, <2>1, <3>1 DEF Lone
  <2>5. IsFiniteSet(Sent')
    <3>1. \A t \in Senders : senders'[t].sends = senders[t].sends
      BY <1>1, <2>1
    <3> QED
      BY <3>1, SameSent DEF IInv
  <2>6. /\ Len(handles) <= Len(handles') /\ producer' \in 0 .. Len(handles')
        /\ senders[s].sends <= r.sends /\ r.sends # 0
        /\ r \in SenderRecord(Len(handles')) /\ handles' \in Seq(HandleStates)
    BY <1>1, <1>2, <1>3, <1>6, <2>1, <2>2
  <2> QED
    BY <1>1, <2>1, <2>2, <2>3, <2>4, <2>5, <2>6, SenderKeeps
<1> QED
  BY <1>4, <1>5, <1>6 DEF Reconnect

-----------------------------------------------------------------------------
(* Close and the broker.                                                   *)

\* The calls of Send stay where they are.
LEMMA HandlesChange ==
  ASSUME IInv, UNCHANGED <<senders, stored, producer>>, handles' \in Seq(HandleStates),
         Len(handles') = Len(handles), closed' \in BOOLEAN, faults' \in 0 .. MaxFaults,
         OthersReleased', \A s \in Senders : Lone(senders[s]) => Lone(senders[s])'
  PROVE  IInv'
<1>1. TypeOK'
  BY DEF IInv, TypeOK
<1>2. IsFiniteSet(Sent')
  <2>1. Sent' = Sent
    BY SameSent
  <2> QED
    BY <2>1 DEF IInv
<1>3. \A s \in Senders : senders'[s].pc # "idle" => senders'[s].sends # 0
  BY DEF IInv
<1>4. \A s \in Senders : Alone(s)' => Lone(senders[s])'
  BY DEF IInv, Alone
<1> QED
  BY <1>1, <1>2, <1>3, <1>4 DEF IInv

LEMMA CloseKeeps ==
  ASSUME IInv, Close
  PROVE  IInv'
<1>1. /\ UNCHANGED <<producer, senders, stored, faults>> /\ closed' = TRUE
      /\ handles' = Released /\ faults' \in 0 .. MaxFaults
  BY DEF Close, IInv, TypeOK
<1>2. /\ handles' \in Seq(HandleStates) /\ Len(handles') = Len(handles)
      /\ DOMAIN handles' = DOMAIN handles
      /\ \A i \in DOMAIN handles : handles'[i] = "released"
  BY <1>1, ReleasedAll
<1>3. OthersReleased'
  BY <1>2 DEF OthersReleased
<1>4. \A s \in Senders : Lone(senders[s]) => Lone(senders[s])'
  BY <1>1 DEF Lone
<1> QED
  BY <1>1, <1>2, <1>3, <1>4, HandlesChange

LEMMA BreaksKeeps ==
  ASSUME IInv, NEW i \in DOMAIN handles, BrokerBreaks(i)
  PROVE  IInv'
<1>1. /\ UNCHANGED <<producer, closed, senders, stored>> /\ handles[i] = "open"
      /\ handles' = [handles EXCEPT ![i] = "broken"] /\ faults' = faults + 1
      /\ faults < MaxFaults
  BY DEF BrokerBreaks, Fault
<1>2. /\ handles \in Seq(HandleStates) /\ faults \in 0 .. MaxFaults /\ closed \in BOOLEAN
      /\ OthersReleased
  BY DEF IInv, TypeOK
<1>3. /\ handles' \in Seq(HandleStates) /\ Len(handles') = Len(handles)
      /\ DOMAIN handles' = DOMAIN handles
      /\ \A k \in DOMAIN handles : k # i => handles'[k] = handles[k]
  BY <1>1, <1>2 DEF HandleStates
<1>4. OthersReleased'
  <2>1. i = producer /\ ~closed
    BY <1>1, <1>2 DEF OthersReleased
  <2> QED
    BY <1>1, <1>2, <1>3, <2>1 DEF OthersReleased
<1>5. faults' \in 0 .. MaxFaults /\ faults' # 0 /\ (faults' <= 1 => faults = 0)
  BY <1>1, <1>2
<1>6. \A s \in Senders : Lone(senders[s]) => Lone(senders[s])'
  <2> SUFFICES ASSUME NEW s \in Senders, Lone(senders[s]) PROVE Lone(senders[s])'
    OBVIOUS
  <2>1. closed' = closed /\ producer' = producer
    BY <1>1
  <2>2. ASSUME ~closed, faults' <= 1
        PROVE  /\ producer # 0 /\ senders[s].result # "failed"
               /\ senders[s].pc = "read" => senders[s].attempt = 1
               /\ senders[s].pc \notin {"reconnect", "read again"}
               /\ senders[s].pc = "publish" => senders[s].cli = producer
               /\ ~(senders[s].pc = "publish" /\ senders[s].attempt = 2)
    <3>1. faults = 0 /\ faults <= 1
      BY <1>5, <2>2
    <3>2. 0 # 1
      OBVIOUS
    <3> QED
      BY <2>2, <3>1, <3>2, Zenon DEF Lone
  <2>3. /\ senders[s].pc # "panicked"
        /\ senders[s].pc = "read again" => producer # 0
        /\ senders[s].pc = "publish" => senders[s].cli # 0
    BY DEF Lone
  <2>4. senders'[s] = senders[s] /\ faults' # 0
    BY <1>1, <1>5
  <2> HIDE DEF Lone
  <2> QED
    BY <2>1, <2>2, <2>3, <2>4, Zenon DEF Lone
<1> QED
  BY <1>1, <1>2, <1>3, <1>4, <1>5, <1>6, HandlesChange

-----------------------------------------------------------------------------
(* The theorems.                                                           *)

LEMMA InitInv == Init => IInv
<1> SUFFICES ASSUME Init PROVE IInv
  OBVIOUS
<1>1. PICK r : r = [pc |-> "idle", sends |-> 0, cli |-> 0, attempt |-> 1, result |-> "none"]
  OBVIOUS
<1>2. /\ handles = <<"open">> /\ producer = 1 /\ closed = FALSE
      /\ senders = [s \in Senders |-> r] /\ stored = [m \in Message |-> 0] /\ faults = 0
  BY <1>1 DEF Init
<1>3. /\ handles \in Seq(HandleStates) /\ Len(handles) = 1 /\ DOMAIN handles = {1}
      /\ handles[1] = "open"
  BY <1>2 DEF HandleStates
<1>4. /\ r \in SenderRecord(1) /\ r.pc = "idle" /\ r.sends = 0 /\ r.result = "none"
      /\ r.attempt = 1
  BY <1>1 DEF SenderRecord
<1>5. senders \in [Senders -> SenderRecord(1)] /\ \A s \in Senders : senders[s] = r
  BY <1>2, <1>4
<1>6. TypeOK
  <2>1. 0 \in 0 .. MaxFaults /\ 1 \in 0 .. 1
    OBVIOUS
  <2> QED
    BY <1>2, <1>3, <1>5, <2>1 DEF TypeOK, SenderRecord
<1>7. Sent = {}
  BY <1>4, <1>5 DEF Sent, Message
<1>8. OthersReleased
  BY <1>2, <1>3 DEF OthersReleased
<1>9. Lone(r)
  BY <1>2, <1>3, <1>4 DEF Lone
<1> QED
  BY <1>4, <1>5, <1>6, <1>7, <1>8, <1>9, FS_EmptySet DEF IInv

LEMMA NextKeeps == IInv /\ [Next]_vars => IInv'
<1> SUFFICES ASSUME IInv, [Next]_vars PROVE IInv'
  OBVIOUS
<1>1. ASSUME NEW s \in Senders,
             \/ Send(s) \/ Read(s) \/ Reconnect(s) \/ ReadAgain(s)
             \/ Publish(s) \/ PublishFails(s) \/ PublishPanics(s)
      PROVE  IInv'
  BY <1>1, SendKeeps, ReadKeeps, ReconnectKeeps, PublishKeeps
<1>2. CASE Close \/ \E i \in DOMAIN handles : BrokerBreaks(i)
  BY <1>2, CloseKeeps, BreaksKeeps
<1>3. CASE UNCHANGED vars
  <2>1. /\ UNCHANGED <<senders, stored, producer, handles, closed, faults>>
        /\ handles \in Seq(HandleStates) /\ closed \in BOOLEAN
        /\ faults \in 0 .. MaxFaults /\ OthersReleased
    BY <1>3 DEF vars, IInv, TypeOK
  <2>2. OthersReleased' /\ \A s \in Senders : Lone(senders[s]) => Lone(senders[s])'
    BY <2>1 DEF OthersReleased, Lone
  <2> QED
    BY <2>1, <2>2, HandlesChange
<1> QED
  BY <1>1, <1>2, <1>3 DEF Next, Resting

\* The invariant the other theorems rest on: types, that only the handle in use
\* is not released, and what a goroutine that sends alone can rely on.
THEOREM Invariance == Spec => []IInv
  BY InitInv, NextKeeps, PTL DEF Spec

\* No handle is leaked, however many goroutines reconnect at once, and a
\* reconnect that waited for the lock while Close ran makes no new one.
THEOREM HandlesCorrect == Spec => []OnlyTheCurrentIsOpen
<1>1. IInv => OnlyTheCurrentIsOpen
  BY DEF IInv, OthersReleased, OnlyTheCurrentIsOpen
<1> QED
  BY <1>1, Invariance, PTL

\* One broken connection or failed publish, as a restart of the broker that is
\* shorter than a dial causes, makes no Send of a goroutine that sends alone report
\* an error.
THEOREM RestartCorrect == Spec => []RestartCostsNothing
<1>1. IInv => RestartCostsNothing
  BY DEF IInv, Lone, RestartCostsNothing
<1> QED
  BY <1>1, Invariance, PTL

\* It never publishes through a nil producer, whatever dials fail.
THEOREM NilCorrect == Spec => []NeverNil
<1>1. IInv => NeverNil
  BY DEF IInv, Lone, NeverNil
<1> QED
  BY <1>1, Invariance, PTL

=============================================================================
