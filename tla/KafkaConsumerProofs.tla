-------------------------- MODULE KafkaConsumerProofs --------------------------
(* Theorems about KafkaConsumer, for every group, every partition, every   *)
(* number of starts, rebalances and rejections, and every environment.     *)
EXTENDS KafkaConsumer, TLAPS

USE KafkaAssumption DEF KafkaAssumption

\* Messages a handler has seen, and those that are no event.
Seen == accepted \cup rejected \cup Junk

\* What consumer c has read is seen, but for the message in its hands.  A
\* rebalance takes the place it reads at away from it and leaves the message,
\* so the two are kept apart.
ReadWasSeen(c) ==
  /\ \A m \in 1 .. procs[c].at :
       m \in Seen \/ (procs[c].pc = "handle" /\ m = procs[c].msg)
  /\ procs[c].pc \in {"handle", "commit"} =>
       procs[c].msg \in Messages /\ 1 .. (procs[c].msg - 1) \subseteq Seen
  /\ procs[c].pc = "commit" => procs[c].msg \in Seen

\* CommittedWasHandled alone is not inductive: what a consumer is about to
\* commit must have been seen as well, and everything before it.
IInv ==
  /\ TypeOK
  /\ 1 .. committed \subseteq Seen
  /\ \A c \in Consumers : Running(c) => ReadWasSeen(c)

-----------------------------------------------------------------------------

LEMMA InitIInv == Init => IInv
<1> SUFFICES ASSUME Init PROVE IInv
  OBVIOUS
<1>1. Stopped \in Process
  BY DEF Stopped, Process
<1>2. TypeOK
  BY <1>1 DEF Init, TypeOK
<1>3. \A c \in Consumers : ~Running(c)
  BY DEF Init, Running, Stopped
<1> QED
  BY <1>2, <1>3 DEF Init, IInv

\* Consume of a consumer moves on in a way that keeps its types.
LEMMA ProcessTypes ==
  ASSUME TypeOK, NEW c \in Consumers
  PROVE  /\ procs[c] \in Process
         /\ \A r \in Process : [procs EXCEPT ![c] = r] \in [Consumers -> Process]
  BY DEF TypeOK

LEMMA ReturnsStep ==
  ASSUME IInv, NEW c \in Consumers, NEW result \in {"nil", "canceled", "failed", "crashed"},
         Returns(c, result)
  PROVE  /\ procs' \in [Consumers -> Process]
         /\ owner' \in Consumers \cup {NoConsumer}
         /\ owner' # NoConsumer => Running(owner)'
         /\ ~Running(c)'
         /\ \A d \in Consumers \ {c} : procs'[d] = procs[d]
<1> USE DEF IInv, TypeOK, Returns
<1>1. procs' = [procs EXCEPT ![c] = [procs[c] EXCEPT !.pc = "ended", !.result = result]]
  OBVIOUS
<1>2. [procs[c] EXCEPT !.pc = "ended", !.result = result] \in Process
  BY DEF Process
<1>3. procs' \in [Consumers -> Process]
  BY <1>1, <1>2
<1>4. procs'[c].pc = "ended" /\ \A d \in Consumers \ {c} : procs'[d] = procs[d]
  BY <1>1, <1>2 DEF Process
<1>5. ~Running(c)'
  BY <1>4 DEF Running
<1>6. owner' \in Consumers \cup {NoConsumer} /\ owner' # c
  OBVIOUS
<1>7. owner' # NoConsumer => Running(owner)'
  BY <1>4, <1>6 DEF Running
<1> QED
  BY <1>3, <1>4, <1>5, <1>6, <1>7

\* What a step of one consumer leaves true of the others.
LEMMA OthersStep ==
  ASSUME IInv, NEW c \in Consumers,
         \A d \in Consumers \ {c} : procs'[d] = procs[d],
         Seen \subseteq Seen'
  PROVE  \A d \in Consumers \ {c} : Running(d)' => ReadWasSeen(d)'
<1> SUFFICES ASSUME NEW d \in Consumers \ {c}, Running(d)' PROVE ReadWasSeen(d)'
  OBVIOUS
<1>1. procs'[d] = procs[d]
  OBVIOUS
<1>2. ReadWasSeen(d)
  BY <1>1 DEF IInv, Running
<1> QED
  BY <1>1, <1>2 DEF ReadWasSeen

\* A step of one consumer that replaces its record by r, and neither commits nor
\* starts a rebalance.
LEMMA OneStep ==
  ASSUME IInv, NEW c \in Consumers, NEW r \in Process,
         procs' = [procs EXCEPT ![c] = r],
         r.pc \notin {"off", "ended"},
         Seen \subseteq Seen', ReadWasSeen(c)',
         accepted' \subseteq Messages, rejected' \subseteq Messages,
         rejects' \in 0 .. MaxRejects,
         committed' \in 0 .. N, 1 .. committed' \subseteq Seen',
         owner' \in {owner, c}, rebalances' \in 0 .. MaxRebalances
  PROVE  IInv'
<1> USE DEF IInv, TypeOK
<1>1. procs' \in [Consumers -> Process] /\ procs'[c] = r
      /\ \A d \in Consumers \ {c} : procs'[d] = procs[d]
  OBVIOUS
<1>2. \A d \in Consumers \ {c} : Running(d)' => ReadWasSeen(d)'
  BY <1>1, OthersStep
<1>3. owner' \in Consumers \cup {NoConsumer} /\ (owner' # NoConsumer => Running(owner)')
  BY <1>1 DEF Running
<1> QED
  BY <1>1, <1>2, <1>3

LEMMA FetchStep ==
  ASSUME IInv, NEW c \in Consumers, Fetch(c)
  PROVE  IInv'
<1> DEFINE r == [procs[c] EXCEPT !.pc = "handle", !.at = @ + 1, !.msg = procs[c].at + 1]
<1> USE DEF Fetch, history
<1>1. procs[c] \in Process /\ procs[c].at \in 0 .. N /\ procs[c].at < N
  BY DEF IInv, TypeOK, Process
<1>0. procs[c].at + 1 \in 0 .. N
  BY <1>1
<1>2. r \in Process /\ r.pc = "handle" /\ r.at = procs[c].at + 1 /\ r.msg = procs[c].at + 1
  BY <1>1, <1>0 DEF Process
<1>3. procs' = [procs EXCEPT ![c] = r] /\ procs'[c] = r
  BY DEF IInv, TypeOK
<1>4. ReadWasSeen(c)'
  <2>1. \A m \in 1 .. procs[c].at : m \in Seen
    BY DEF IInv, Running, ReadWasSeen
  <2>2. Seen' = Seen
    BY DEF Seen
  <2>3. 1 .. (r.msg - 1) \subseteq Seen' /\ r.msg \in Messages
    BY <1>1, <1>2, <2>1, <2>2 DEF Messages
  <2>4. \A m \in 1 .. r.at : m \in Seen' \/ m = r.msg
    BY <1>1, <1>2, <2>1, <2>2
  <2> HIDE DEF r
  <2> QED
    BY <1>2, <1>3, <2>3, <2>4 DEF ReadWasSeen
<1>5. Seen' = Seen
  BY DEF Seen
<1> HIDE DEF r
<1> QED
  BY <1>2, <1>3, <1>4, <1>5, OneStep DEF IInv, TypeOK

LEMMA ProcessMessageStep ==
  ASSUME IInv, NEW c \in Consumers, ProcessMessage(c)
  PROVE  IInv'
<1> DEFINE m == procs[c].msg
           r(pc) == [procs[c] EXCEPT !.pc = pc]
<1> USE DEF ProcessMessage, history
<1>1. /\ procs[c] \in Process /\ procs[c].pc = "handle"
      /\ ReadWasSeen(c) /\ m \in Messages
  BY DEF IInv, TypeOK, Running, ReadWasSeen
<1>2. \A pc \in {"fetch", "commit"} :
        r(pc) \in Process /\ r(pc).pc = pc /\ r(pc).at = procs[c].at /\ r(pc).msg = m
  BY <1>1 DEF Process
<1>3. /\ Seen \subseteq Seen' /\ m \in Seen'
      /\ accepted' \subseteq Messages /\ rejected' \subseteq Messages
      /\ rejects' \in 0 .. MaxRejects
      /\ UNCHANGED <<committed, owner, rebalances>>
  BY <1>1 DEF Seen, IInv, TypeOK
<1>4. PICK pc \in {"fetch", "commit"} : procs' = [procs EXCEPT ![c] = r(pc)]
  BY DEF IInv, TypeOK
<1>5. procs'[c] = r(pc)
  BY <1>4 DEF IInv, TypeOK
<1>6. ReadWasSeen(c)'
  <2>1. /\ procs'[c].pc = pc /\ procs'[c].at = procs[c].at /\ procs'[c].msg = m
    BY <1>2, <1>5
  <2>2. \A k \in 1 .. procs[c].at : k \in Seen'
    BY <1>1, <1>3 DEF ReadWasSeen
  <2>3. 1 .. (m - 1) \subseteq Seen'
    BY <1>1, <1>3 DEF ReadWasSeen
  <2> QED
    BY <1>1, <1>3, <2>1, <2>2, <2>3 DEF ReadWasSeen
<1>7. r(pc) \in Process /\ r(pc).pc \notin {"off", "ended"}
  BY <1>2
<1>8. /\ committed' \in 0 .. N /\ 1 .. committed' \subseteq Seen'
      /\ owner' \in {owner, c} /\ rebalances' \in 0 .. MaxRebalances
  BY <1>3 DEF IInv, TypeOK
<1> HIDE DEF r, m
<1> QED
  BY <1>3, <1>4, <1>6, <1>7, <1>8, OneStep

\* What a commit stores was seen, all of it.
LEMMA CommitWasSeen ==
  ASSUME IInv, NEW c \in Consumers, procs[c].pc = "commit"
  PROVE  procs[c].msg \in Messages /\ 1 .. procs[c].msg \subseteq Seen
<1>1. ReadWasSeen(c)
  BY DEF IInv, Running
<1>2. /\ procs[c].msg \in Messages /\ procs[c].msg \in Seen
      /\ 1 .. (procs[c].msg - 1) \subseteq Seen
  BY <1>1 DEF ReadWasSeen
<1>3. 1 .. procs[c].msg = 1 .. (procs[c].msg - 1) \cup {procs[c].msg}
  BY <1>2 DEF Messages
<1> QED
  BY <1>2, <1>3

LEMMA CommitStep ==
  ASSUME IInv, NEW c \in Consumers, Commit(c)
  PROVE  IInv'
<1> DEFINE r == [procs[c] EXCEPT !.pc = "fetch"]
<1> USE DEF Commit, history
<1>1. procs[c] \in Process /\ procs[c].pc = "commit" /\ ReadWasSeen(c)
  BY DEF IInv, TypeOK, Running
<1>2. r \in Process /\ r.pc = "fetch" /\ r.at = procs[c].at
  BY <1>1 DEF Process
<1>3. procs' = [procs EXCEPT ![c] = r] /\ procs'[c] = r
  BY DEF IInv, TypeOK
<1>4. Seen' = Seen
  BY DEF Seen
<1>5. ReadWasSeen(c)'
  BY <1>1, <1>2, <1>3, <1>4 DEF ReadWasSeen
<1>6. committed' \in 0 .. N /\ 1 .. committed' \subseteq Seen'
  BY <1>4, <1>1, CommitWasSeen DEF Messages
<1> HIDE DEF r
<1> QED
  BY <1>2, <1>3, <1>4, <1>5, <1>6, OneStep DEF IInv, TypeOK

\* Consume ends, whatever became of its last commit.
LEMMA EndStep ==
  ASSUME IInv, NEW c \in Consumers,
         FetchFails(c) \/ CommitFails(c) \/ Crash(c)
  PROVE  IInv'
<1> USE DEF history
<1>1. PICK result \in {"nil", "canceled", "failed", "crashed"} : Returns(c, result)
  BY DEF FetchFails, CommitFails, Crash, EndsOnError
<1>2. UNCHANGED <<accepted, rejected, rejects, rebalances>> /\ Seen' = Seen
  BY DEF FetchFails, CommitFails, Crash, Seen
<1>3. committed' \in 0 .. N /\ 1 .. committed' \subseteq Seen'
  <2>1. CASE committed' = committed
    BY <1>2, <2>1 DEF IInv, TypeOK
  <2>2. CASE committed' # committed
    <3>1. procs[c].pc = "commit" /\ committed' = procs[c].msg
      BY <2>2 DEF FetchFails, CommitFails, Crash
    <3> QED
      BY <1>2, <3>1, CommitWasSeen DEF Messages
  <2> QED
    BY <2>1, <2>2
<1>4. /\ procs' \in [Consumers -> Process]
      /\ owner' \in Consumers \cup {NoConsumer}
      /\ owner' # NoConsumer => Running(owner)'
      /\ ~Running(c)'
      /\ \A d \in Consumers \ {c} : procs'[d] = procs[d]
  BY <1>1, ReturnsStep
<1>5. \A d \in Consumers \ {c} : Running(d)' => ReadWasSeen(d)'
  BY <1>2, <1>4, OthersStep
<1> QED
  BY <1>2, <1>3, <1>4, <1>5 DEF IInv, TypeOK

\* A start and a rebalance set the place a consumer reads at, a shutdown leaves
\* it alone.
LEMMA GroupStep ==
  ASSUME IInv, NEW c \in Consumers,
         Start(c) \/ Rebalance(c) \/ Cancel(c) \/ Close(c)
  PROVE  IInv'
<1> USE DEF history
<1>1. /\ UNCHANGED <<committed, accepted, rejected, rejects>> /\ Seen' = Seen
      /\ owner' \in {owner, c}
  BY DEF Start, Rebalance, Cancel, Close, Seen
<1>2. rebalances' \in 0 .. MaxRebalances
  BY DEF Start, Rebalance, Cancel, Close, IInv, TypeOK
<1>3. procs[c] \in Process
  BY DEF IInv, TypeOK
<1>4. CASE Start(c)
  <2> DEFINE r == [Stopped EXCEPT !.pc = "fetch", !.starts = procs[c].starts + 1]
  <2>1. procs[c].starts + 1 \in 0 .. MaxStarts
    BY <1>3, <1>4 DEF Start, Process
  <2>2. Stopped \in Process /\ Stopped.at = 0
    BY DEF Stopped, Process
  <2>3. r \in Process /\ r.pc = "fetch" /\ r.at = 0
    BY <2>1, <2>2 DEF Process
  <2>4. procs' = [procs EXCEPT ![c] = r] /\ procs'[c] = r
    BY <1>4 DEF Start, IInv, TypeOK
  <2> HIDE DEF r
  <2>5. ReadWasSeen(c)'
    BY <2>3, <2>4 DEF ReadWasSeen
  <2> QED
    BY <1>1, <1>2, <2>3, <2>4, <2>5, OneStep DEF IInv, TypeOK
<1>5. CASE Rebalance(c)
  <2> DEFINE r == [procs[c] EXCEPT !.at = committed]
  <2>0. Running(c) /\ ReadWasSeen(c)
    BY <1>5 DEF Rebalance, IInv
  <2>1. r \in Process /\ r.pc = procs[c].pc /\ r.at = committed /\ r.msg = procs[c].msg
    BY <1>3 DEF Process, IInv, TypeOK
  <2>2. procs' = [procs EXCEPT ![c] = r] /\ procs'[c] = r
    BY <1>5 DEF Rebalance, IInv, TypeOK
  <2>3. ReadWasSeen(c)'
    BY <1>1, <2>0, <2>1, <2>2 DEF ReadWasSeen, IInv
  <2>4. r.pc \notin {"off", "ended"}
    BY <2>0, <2>1 DEF Running
  <2> HIDE DEF r
  <2> QED
    BY <1>1, <1>2, <2>1, <2>2, <2>3, <2>4, OneStep DEF IInv, TypeOK
<1>6. CASE Cancel(c) \/ Close(c)
  <2>0. Running(c) /\ ReadWasSeen(c)
    BY <1>6 DEF Cancel, Close, IInv
  <2>1. PICK r \in Process : /\ procs' = [procs EXCEPT ![c] = r]
                             /\ r.pc = procs[c].pc /\ r.at = procs[c].at
                             /\ r.msg = procs[c].msg
    <3>1. CASE Cancel(c)
      <4>1. [procs[c] EXCEPT !.ctxDone = TRUE] \in Process
        BY <1>3 DEF Process
      <4> QED
        BY <1>3, <3>1, <4>1 DEF Cancel, Process
    <3>2. CASE Close(c)
      <4>1. [procs[c] EXCEPT !.closed = TRUE] \in Process
        BY <1>3 DEF Process
      <4> QED
        BY <1>3, <3>2, <4>1 DEF Close, Process
    <3> QED
      BY <1>6, <3>1, <3>2
  <2>2. procs'[c] = r
    BY <2>1 DEF IInv, TypeOK
  <2>3. ReadWasSeen(c)'
    BY <1>1, <2>0, <2>1, <2>2 DEF ReadWasSeen
  <2>4. r.pc \notin {"off", "ended"}
    BY <2>0, <2>1 DEF Running
  <2> QED
    BY <1>1, <1>2, <2>1, <2>3, <2>4, OneStep DEF IInv, TypeOK
<1> QED
  BY <1>4, <1>5, <1>6

-----------------------------------------------------------------------------

\* Whoever reads the partition, and whatever becomes of it, has seen what lies
\* below its place.
THEOREM Invariance == Spec => []IInv
<1>1. IInv /\ [Next]_vars => IInv'
  <2> SUFFICES ASSUME IInv, [Next]_vars PROVE IInv'
    OBVIOUS
  <2>1. ASSUME NEW c \in Consumers, ConsumeStep(c)
        PROVE  IInv'
    BY <2>1, FetchStep, ProcessMessageStep, CommitStep, EndStep DEF ConsumeStep
  <2>2. ASSUME NEW c \in Consumers,
               Start(c) \/ Rebalance(c) \/ Cancel(c) \/ Close(c) \/ Crash(c)
        PROVE  IInv'
    BY <2>2, GroupStep, EndStep
  <2>3. CASE UNCHANGED vars
    BY <2>3 DEF vars, history, IInv, TypeOK, Seen, Running, ReadWasSeen
  <2> QED
    BY <2>1, <2>2, <2>3 DEF Next, Resting
<1> QED
  BY <1>1, InitIInv, PTL DEF Spec

\* The group passes no message that no handler has seen, for every number of
\* consumers, messages, crashes and rebalances.
THEOREM CommittedCorrect == Spec => []CommittedWasHandled
<1>1. IInv => CommittedWasHandled
  BY DEF IInv, CommittedWasHandled, Seen
<1> QED
  BY <1>1, Invariance, PTL

=============================================================================
