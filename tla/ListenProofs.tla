----------------------------- MODULE ListenProofs -----------------------------
(* Theorems about Listen, for every capacity of the channel, every binlog, *)
(* every number of retries and sessions, and every environment.            *)
EXTENDS Listen, FiniteSetTheorems, TLAPS

USE SourceAssumption, ListenAssumption DEF SourceAssumption, ListenAssumption

(***************************************************************************)
(* The inductive invariant.  TypeOK is not inductive: that the position of *)
(* the next row is one of the binlog follows from where OnRow is.          *)
(***************************************************************************)

\* What the places the goroutines are at say about one another.
PcInv ==
  /\ runPc = "idle" => canalPc = "off" /\ ev = 0 /\ eventDataChan = << >>
  /\ canalPc = "off" => runPc = "idle" /\ at = 0 /\ start = 0 /\ getFailed = FALSE
  /\ runPc = "idle" => masterPos = 0
  /\ ~up => runPc = "idle"
  /\ chanClosed <=> runPc = "returned"
  /\ canalCancelled <=> runPc \notin {"idle", "select"}
  /\ mainPc # "wait" => runPc = "returned"
  /\ mainPc = "closed" => consPc = "exited"
  /\ consPc = "backoff" => tries < MaxRetries

\* How far canal and the consumer have come.
ReachInv ==
  /\ written \in Boundaries
  /\ last <= written
  /\ at <= written
  /\ canalPc = "send" => at < last /\ \A p \in commits : ~(at < p /\ p <= last)
  /\ canalPc = "sync" => at \in commits
  /\ LastTaken <= at

IInv ==
  /\ TypeOK
  /\ PcInv
  /\ ReachInv
  /\ CheckpointAtBoundary
  /\ ChannelIsTheGap

-----------------------------------------------------------------------------

LEMMA EmptyChannel ==
  << >> \in Seq(1 .. MaxPos) /\ Len(<< >>) = 0 /\ 0 <= Cap
<1>1. << >> \in Seq(1 .. MaxPos)
  OBVIOUS
<1>2. Len(<< >>) = 0
  OBVIOUS
<1> QED
  BY <1>1, <1>2

LEMMA InitIInv == Init => IInv
<1> SUFFICES ASSUME Init PROVE IInv
  OBVIOUS
<1> USE DEF Init, MasterInit, SourceIdle
<1>1. TypeOK
  <2>1. eventDataChan \in Seq(1 .. MaxPos) /\ Len(eventDataChan) <= Cap
    BY EmptyChannel
  <2>2. 0 \in Positions /\ 1 \in Positions /\ 1 \in 1 .. MaxSessions /\ 0 \in 0 .. MaxRetries
    BY DEF Positions
  <2>3. commits \subseteq 1 .. written
    OBVIOUS
  <2> QED
    BY <2>1, <2>2, <2>3 DEF TypeOK, SourceTypeOK
<1>2. PcInv
  BY DEF PcInv
<1>3. ReachInv
  BY DEF ReachInv, LastTaken, Boundaries
<1>4. CheckpointAtBoundary
  BY DEF CheckpointAtBoundary, Boundaries
<1>5. ChannelIsTheGap
  <2>1. Len(eventDataChan) = 0
    OBVIOUS
  <2>2. Queued = {}
    BY <2>1 DEF Queued
  <2>3. Rows = {}
    BY DEF Rows
  <2> QED
    BY <2>1, <2>2, <2>3 DEF ChannelIsTheGap
<1> QED
  BY <1>1, <1>2, <1>3, <1>4, <1>5 DEF IInv

\* The end of the process leaves the types alone.
LEMMA EndTypes ==
  ASSUME TypeOK, ProcessEnds, panicked' \in BOOLEAN
  PROVE  TypeOK'
<1> USE DEF TypeOK, SourceTypeOK, ProcessEnds, SourceDiscarded, binlogVars
<1>1. eventDataChan' \in Seq(1 .. MaxPos) /\ Len(eventDataChan') <= Cap
  BY EmptyChannel
<1>2. 0 \in Positions /\ 0 \in 0 .. MaxRetries
  BY DEF Positions
<1>3. /\ written' \in Positions /\ commits' \subseteq 1 .. written'
      /\ saved' \in Positions /\ sessions' \in 1 .. MaxSessions
      /\ delivered' \subseteq Positions /\ gaveUp' \subseteq Positions
      /\ origin' \in Positions /\ read' \subseteq Positions
      /\ Positions' = Positions
  BY DEF Positions
<1>4. /\ closePos' \in Positions /\ masterPos' \in Positions /\ at' \in Positions
      /\ last' \in Positions /\ start' \in Positions /\ ev' \in Positions
      /\ tries' \in 0 .. MaxRetries
  BY <1>2
<1>5. SourceTypeOK'
  BY <1>1, <1>3, <1>4
<1> QED
  BY <1>3, <1>4, <1>5

\* Types: every action writes values of the right kind.
LEMMA TypeStep ==
  ASSUME TypeOK, PcInv, ReachInv, [Next]_vars
  PROVE  TypeOK'
<1> USE DEF TypeOK, SourceTypeOK, Positions
<1> USE DEF vars, sourceVars, listenVars, consumerVars, historyVars, runVars,
            canalVars, binlogVars, startVars
<1>1. CASE Commit
  <2> PICK k \in 0 .. MaxRows : MasterCommit(k)
    BY <1>1 DEF Commit
  <2>1. written' \in 0 .. MaxPos /\ commits' \subseteq 1 .. written'
    BY DEF MasterCommit
  <2> QED
    BY <1>1, <2>1 DEF Commit
<1>2. CASE RunMoves
  <2>1. CASE Run
    <3>1. PICK failed \in BOOLEAN :
            /\ getFailed' = failed
            /\ \E p \in LoadPosition(failed) : start' = p /\ at' = p /\ last' = p
      BY <2>1 DEF Run
    <3>2. LoadPosition(failed) \subseteq 0 .. MaxPos
      BY DEF LoadPosition
    <3>3. start' \in 0 .. MaxPos /\ at' = start' /\ last' = start'
      BY <3>1, <3>2
    <3> QED
      BY <1>2, <2>1, <3>1, <3>3 DEF RunMoves, Run
  <2>2. CASE RunStops
    BY <1>2, <2>2, ZenonT(30) DEF RunMoves, RunStops
  <2>3. CASE CloseReadsPosition
    BY <1>2, <2>3 DEF RunMoves, CloseReadsPosition
  <2>4. CASE CloseSavesPosition
    BY <1>2, <2>4 DEF RunMoves, CloseSavesPosition, SavePosition, SavePositionFails
  <2>5. CASE RunReturns
    BY <1>2, <2>5 DEF RunMoves, RunReturns
  <2> QED
    BY <1>2, <2>1, <2>2, <2>3, <2>4, <2>5 DEF RunMoves, RunStep
<1>3. CASE CanalMoves
  <2>1. eventDataChan' \in Seq(1 .. MaxPos) => read' \subseteq 0 .. MaxPos
    <3> SUFFICES ASSUME eventDataChan' \in Seq(1 .. MaxPos)
                 PROVE  {eventDataChan'[i] : i \in 1 .. Len(eventDataChan')} \subseteq 0 .. MaxPos
      BY <1>3 DEF CanalMoves
    <3> QED
      OBVIOUS
  <2>2. CASE CanalRowsEvent
    <3>1. last' \in 0 .. MaxPos
      BY <2>2 DEF CanalRowsEvent
    <3> QED
      <4>1. /\ canalPc' = "send"
            /\ UNCHANGED <<written, commits, saved, runPc, runErr, closePos, mu,
                           canalErr, canalCancelled, masterPos, at, start,
                           getFailed, eventDataChan, chanClosed>>
        BY <2>2 DEF CanalRowsEvent
      <4> QED
        BY <1>3, <2>1, <3>1, <4>1, SMTT(30) DEF CanalMoves
  <2>3. CASE OnRowSend
    <3>1. at + 1 \in 1 .. MaxPos
      BY <2>3 DEF OnRowSend, ReachInv
    <3>2. eventDataChan' \in Seq(1 .. MaxPos) /\ Len(eventDataChan') <= Cap
      BY <2>3, <3>1 DEF OnRowSend
    <3> QED
      BY <1>3, <2>1, <2>3, <3>1, <3>2 DEF CanalMoves, OnRowSend
  <2>4. CASE OnRowCancelled
    BY <1>3, <2>1, <2>4 DEF CanalMoves, OnRowCancelled
  <2>5. CASE CanalTransactionEnd
    BY <1>3, <2>1, <2>5 DEF CanalMoves, CanalTransactionEnd
  <2>6. CASE OnPosSynced
    <3>1. saved' \in 0 .. MaxPos
      BY <2>6 DEF OnPosSynced, SavePosition, SavePositionFails
    <3>2. canalErr' \in BOOLEAN /\ canalPc' \in {"read", "exited"}
      BY <2>6 DEF OnPosSynced
    <3> QED
      BY <1>3, <2>1, <2>6, <3>1, <3>2 DEF CanalMoves, OnPosSynced
  <2>7. CASE CanalReturns
    <3>1. canalErr' \in BOOLEAN /\ canalPc' = "exited"
      BY <2>7 DEF CanalReturns
    <3> QED
      BY <1>3, <2>1, <2>7, <3>1 DEF CanalMoves, CanalReturns
  <2>8. CASE CanalStarts
    <3>1. canalErr' \in BOOLEAN /\ canalPc' \in {"read", "exited"}
      BY <2>8 DEF CanalStarts
    <3> QED
      BY <1>3, <2>1, <2>8, <3>1 DEF CanalMoves, CanalStarts
  <2> QED
    BY <1>3, <2>2, <2>3, <2>4, <2>5, <2>6, <2>7, <2>8 DEF CanalMoves, CanalStep
<1>4. CASE ConsumerStep
  <2>1. CASE ConsumerReceive
    <3>1. Head(eventDataChan) \in 1 .. MaxPos /\ Tail(eventDataChan) \in Seq(1 .. MaxPos)
          /\ Len(Tail(eventDataChan)) <= Cap
      BY <2>1 DEF ConsumerReceive
    <3> QED
      BY <2>1, <3>1 DEF ConsumerReceive
  <2>2. CASE ConsumerExits
    BY <2>2 DEF ConsumerExits
  <2>3. CASE SendOk
    BY <2>3 DEF SendOk, Sending
  <2>4. CASE SendFails
    <3>1. delivered' \subseteq 0 .. MaxPos
      BY <2>4 DEF SendFails, Sending
    <3>2. gaveUp' \subseteq 0 .. MaxPos /\ consPc' \in {"recv", "backoff"}
      BY <2>4 DEF SendFails, Sending
    <3> QED
      BY <2>4, <3>1, <3>2 DEF SendFails, Sending
  <2>5. CASE SendNotRetriable
    BY <2>5 DEF SendNotRetriable, Sending
  <2>6. CASE BackoffElapsed
    <3>1. tries' \in 0 .. MaxRetries
      BY <2>6 DEF BackoffElapsed, Sending, PcInv
    <3> QED
      BY <2>6, <3>1 DEF BackoffElapsed, Sending
  <2>7. CASE BackoffCancelled
    BY <2>7 DEF BackoffCancelled, Sending
  <2> QED
    BY <1>4, <2>1, <2>2, <2>3, <2>4, <2>5, <2>6, <2>7 DEF ConsumerStep
<1>5. CASE Signal
  BY <1>5 DEF Signal
<1>6. CASE MainStep
  <2>1. CASE MainSourceReturned
    <3>1. ctxDone' \in BOOLEAN
      BY <2>1 DEF MainSourceReturned
    <3> QED
      BY <2>1, <3>1 DEF MainSourceReturned
  <2>2. CASE MainCloses
    BY <2>2 DEF MainCloses
  <2>3. CASE Exit
    BY <2>3, EndTypes DEF Exit
  <2> QED
    BY <1>6, <2>1, <2>2, <2>3 DEF MainStep
<1>7. CASE Crash \/ Panic
  BY <1>7, EndTypes DEF Crash, Panic
<1>8. CASE Restart
  BY <1>8 DEF Restart
<1>9. CASE UNCHANGED vars
  BY <1>9
<1> QED
  BY <1>1, <1>2, <1>3, <1>4, <1>5, <1>6, <1>7, <1>8, <1>9 DEF Next, Resting

\* The places: the channel is closed where Run returns, main leaves its wait
\* only then, and the consumer is gone when main closes the components.
LEMMA PcStep ==
  ASSUME TypeOK, PcInv, [Next]_vars
  PROVE  PcInv'
<1> USE DEF PcInv, vars, sourceVars, listenVars, consumerVars, historyVars,
            runVars, canalVars, binlogVars, startVars
<1>1. CASE Commit
  BY <1>1 DEF Commit
<1>2. CASE RunMoves
  <2>1. CASE Run
    BY <1>2, <2>1 DEF RunMoves, Run
  <2>2. CASE RunStops
    BY <1>2, <2>2 DEF RunMoves, RunStops
  <2>3. CASE CloseReadsPosition
    BY <1>2, <2>3 DEF RunMoves, CloseReadsPosition
  <2>4. CASE CloseSavesPosition
    BY <1>2, <2>4 DEF RunMoves, CloseSavesPosition
  <2>5. CASE RunReturns
    BY <1>2, <2>5 DEF RunMoves, RunReturns
  <2> QED
    BY <1>2, <2>1, <2>2, <2>3, <2>4, <2>5 DEF RunMoves, RunStep
<1>3. CASE CanalMoves
  <2>1. /\ canalPc # "off" /\ canalPc' # "off"
        /\ UNCHANGED <<runPc, chanClosed, canalCancelled, up, mainPc, consPc, tries>>
    BY <1>3 DEF CanalMoves, CanalStep, CanalStarts, CanalRowsEvent, OnRowSend, OnRowCancelled,
                CanalTransactionEnd, OnPosSynced, CanalReturns
  <2>2. runPc # "idle"
    BY <2>1
  <2> QED
    BY <2>1, <2>2
<1>4. CASE ConsumerStep
  <2>1. CASE ConsumerReceive
    BY <1>4, <2>1 DEF ConsumerReceive
  <2>2. CASE ConsumerExits
    BY <2>2 DEF ConsumerExits
  <2>3. CASE SendOk \/ SendNotRetriable \/ BackoffElapsed \/ BackoffCancelled
    BY <2>3 DEF SendOk, SendNotRetriable, BackoffElapsed, BackoffCancelled, Sending
  <2>4. CASE SendFails
    <3>1. /\ consPc = "send"
          /\ consPc' = "backoff" => tries < MaxRetries
          /\ UNCHANGED <<runPc, canalPc, canalCancelled, masterPos, ev, eventDataChan, at,
                         start, getFailed, up, chanClosed, mainPc, tries>>
      BY <2>4 DEF SendFails, Sending
    <3> QED
      BY <3>1
  <2> QED
    BY <1>4, <2>1, <2>2, <2>3, <2>4 DEF ConsumerStep
<1>5. CASE Signal
  BY <1>5 DEF Signal
<1>6. CASE MainStep
  BY <1>6 DEF MainStep, MainSourceReturned, MainCloses, Exit, ProcessEnds, SourceDiscarded
<1>7. CASE Crash \/ Panic
  BY <1>7 DEF Crash, Panic, ProcessEnds, SourceDiscarded
<1>8. CASE Restart
  BY <1>8 DEF Restart
<1>9. CASE UNCHANGED vars
  BY <1>9
<1> QED
  BY <1>1, <1>2, <1>3, <1>4, <1>5, <1>6, <1>7, <1>8, <1>9 DEF Next, Resting

\* The steps that leave canal, the channel and the consumer's event alone.
QuietStep == UNCHANGED <<written, commits, canalPc, at, last, start, ev, eventDataChan>>

\* How far canal and the consumer are.
LEMMA ReachStep ==
  ASSUME TypeOK, PcInv, ReachInv, CheckpointAtBoundary, ChannelIsTheGap, [Next]_vars
  PROVE  ReachInv'
<1> USE DEF TypeOK, SourceTypeOK, Positions, ReachInv, LastTaken, Boundaries
<1> USE DEF vars, sourceVars, listenVars, consumerVars, historyVars, runVars,
            canalVars, binlogVars, startVars
<1>1. CASE Commit
  <2> PICK k \in 0 .. MaxRows : MasterCommit(k)
    BY <1>1 DEF Commit
  <2>1. /\ written' = written + k + 1
        /\ commits' = commits \cup {written + k + 1}
        /\ UNCHANGED <<canalPc, at, last, start, ev>>
    BY <1>1 DEF Commit, MasterCommit
  <2>2. canalPc = "send" => \A p \in commits' : ~(at < p /\ p <= last)
    BY <2>1
  <2> QED
    BY <2>1, <2>2
<1>2. CASE RunMoves
  <2>1. CASE Run
    <3>1. saved \in 0 .. written
      BY DEF CheckpointAtBoundary, Boundaries
    <3>2. \A failed \in BOOLEAN : LoadPosition(failed) \subseteq 0 .. written
      BY <3>1 DEF LoadPosition
    <3>3. PICK p \in 0 .. written : at' = p /\ last' = p /\ start' = p
      BY <2>1, <3>2 DEF Run
    <3> QED
      BY <1>2, <2>1, <3>3 DEF RunMoves, Run, PcInv
  <2>2. CASE ~Run
    <3>1. QuietStep
      BY <1>2, <2>2 DEF QuietStep, RunMoves, RunStep, RunStops, CloseReadsPosition,
                        CloseSavesPosition, RunReturns
    <3> QED
      BY <3>1 DEF QuietStep
  <2> QED
    BY <2>1, <2>2
<1>3. CASE CanalMoves
  <2>1. UNCHANGED <<written, commits, start, ev>>
    BY <1>3 DEF CanalMoves, CanalStep, CanalStarts, CanalRowsEvent, OnRowSend, OnRowCancelled,
                CanalTransactionEnd, OnPosSynced, CanalReturns
  <2>2. CASE CanalRowsEvent
    <3>1. PICK q \in (at + 1) .. written :
            ((at + 1) .. q) \cap commits = {} /\ last' = q
      BY <2>2 DEF CanalRowsEvent
    <3>2. \A p \in commits : ~(at < p /\ p <= q)
      BY <3>1
    <3>3. at' = at /\ canalPc' = "send"
      BY <2>2 DEF CanalRowsEvent
    <3> QED
      BY <2>1, <3>1, <3>2, <3>3
  <2>3. CASE OnRowSend
    BY <2>1, <2>3 DEF OnRowSend
  <2>4. CASE CanalTransactionEnd
    BY <2>1, <2>4 DEF CanalTransactionEnd
  <2>5. CASE CanalStarts \/ OnRowCancelled \/ OnPosSynced \/ CanalReturns
    <3>1. canalPc' \in {"read", "exited"} /\ at' = at /\ last' = last
      BY <2>5 DEF CanalStarts, OnRowCancelled, OnPosSynced, CanalReturns
    <3> QED
      BY <2>1, <3>1
  <2> QED
    BY <1>3, <2>2, <2>3, <2>4, <2>5 DEF CanalMoves, CanalStep
<1>4. CASE ConsumerStep
  <2>1. CASE ConsumerReceive
    <3>1. Head(eventDataChan) \in Queued
      BY <2>1 DEF ConsumerReceive, Queued
    <3>2. Head(eventDataChan) # 0 /\ Head(eventDataChan) <= at
      BY <3>1 DEF ChannelIsTheGap, Rows
    <3> QED
      BY <2>1, <3>2 DEF ConsumerReceive
  <2>2. CASE ~ConsumerReceive
    <3>1. QuietStep
      BY <1>4, <2>2 DEF QuietStep, ConsumerStep, ConsumerExits, SendOk, SendFails,
           SendNotRetriable, BackoffElapsed, BackoffCancelled, Sending
    <3> QED
      BY <3>1 DEF QuietStep
  <2> QED
    BY <2>1, <2>2
<1>5. CASE Signal \/ Restart \/ MainSourceReturned \/ MainCloses \/ UNCHANGED vars
  <2>1. QuietStep
    BY <1>5 DEF QuietStep, Signal, Restart, MainSourceReturned, MainCloses
  <2> QED
    BY <2>1 DEF QuietStep
<1>6. CASE Exit \/ Crash \/ Panic
  BY <1>6 DEF Exit, Crash, Panic, ProcessEnds, SourceDiscarded
<1> QED
  BY <1>1, <1>2, <1>3, <1>4, <1>5, <1>6 DEF Next, Resting, MainStep

\* Positions at the end of a transaction: commits are never taken back, and
\* every position that is stored comes from one of the four.
LEMMA BoundaryStep ==
  ASSUME TypeOK, ReachInv, CheckpointAtBoundary, [Next]_vars
  PROVE  CheckpointAtBoundary'
<1> USE DEF CheckpointAtBoundary, Boundaries
<1> USE DEF vars, sourceVars, listenVars, consumerVars, historyVars, runVars,
            canalVars, binlogVars, startVars
<1>1. CASE Commit
  BY <1>1 DEF Commit, MasterCommit
<1>2. CASE RunMoves
  <2>1. CASE Run
    <3>1. PICK p : \E failed \in BOOLEAN : p \in LoadPosition(failed) /\ start' = p
      BY <2>1 DEF Run
    <3>2. p \in Boundaries
      BY <3>1 DEF LoadPosition, ReachInv
    <3> QED
      BY <2>1, <3>1, <3>2 DEF Run
  <2>2. CASE RunStops \/ CloseReadsPosition \/ RunReturns
    BY <2>2 DEF RunStops, CloseReadsPosition, RunReturns
  <2>3. CASE CloseSavesPosition
    BY <2>3 DEF CloseSavesPosition, SavePosition, SavePositionFails
  <2> QED
    BY <1>2, <2>1, <2>2, <2>3 DEF RunMoves, RunStep
<1>3. CASE CanalMoves
  <2>1. CASE CanalTransactionEnd
    BY <2>1 DEF CanalTransactionEnd
  <2>2. CASE OnPosSynced
    BY <2>2 DEF OnPosSynced, SavePosition, SavePositionFails, ReachInv
  <2>3. CASE CanalStarts
    BY <2>3 DEF CanalStarts
  <2>4. CASE CanalRowsEvent \/ OnRowSend \/ OnRowCancelled \/ CanalReturns
    BY <2>4 DEF CanalRowsEvent, OnRowSend, OnRowCancelled, CanalReturns
  <2> QED
    BY <1>3, <2>1, <2>2, <2>3, <2>4 DEF CanalMoves, CanalStep
<1>4. CASE ConsumerStep
  BY <1>4 DEF ConsumerStep, ConsumerReceive, ConsumerExits, SendOk, SendFails,
       SendNotRetriable, BackoffElapsed, BackoffCancelled, Sending
<1>5. CASE Signal \/ Restart \/ MainSourceReturned \/ MainCloses \/ UNCHANGED vars
  BY <1>5 DEF Signal, Restart, MainSourceReturned, MainCloses
<1>6. CASE Exit \/ Crash \/ Panic
  BY <1>6 DEF Exit, Crash, Panic, ProcessEnds, SourceDiscarded
<1> QED
  BY <1>1, <1>2, <1>3, <1>4, <1>5, <1>6 DEF Next, Resting, MainStep

-----------------------------------------------------------------------------
(* The channel.                                                            *)

\* Appending a larger element keeps a sequence strictly increasing and adds
\* that element to its range.
LEMMA AppendIncreasing ==
  ASSUME NEW s \in Seq(1 .. MaxPos), NEW e \in Nat,
         \A i, j \in 1 .. Len(s) : i < j => s[i] < s[j],
         \A i \in 1 .. Len(s) : s[i] < e
  PROVE  LET t == Append(s, e)
         IN  /\ {t[i] : i \in 1 .. Len(t)} = {s[i] : i \in 1 .. Len(s)} \cup {e}
             /\ \A i, j \in 1 .. Len(t) : i < j => t[i] < t[j]
<1> DEFINE t == Append(s, e)
<1>1. /\ Len(t) = Len(s) + 1 /\ Len(s) \in Nat
      /\ \A i \in 1 .. Len(s) : t[i] = s[i]
      /\ t[Len(s) + 1] = e
  OBVIOUS
<1>2. {t[i] : i \in 1 .. Len(t)} = {s[i] : i \in 1 .. Len(s)} \cup {e}
  BY <1>1
<1>3. \A i, j \in 1 .. Len(t) : i < j => t[i] < t[j]
  BY <1>1, SMTT(30)
<1> QED
  BY <1>2, <1>3

\* Taking the head of a strictly increasing sequence leaves the larger ones.
LEMMA TailIncreasing ==
  ASSUME NEW s \in Seq(1 .. MaxPos), s # << >>,
         \A i, j \in 1 .. Len(s) : i < j => s[i] < s[j]
  PROVE  LET t == Tail(s)
         IN  /\ {t[i] : i \in 1 .. Len(t)} =
                  {n \in {s[i] : i \in 1 .. Len(s)} : Head(s) < n}
             /\ \A i, j \in 1 .. Len(t) : i < j => t[i] < t[j]
<1> DEFINE t == Tail(s)
<1>1. /\ Len(s) \in Nat /\ Len(s) >= 1 /\ Len(t) = Len(s) - 1
      /\ \A i \in 1 .. Len(t) : t[i] = s[i + 1]
      /\ Head(s) = s[1]
  OBVIOUS
<1>2. {t[i] : i \in 1 .. Len(t)} = {n \in {s[i] : i \in 1 .. Len(s)} : Head(s) < n}
  <2>1. ASSUME NEW i \in 1 .. Len(t)
        PROVE  t[i] \in {s[j] : j \in 1 .. Len(s)} /\ Head(s) < t[i]
    BY <1>1
  <2>2. ASSUME NEW n \in {s[i] : i \in 1 .. Len(s)}, Head(s) < n
        PROVE  n \in {t[i] : i \in 1 .. Len(t)}
    <3>1. PICK j \in 1 .. Len(s) : n = s[j]
      BY <2>2
    <3>2. j # 1
      BY <1>1, <2>2, <3>1
    <3>3. j - 1 \in 1 .. Len(t) /\ t[j - 1] = n
      BY <1>1, <3>1, <3>2
    <3> QED
      BY <3>3
  <2> QED
    BY <2>1, <2>2
<1>3. \A i, j \in 1 .. Len(t) : i < j => t[i] < t[j]
  BY <1>1
<1> QED
  BY <1>2, <1>3

\* With every type and place in order, the channel is the gap again after a
\* step: OnRow appends the next row, the consumer takes the first, and the end
\* of a transaction is no row.
LEMMA GapStep ==
  ASSUME TypeOK, TypeOK', PcInv, ReachInv, ReachInv', ChannelIsTheGap, [Next]_vars
  PROVE  ChannelIsTheGap'
<1> USE DEF vars, sourceVars, listenVars, consumerVars, historyVars, runVars,
            canalVars, binlogVars, startVars
<1>a. /\ eventDataChan \in Seq(1 .. MaxPos)
      /\ \A i, j \in 1 .. Len(eventDataChan) : i < j => eventDataChan[i] < eventDataChan[j]
  BY DEF ChannelIsTheGap, TypeOK, SourceTypeOK
<1>t. /\ written \in Nat /\ at \in Nat /\ start \in Nat /\ ev \in Nat
      /\ written' \in Nat /\ at' \in Nat /\ start' \in Nat /\ ev' \in Nat
      /\ at <= written /\ at' <= written' /\ LastTaken <= at
  BY DEF TypeOK, SourceTypeOK, Positions, ReachInv
<1>b. Queued = {p \in Rows : LastTaken < p /\ p <= at}
  BY DEF ChannelIsTheGap
<1>c. QuietStep => ChannelIsTheGap'
  BY <1>a, <1>b DEF QuietStep, ChannelIsTheGap, Queued, Rows, LastTaken
<1>d. eventDataChan' = << >> /\ at' = LastTaken' => ChannelIsTheGap'
  <2> SUFFICES ASSUME eventDataChan' = << >>, at' = LastTaken'
               PROVE  ChannelIsTheGap'
    OBVIOUS
  <2>1. Queued' = {}
    BY DEF Queued
  <2>2. {p \in Rows : LastTaken < p /\ p <= at}' = {}
    BY <1>t DEF Rows
  <2>3. \A i, j \in 1 .. Len(eventDataChan') : i < j => eventDataChan'[i] < eventDataChan'[j]
    OBVIOUS
  <2> QED
    BY <2>1, <2>2, <2>3 DEF ChannelIsTheGap
<1>1. CASE Commit
  <2> PICK k \in 0 .. MaxRows : MasterCommit(k)
    BY <1>1 DEF Commit
  <2>1. UNCHANGED <<at, start, ev, eventDataChan>>
    BY <1>1 DEF Commit
  <2>2. \A p \in Nat : p <= at => (p \in Rows' <=> p \in Rows)
    BY <1>t DEF MasterCommit, Rows
  <2>3. {p \in Rows : LastTaken < p /\ p <= at}' = {p \in Rows : LastTaken < p /\ p <= at}
    BY <1>t, <2>1, <2>2 DEF Rows, LastTaken
  <2> QED
    BY <1>a, <1>b, <2>1, <2>3 DEF ChannelIsTheGap, Queued
<1>2. CASE RunMoves
  <2>1. CASE Run
    <3>1. at' = start' /\ ev' = 0 /\ eventDataChan' = << >>
      BY <1>2, <2>1 DEF RunMoves, Run, PcInv
    <3> QED
      BY <3>1, <1>d DEF LastTaken
  <2>2. CASE ~Run
    BY <1>2, <2>2, <1>c DEF QuietStep, RunMoves, RunStep, RunStops,
       CloseReadsPosition, CloseSavesPosition, RunReturns
  <2> QED
    BY <2>1, <2>2
<1>3. CASE CanalMoves
  <2>0. UNCHANGED <<written, commits, start, ev>>
    BY <1>3 DEF CanalMoves, CanalStep, CanalStarts, CanalRowsEvent, OnRowSend, OnRowCancelled,
                CanalTransactionEnd, OnPosSynced, CanalReturns
  <2>1. CASE OnRowSend
    <3>1. /\ at' = at + 1 /\ eventDataChan' = Append(eventDataChan, at + 1)
          /\ at < last /\ at + 1 \notin commits
      BY <1>t, <2>1 DEF OnRowSend, ReachInv, TypeOK, SourceTypeOK, Positions
    <3>0. at + 1 \in Rows
      BY <1>t, <2>0, <3>1 DEF Rows
    <3>2. \A i \in 1 .. Len(eventDataChan) : eventDataChan[i] < at + 1
      <4> TAKE i \in 1 .. Len(eventDataChan)
      <4>1. eventDataChan[i] \in Queued
        BY DEF Queued
      <4>2. eventDataChan[i] <= at /\ eventDataChan[i] \in Nat
        BY <1>a, <1>b, <4>1
      <4> QED
        BY <1>t, <4>2
    <3>3. /\ Queued' = Queued \cup {at + 1}
          /\ \A i, j \in 1 .. Len(eventDataChan') :
               i < j => eventDataChan'[i] < eventDataChan'[j]
      BY <1>a, <1>t, <3>1, <3>2, AppendIncreasing, SMTT(30) DEF Queued
    <3>4. {p \in Rows : LastTaken < p /\ p <= at}'
            = {p \in Rows : LastTaken < p /\ p <= at} \cup {at + 1}
      BY <1>t, <2>0, <3>0, <3>1 DEF Rows, LastTaken
    <3> QED
      BY <1>b, <3>3, <3>4 DEF ChannelIsTheGap
  <2>2. CASE CanalTransactionEnd
    <3>1. at' = at + 1 /\ at + 1 \in commits /\ eventDataChan' = eventDataChan
      BY <2>2 DEF CanalTransactionEnd
    <3>2. {p \in Rows : LastTaken < p /\ p <= at}' = {p \in Rows : LastTaken < p /\ p <= at}
      BY <1>t, <2>0, <3>1 DEF Rows, LastTaken
    <3> QED
      BY <1>a, <1>b, <3>1, <3>2 DEF ChannelIsTheGap, Queued
  <2>3. CASE CanalStarts \/ CanalRowsEvent \/ OnRowCancelled \/ OnPosSynced \/ CanalReturns
    <3>1. UNCHANGED <<at, eventDataChan>>
      BY <2>3 DEF CanalStarts, CanalRowsEvent, OnRowCancelled, OnPosSynced, CanalReturns
    <3> QED
      BY <1>a, <1>b, <2>0, <3>1 DEF ChannelIsTheGap, Queued, Rows, LastTaken
  <2> QED
    BY <1>3, <2>1, <2>2, <2>3 DEF CanalMoves, CanalStep
<1>4. CASE ConsumerStep
  <2>1. CASE ConsumerReceive
    <3>1. /\ eventDataChan # << >> /\ eventDataChan' = Tail(eventDataChan)
          /\ ev' = Head(eventDataChan)
          /\ UNCHANGED <<written, commits, at, start>>
      BY <2>1 DEF ConsumerReceive
    <3>2. Head(eventDataChan) \in Queued
      BY <3>1 DEF Queued
    <3>3. LastTaken' = Head(eventDataChan) /\ LastTaken < Head(eventDataChan)
      BY <1>b, <1>t, <3>1, <3>2 DEF LastTaken, Rows
    <3>4. /\ Queued' = {n \in Queued : Head(eventDataChan) < n}
          /\ \A i, j \in 1 .. Len(eventDataChan') :
               i < j => eventDataChan'[i] < eventDataChan'[j]
      BY <1>a, <3>1, TailIncreasing DEF Queued
    <3>5. {p \in Rows : LastTaken < p /\ p <= at}'
            = {n \in {p \in Rows : LastTaken < p /\ p <= at} : Head(eventDataChan) < n}
      <4>1. Rows' = Rows /\ Rows \subseteq Nat
        BY <1>t, <3>1 DEF Rows
      <4>2. Head(eventDataChan) \in Nat /\ LastTaken \in Nat
        BY <1>b, <1>t, <3>2, <4>1 DEF LastTaken
      <4>3. \A n \in Rows : Head(eventDataChan) < n => LastTaken < n
        BY <3>3, <4>1, <4>2
      <4>4. {p \in Rows : LastTaken < p /\ p <= at}'
              = {p \in Rows : Head(eventDataChan) < p /\ p <= at}
        BY <3>1, <3>3, <4>1
      <4> QED
        BY <4>3, <4>4
    <3> QED
      BY <1>b, <3>4, <3>5 DEF ChannelIsTheGap
  <2>2. CASE ~ConsumerReceive
    BY <1>4, <2>2, <1>c DEF QuietStep, ConsumerStep, ConsumerExits, SendOk, SendFails,
       SendNotRetriable, BackoffElapsed, BackoffCancelled, Sending
  <2> QED
    BY <2>1, <2>2
<1>5. CASE Signal \/ Restart \/ MainSourceReturned \/ MainCloses \/ UNCHANGED vars
  BY <1>5, <1>c DEF QuietStep, Signal, Restart, MainSourceReturned, MainCloses
<1>6. CASE Exit \/ Crash \/ Panic
  <2>1. at' = 0 /\ start' = 0 /\ ev' = 0 /\ eventDataChan' = << >>
    BY <1>6 DEF Exit, Crash, Panic, ProcessEnds, SourceDiscarded
  <2> QED
    BY <2>1, <1>d DEF LastTaken
<1> QED
  BY <1>1, <1>2, <1>3, <1>4, <1>5, <1>6 DEF Next, Resting, MainStep

-----------------------------------------------------------------------------
(* The theorems.                                                           *)

\* The conjuncts of IInv carry one another through every step.
THEOREM Invariance == Spec => []IInv
<1>1. Init => IInv
  BY InitIInv
<1>2. IInv /\ [Next]_vars => IInv'
  <2> SUFFICES ASSUME IInv, [Next]_vars PROVE IInv'
    OBVIOUS
  <2> USE DEF IInv
  <2>1. TypeOK'
    BY TypeStep
  <2>2. PcInv'
    BY PcStep
  <2>3. ReachInv'
    BY ReachStep
  <2>4. CheckpointAtBoundary'
    BY BoundaryStep
  <2>5. ChannelIsTheGap'
    BY GapStep, <2>1, <2>3
  <2> QED
    BY <2>1, <2>2, <2>3, <2>4, <2>5
<1> QED
  BY <1>1, <1>2, PTL DEF Spec

\* Every reachable state keeps to the types of Listen.tla.
THEOREM TypeCorrect == Spec => []TypeOK
<1>1. IInv => TypeOK
  BY DEF IInv
<1> QED
  BY <1>1, Invariance, PTL

\* OnRow and the consumer lose, repeat and reorder nothing: the channel is the
\* piece of the binlog between them.
THEOREM ChannelCorrect == Spec => []ChannelIsTheGap
<1>1. IInv => ChannelIsTheGap
  BY DEF IInv
<1> QED
  BY <1>1, Invariance, PTL

\* No run starts, and no position is stored, inside a transaction.
THEOREM CheckpointCorrect == Spec => []CheckpointAtBoundary
<1>1. IInv => CheckpointAtBoundary
  BY DEF IInv
<1> QED
  BY <1>1, Invariance, PTL

\* Main closes the producer after the last Send, whatever made it stop.
THEOREM CloseCorrect == Spec => []NoCloseUnderSend
<1>1. IInv => NoCloseUnderSend
  BY DEF IInv, PcInv, NoCloseUnderSend
<1> QED
  BY <1>1, Invariance, PTL

\* The consumer takes every row, in the order of the binlog.
THEOREM OrderCorrect == Spec => InOrder
<1> DEFINE TakesNext == ev' # ev /\ up' =>
              /\ ev' > LastTaken
              /\ ev' \in Rows
              /\ \A p \in Rows : LastTaken < p => ev' <= p
<1>1. IInv /\ [Next]_vars => [TakesNext]_vars
  <2> SUFFICES ASSUME IInv, Next, ev' # ev, up' PROVE TakesNext
    BY DEF vars
  <2>1. ConsumerReceive
    BY DEF Next, Commit, RunMoves, CanalMoves, ConsumerStep, ConsumerExits, SendOk,
       SendFails, SendNotRetriable, BackoffElapsed, BackoffCancelled, Sending, Signal,
       MainStep, MainSourceReturned, MainCloses, Exit, Crash, Panic, ProcessEnds,
       Restart, Resting, vars, listenVars, consumerVars
  <2>2. /\ eventDataChan \in Seq(Nat) /\ eventDataChan # << >>
        /\ ev' = Head(eventDataChan)
        /\ Queued = {p \in Rows : LastTaken < p /\ p <= at}
        /\ \A i, j \in 1 .. Len(eventDataChan) :
             i < j => eventDataChan[i] < eventDataChan[j]
    BY <2>1 DEF ConsumerReceive, IInv, TypeOK, SourceTypeOK, ChannelIsTheGap
  <2>3. ev' = eventDataChan[1] /\ 1 \in 1 .. Len(eventDataChan)
    BY <2>2
  <2>4. ev' \in Queued
    BY <2>3 DEF Queued
  <2>5. ASSUME NEW p \in Rows, LastTaken < p
        PROVE  ev' <= p
    <3>0. ev' \in Nat /\ p \in Nat /\ at \in Nat
      BY <2>2, <2>4 DEF IInv, TypeOK, SourceTypeOK, Positions, Rows
    <3>1. CASE p <= at
      <4>1. PICK j \in 1 .. Len(eventDataChan) : p = eventDataChan[j]
        BY <2>2, <2>5, <3>1 DEF Queued
      <4> QED
        BY <2>2, <2>3, <4>1, <3>0
    <3>2. CASE ~(p <= at)
      BY <2>2, <2>4, <3>0, <3>2
    <3> QED
      BY <3>1, <3>2
  <2> QED
    BY <2>2, <2>4, <2>5 DEF IInv, TypeOK, SourceTypeOK, Positions, Rows, LastTaken
<1> QED
  BY <1>1, Invariance, PTL DEF Spec, InOrder

-----------------------------------------------------------------------------
(* What the ends of the sessions can cost, and the refinement of Relay:    *)
(* both need a second invariant on top of the first.                       *)

\* Canal has read nothing, and will not once it is closed.
NothingRead == canalPc \in {"starting", "exited"} /\ at = start

\* Where a run began, what canal and Close take for the position to store (the
\* zero position when canal was closed before it began to read), and the event
\* the consumer holds.
HandInv ==
  /\ canalPc = "starting" => at = start /\ masterPos = 0
  /\ runPc # "idle" => start <= at /\ masterPos <= at
  /\ runPc # "idle" /\ canalPc # "starting" => start <= masterPos
  /\ runPc = "closing" => closePos <= at
  /\ runPc = "closing" => start <= closePos \/ (closePos = 0 /\ NothingRead)
  /\ ev # 0 => start < ev /\ ev \in Rows
  /\ consPc \in {"send", "backoff"} => ev # 0
  /\ consPc = "recv" => ev = 0 \/ ev \in Settled
  /\ 0 \notin read

\* Rows a session read and did not bring to an end, and that are in nobody's
\* hands now.  Some of them are read again, the others are Lost.
Abandoned == read \ (Settled \cup Queued \cup {ev})

\* Ends of sessions so far.
Ends == sessions - (IF up THEN 1 ELSE 0)

\* LossBounded is not inductive: a row above the checkpoint is not lost until a
\* later run, which begins elsewhere, moves the checkpoint past it.
AbandonedBounded == Cardinality(Abandoned) <= (Cap + 1) * Ends

RInv == HandInv /\ AbandonedBounded

LEMMA InitHand == Init => HandInv
  BY DEF Init, MasterInit, SourceIdle, HandInv

\* The source: canal moves on, and Close takes the position canal synced last.
LEMMA HandSourceStep ==
  ASSUME IInv, HandInv, RunMoves \/ CanalMoves \/ Commit
  PROVE  HandInv'
<1> USE DEF HandInv, NothingRead, IInv, TypeOK, SourceTypeOK, Positions, ReachInv, Settled
<1> USE DEF binlogVars, startVars, runVars, canalVars, listenVars, consumerVars, historyVars
<1>1. CASE Commit
  <2> PICK k \in 0 .. MaxRows : MasterCommit(k)
    BY <1>1 DEF Commit
  <2>1. Rows \subseteq Rows'
    BY DEF MasterCommit, Rows
  <2> QED
    BY <1>1, <2>1 DEF Commit
<1>2. CASE RunMoves
  <2>1. /\ UNCHANGED <<written, commits, ev, consPc, delivered, gaveUp, read>>
        /\ Rows' = Rows
    BY <1>2 DEF RunMoves, RunStep, Run, RunStops, CloseReadsPosition,
                CloseSavesPosition, RunReturns, Rows
  <2>2. CASE Run
    <3>1. PICK p :
            \E failed \in BOOLEAN : p \in LoadPosition(failed) /\ start' = p /\ at' = p
      BY <2>2 DEF Run
    <3>2. /\ p \in Nat /\ ev = 0 /\ runPc' = "select" /\ canalPc' = "starting"
          /\ masterPos' = 0
      BY <2>2, <3>1 DEF Run, LoadPosition, PcInv
    <3> QED
      BY <2>1, <3>1, <3>2
  <2>3. CASE RunStops
    BY <2>1, <2>3 DEF RunStops
  <2>4. CASE CloseReadsPosition
    <3>1. /\ closePos' = masterPos /\ runPc' = "closing"
          /\ UNCHANGED <<canalPc, masterPos, at, start>>
      BY <2>4 DEF CloseReadsPosition
    <3>2. runPc # "idle"
      BY <2>4 DEF CloseReadsPosition
    <3> QED
      BY <2>1, <3>1, <3>2
  <2>5. CASE CloseSavesPosition
    BY <2>1, <2>5 DEF CloseSavesPosition
  <2>6. CASE RunReturns
    BY <2>1, <2>6 DEF RunReturns
  <2> QED
    BY <1>2, <2>2, <2>3, <2>4, <2>5, <2>6 DEF RunMoves, RunStep
<1>3. CASE CanalMoves
  <2>1. /\ UNCHANGED <<written, commits, start, runPc, closePos, ev, consPc,
                        delivered, gaveUp>>
        /\ Rows' = Rows
        /\ canalPc # "off"
    BY <1>3 DEF CanalMoves, CanalStep, CanalStarts, CanalRowsEvent, OnRowSend, OnRowCancelled,
                CanalTransactionEnd, OnPosSynced, CanalReturns, Rows
  <2>2. 0 \notin read'
    <3>1. \A i \in 1 .. Len(eventDataChan') : eventDataChan'[i] # 0
      <4>1. eventDataChan' \in Seq(1 .. MaxPos)
        <5>1. CASE OnRowSend
          <6>1. at + 1 \in 1 .. MaxPos
            BY <5>1 DEF OnRowSend
          <6> QED
            BY <5>1, <6>1 DEF OnRowSend
        <5>2. CASE ~OnRowSend
          BY <1>3, <5>2 DEF CanalMoves, CanalStep, CanalStarts, CanalRowsEvent, OnRowCancelled,
             CanalTransactionEnd, OnPosSynced, CanalReturns
        <5> QED
          BY <5>1, <5>2
      <4> QED
        BY <4>1
    <3> QED
      BY <1>3, <3>1 DEF CanalMoves
  <2>3. CASE CanalStarts
    <3>1. /\ canalPc = "starting" /\ masterPos' = start /\ at' = at
          /\ canalPc' = IF canalCancelled THEN "exited" ELSE "read"
      BY <2>3 DEF CanalStarts
    <3>2. runPc = "closing" => canalPc' = "exited"
      BY <3>1 DEF PcInv
    <3>3. at = start
      BY <3>1
    <3> QED
      BY <2>1, <2>2, <3>1, <3>2, <3>3
  <2>4. CASE ~CanalStarts
    <3>1. /\ canalPc \in {"read", "send", "sync"} /\ canalPc' # "starting"
          /\ \/ masterPos' = masterPos /\ at' \in {at, at + 1}
             \/ masterPos' = at + 1 /\ at' = at + 1
      BY <1>3, <2>4 DEF CanalMoves, CanalStep, CanalRowsEvent, OnRowSend, OnRowCancelled,
                        CanalTransactionEnd, OnPosSynced, CanalReturns
    <3>2. runPc = "closing" => start <= closePos
      BY <3>1
    <3> QED
      BY <2>1, <2>2, <3>1, <3>2
  <2> QED
    BY <2>3, <2>4
<1> QED
  BY <1>1, <1>2, <1>3

\* The consumer: the event it receives lies ahead of the one before, which was
\* sent or given up when it went back to receive.
LEMMA HandConsumerStep ==
  ASSUME IInv, HandInv, ConsumerStep
  PROVE  HandInv'
<1> USE DEF HandInv, NothingRead, IInv, TypeOK, SourceTypeOK, Positions, Settled
<1> USE DEF sourceVars, binlogVars, startVars, runVars, canalVars, historyVars
<1>0. /\ UNCHANGED <<runPc, closePos, canalPc, masterPos, at, start, written, commits, read>>
      /\ Rows' = Rows
  BY DEF ConsumerStep, ConsumerReceive, ConsumerExits, SendOk, SendFails,
     SendNotRetriable, BackoffElapsed, BackoffCancelled, Sending, Rows
<1>1. CASE ConsumerReceive
  <2>1. Head(eventDataChan) \in Queued
    BY <1>1 DEF ConsumerReceive, Queued
  <2>2. Head(eventDataChan) \in Rows /\ LastTaken < Head(eventDataChan)
    BY <2>1 DEF ChannelIsTheGap
  <2>3. start < Head(eventDataChan) /\ Head(eventDataChan) # 0
    BY <2>2 DEF LastTaken, Rows
  <2> QED
    BY <1>0, <1>1, <2>2, <2>3 DEF ConsumerReceive
<1>2. CASE ConsumerExits
  BY <1>0, <1>2 DEF ConsumerExits
<1>3. CASE SendOk \/ SendNotRetriable \/ BackoffElapsed \/ BackoffCancelled
  BY <1>0, <1>3 DEF SendOk, SendNotRetriable, BackoffElapsed, BackoffCancelled, Sending
<1>4. CASE SendFails
  <2>1. consPc = "send" /\ ev' = ev /\ delivered \subseteq delivered'
    BY <1>4 DEF SendFails, Sending
  <2>2. \/ consPc' = "backoff"
        \/ consPc' = "recv" /\ ev \in gaveUp'
    BY <1>4 DEF SendFails
  <2> QED
    BY <1>0, <2>1, <2>2
<1> QED
  BY <1>1, <1>2, <1>3, <1>4 DEF ConsumerStep

LEMMA HandStep ==
  ASSUME IInv, HandInv, [Next]_vars
  PROVE  HandInv'
<1> USE DEF vars, sourceVars, listenVars, consumerVars, historyVars, runVars,
            canalVars, binlogVars, startVars
<1>1. CASE RunMoves \/ CanalMoves \/ Commit
  BY <1>1, HandSourceStep
<1>2. CASE ConsumerStep
  BY <1>2, HandConsumerStep
<1>3. CASE Signal \/ Restart \/ MainSourceReturned \/ MainCloses \/ UNCHANGED vars
  BY <1>3 DEF Signal, Restart, MainSourceReturned, MainCloses, HandInv, NothingRead,
              Settled, Rows
<1>4. CASE Exit \/ Crash \/ Panic
  BY <1>4 DEF Exit, Crash, Panic, ProcessEnds, SourceDiscarded, HandInv, NothingRead
<1> QED
  BY <1>1, <1>2, <1>3, <1>4 DEF Next, Resting, MainStep

-----------------------------------------------------------------------------
(* Counting.                                                               *)

\* A sequence has no more elements than places.
LEMMA ElementsOfSeq ==
  ASSUME NEW S, NEW s \in Seq(S)
  PROVE  LET E == {s[i] : i \in 1 .. Len(s)}
         IN  IsFiniteSet(E) /\ Cardinality(E) <= Len(s)
<1> DEFINE E == {s[i] : i \in 1 .. Len(s)}
<1>1. Len(s) \in Nat /\ s \in [1 .. Len(s) -> E]
  OBVIOUS
<1>2. s \in Surjection(1 .. Len(s), E)
  BY <1>1 DEF Surjection
<1>3. IsFiniteSet(1 .. Len(s)) /\ Cardinality(1 .. Len(s)) = Len(s)
  BY Len(s) \in Nat, FS_Interval
<1> QED
  BY <1>2, <1>3, FS_Surjection

\* What the process holds in memory: the events of the channel and the one of
\* the consumer.
LEMMA HeldBounded ==
  ASSUME IInv
  PROVE  /\ IsFiniteSet(Queued \cup {ev})
         /\ Cardinality(Queued \cup {ev}) <= Cap + 1
         /\ IsFiniteSet(Queued) /\ Cardinality(Queued) <= Cap
<1>1. eventDataChan \in Seq(1 .. MaxPos) /\ Len(eventDataChan) <= Cap
  BY DEF IInv, TypeOK, SourceTypeOK
<1>2. IsFiniteSet(Queued) /\ Cardinality(Queued) <= Len(eventDataChan)
  BY <1>1, ElementsOfSeq DEF Queued
<1>3. Cardinality(Queued) \in Nat
  BY <1>2, FS_CardinalityType
<1>4. /\ IsFiniteSet(Queued \cup {ev})
      /\ Cardinality(Queued \cup {ev}) \in {Cardinality(Queued), Cardinality(Queued) + 1}
  BY <1>2, FS_AddElement
<1> QED
  BY <1>1, <1>2, <1>3, <1>4

LEMMA AbandonedFinite ==
  TypeOK => IsFiniteSet(Abandoned) /\ Cardinality(Abandoned) \in Nat /\ Ends \in Nat
<1> SUFFICES ASSUME TypeOK
             PROVE  IsFiniteSet(Abandoned) /\ Cardinality(Abandoned) \in Nat /\ Ends \in Nat
  OBVIOUS
<1>1. IsFiniteSet(0 .. MaxPos)
  BY FS_Interval
<1>0. Abandoned \in SUBSET (0 .. MaxPos)
  BY DEF TypeOK, Positions, Abandoned
<1>2. Ends \in Nat
  BY DEF TypeOK, Ends
<1> QED
  BY <1>0, <1>1, <1>2, FS_Subset, FS_CardinalityType

\* While a session lasts it abandons nothing: what it reads is in the channel,
\* and what leaves the channel is in the hands of the consumer until it is
\* settled.
LEMMA AbandonedShrinks ==
  ASSUME IInv, HandInv, [Next]_vars, ~(Exit \/ Crash \/ Panic)
  PROVE  Abandoned' \subseteq Abandoned /\ Ends' = Ends
<1> USE DEF vars, sourceVars, listenVars, consumerVars, historyVars, runVars,
            canalVars, binlogVars, startVars
<1> USE DEF Abandoned, Ends, Settled, Queued
<1>1. CASE Commit
  BY <1>1 DEF Commit
<1>2. CASE RunMoves
  <2>1. UNCHANGED <<read, delivered, gaveUp, eventDataChan, ev, sessions, up>>
    BY <1>2 DEF RunMoves, RunStep, Run, RunStops, CloseReadsPosition,
                CloseSavesPosition, RunReturns
  <2> QED
    BY <2>1
<1>3. CASE CanalMoves
  <2>1. /\ read' = read \cup Queued'
        /\ UNCHANGED <<delivered, gaveUp, ev, sessions, up>>
    BY <1>3 DEF CanalMoves
  <2>2. Queued \subseteq Queued'
    <3>1. CASE OnRowSend
      <4>1. /\ eventDataChan \in Seq(Nat) /\ at + 1 \in Nat
            /\ eventDataChan' = Append(eventDataChan, at + 1)
        BY <3>1 DEF OnRowSend, IInv, TypeOK, SourceTypeOK, Positions
      <4>2. /\ Len(eventDataChan') = Len(eventDataChan) + 1
            /\ \A i \in 1 .. Len(eventDataChan) : eventDataChan'[i] = eventDataChan[i]
        BY <4>1
      <4> QED
        BY <4>1, <4>2
    <3>2. CASE ~OnRowSend
      BY <1>3, <3>2 DEF CanalMoves, CanalStep, CanalStarts, CanalRowsEvent, OnRowCancelled,
         CanalTransactionEnd, OnPosSynced, CanalReturns
    <3> QED
      BY <3>1, <3>2
  <2> QED
    BY <2>1, <2>2
<1>4. CASE ConsumerStep
  <2>0. UNCHANGED <<read, sessions, up>> /\ Settled \subseteq Settled'
    BY <1>4 DEF ConsumerStep, ConsumerReceive, ConsumerExits, SendOk, SendFails,
       SendNotRetriable, BackoffElapsed, BackoffCancelled, Sending
  <2>1. CASE ConsumerReceive
    <3>1. /\ eventDataChan \in Seq(Nat) /\ eventDataChan # << >>
          /\ ev' = Head(eventDataChan) /\ eventDataChan' = Tail(eventDataChan)
          /\ ev = 0 \/ ev \in Settled
      BY <2>1 DEF ConsumerReceive, IInv, TypeOK, SourceTypeOK, HandInv
    <3>2. Queued \subseteq Queued' \cup {ev'}
      <4> SUFFICES ASSUME NEW i \in 1 .. Len(eventDataChan)
                   PROVE  eventDataChan[i] \in Queued' \cup {ev'}
        OBVIOUS
      <4>1. CASE i = 1
        BY <3>1, <4>1
      <4>2. CASE i # 1
        <5>1. i - 1 \in 1 .. Len(eventDataChan') /\ eventDataChan'[i - 1] = eventDataChan[i]
          BY <3>1, <4>2
        <5> QED
          BY <5>1
      <4> QED
        BY <4>1, <4>2
    <3> QED
      BY <2>0, <3>1, <3>2 DEF HandInv
  <2>2. CASE ~ConsumerReceive
    BY <1>4, <2>0, <2>2 DEF ConsumerStep, ConsumerExits, SendOk, SendFails,
       SendNotRetriable, BackoffElapsed, BackoffCancelled, Sending
  <2> QED
    BY <2>1, <2>2
<1>5. CASE Signal \/ MainSourceReturned \/ MainCloses \/ UNCHANGED vars
  BY <1>5 DEF Signal, MainSourceReturned, MainCloses
<1>6. CASE Restart
  BY <1>6 DEF Restart, IInv, TypeOK
<1> QED
  BY <1>1, <1>2, <1>3, <1>4, <1>5, <1>6 DEF Next, Resting, MainStep

\* The end of a session abandons what the process held.
LEMMA AbandonedAtEnd ==
  ASSUME TypeOK, Exit \/ Crash \/ Panic
  PROVE  /\ Abandoned' \subseteq Abandoned \cup (Queued \cup {ev})
         /\ Ends' = Ends + 1
<1>1. /\ UNCHANGED <<read, delivered, gaveUp, sessions>>
      /\ up /\ ~up'
  BY DEF Exit, Crash, Panic, ProcessEnds, SourceDiscarded
<1> QED
  BY <1>1 DEF TypeOK, Abandoned, Ends, Settled

LEMMA AbandonedStep ==
  ASSUME IInv, IInv', HandInv, AbandonedBounded, [Next]_vars
  PROVE  AbandonedBounded'
<1> USE DEF AbandonedBounded
<1>1. IsFiniteSet(Abandoned) /\ Cardinality(Abandoned) \in Nat /\ Ends \in Nat
  BY AbandonedFinite DEF IInv
<1>a. IsFiniteSet(Abandoned') /\ Cardinality(Abandoned') \in Nat
  <2>1. TypeOK'
    BY DEF IInv
  <2>2. (IsFiniteSet(Abandoned) /\ Cardinality(Abandoned) \in Nat /\ Ends \in Nat)'
    BY <2>1, AbandonedFinite, PTL
  <2> QED
    BY <2>2
<1>2. CASE ~(Exit \/ Crash \/ Panic)
  <2>1. Abandoned' \subseteq Abandoned /\ Ends' = Ends
    BY <1>2, AbandonedShrinks
  <2>2. Cardinality(Abandoned') <= Cardinality(Abandoned)
    BY <1>1, <2>1, FS_Subset
  <2> QED
    BY <1>1, <1>a, <2>1, <2>2
<1>3. CASE Exit \/ Crash \/ Panic
  <2> DEFINE Held == Queued \cup {ev}
  <2>1. Abandoned' \subseteq Abandoned \cup Held /\ Ends' = Ends + 1
    BY <1>3, AbandonedAtEnd DEF IInv
  <2>2. IsFiniteSet(Held) /\ Cardinality(Held) <= Cap + 1
    BY HeldBounded
  <2>3. /\ IsFiniteSet(Abandoned \cup Held)
        /\ Cardinality(Abandoned \cup Held)
              = Cardinality(Abandoned) + Cardinality(Held) - Cardinality(Abandoned \cap Held)
        /\ Cardinality(Abandoned \cap Held) \in Nat
        /\ Cardinality(Held) \in Nat
    <3> HIDE DEF Held
    <3> QED
      BY <1>1, <2>2, FS_Union, FS_Intersection, FS_CardinalityType
  <2>4. Cardinality(Abandoned') <= Cardinality(Abandoned \cup Held)
    <3> HIDE DEF Held
    <3> QED
      BY <2>1, <2>3, FS_Subset
  <2>5. Cardinality(Abandoned') <= (Cap + 1) * Ends + (Cap + 1)
    <3> HIDE DEF Held
    <3>1. (Cap + 1) * Ends \in Nat
      BY <1>1
    <3> QED
      BY <1>1, <1>a, <2>2, <2>3, <2>4, <3>1
  <2>6. (Cap + 1) * Ends + (Cap + 1) = (Cap + 1) * (Ends + 1)
    BY <1>1
  <2> QED
    BY <2>1, <2>5, <2>6
<1> QED
  BY <1>2, <1>3

THEOREM RelayInvariance == Spec => []RInv
<1> USE DEF RInv
<1>1. Init => RInv
  <2> SUFFICES ASSUME Init PROVE AbandonedBounded
    BY InitHand
  <2>1. Abandoned = {} /\ Ends = 0
    BY DEF Init, Abandoned, Ends
  <2> QED
    BY <2>1, FS_EmptySet DEF AbandonedBounded
<1>2. IInv /\ IInv' /\ RInv /\ [Next]_vars => RInv'
  BY HandStep, AbandonedStep
<1> QED
  BY <1>1, <1>2, Invariance, PTL DEF Spec

\* What the ends of its sessions cost the process is bounded by its channel and
\* the event its consumer holds, whatever stops it and wherever it resumes.
THEOREM LossCorrect == Spec => []LossBounded
<1>1. IInv /\ RInv => LossBounded
  <2> SUFFICES ASSUME IInv, RInv PROVE LossBounded
    OBVIOUS
  <2> USE DEF IInv, RInv, HandInv
  <2>1. Lost \subseteq Abandoned
    <3> SUFFICES ASSUME NEW p \in Lost PROVE p \notin Queued \cup {ev}
      BY DEF Lost, Abandoned
    <3>1. p \in read /\ p # 0 /\ ~(Running /\ start < p /\ LastTaken <= p)
      BY DEF Lost
    <3>2. CASE p \in Queued
      <4>1. p \in Nat /\ LastTaken \in Nat /\ start \in Nat /\ LastTaken < p /\ start <= LastTaken
        BY <3>2 DEF ChannelIsTheGap, Rows, LastTaken, TypeOK, SourceTypeOK, Positions
      <4>2. eventDataChan # << >>
        BY <3>2 DEF Queued
      <4>3. Running
        BY <4>2 DEF Running, PcInv, TypeOK, SourceTypeOK
      <4> QED
        BY <3>1, <4>1, <4>3
    <3>3. CASE p = ev
      <4>1. Running
        BY <3>1, <3>3 DEF Running, PcInv, TypeOK, SourceTypeOK
      <4>2. start < p /\ LastTaken = p /\ p \in Nat
        BY <3>1, <3>3 DEF LastTaken, TypeOK, Positions
      <4> QED
        BY <3>1, <4>1, <4>2
    <3> QED
      BY <3>2, <3>3
  <2>2. IsFiniteSet(Abandoned) /\ Cardinality(Abandoned) \in Nat /\ Ends \in Nat
    BY AbandonedFinite
  <2>3. Cardinality(Lost) <= Cardinality(Abandoned) /\ Cardinality(Lost) \in Nat
    BY <2>1, <2>2, FS_Subset, FS_CardinalityType
  <2>4. Cardinality(Lost) <= (Cap + 1) * Ends
    BY <2>2, <2>3 DEF AbandonedBounded
  <2> QED
    BY <2>4 DEF LossBounded, Ends
<1> QED
  BY <1>1, Invariance, RelayInvariance, PTL

-----------------------------------------------------------------------------
(* Listen implements Relay.                                                *)

\* The state of the relay, seen through the process.
Cursor == IF Running THEN LastTaken ELSE 0

Quiet == UNCHANGED <<written, commits, saved, Running, getFailed, start, Cursor,
                     delivered, gaveUp>>

\* The checkpoint canal or Close stores is at the end of a transaction this run
\* has read, and the rows below it that were not taken are in the channel.
LEMMA CheckpointIsAllowed ==
  ASSUME IInv, HandInv, Running, NEW p \in Boundaries, start <= p, p <= at
  PROVE  Cardinality(Abstract!RowsIn(Cursor, p)) <= Cap
<1>1. Abstract!RowsIn(Cursor, p) \subseteq Queued
  <2> SUFFICES ASSUME NEW r \in Abstract!RowsIn(Cursor, p) PROVE r \in Queued
    OBVIOUS
  <2>1. r \in Rows /\ LastTaken < r /\ r <= p
    BY DEF Abstract!RowsIn, Cursor, Rows
  <2>2. r \in Nat /\ p \in Nat /\ at \in Nat
    BY <2>1 DEF IInv, TypeOK, SourceTypeOK, Positions, Rows, Boundaries
  <2> QED
    BY <2>1, <2>2 DEF IInv, ChannelIsTheGap
<1>2. IsFiniteSet(Queued) /\ Cardinality(Queued) <= Cap /\ Cardinality(Queued) \in Nat
  BY HeldBounded, FS_CardinalityType
<1>3. /\ Cardinality(Abstract!RowsIn(Cursor, p)) <= Cardinality(Queued)
      /\ Cardinality(Abstract!RowsIn(Cursor, p)) \in Nat
  BY <1>1, <1>2, FS_Subset, FS_CardinalityType
<1> QED
  BY <1>2, <1>3

\* Relay counts with the Cardinality of its own instance.
LEMMA SameCardinality == \A S : Abstract!Cardinality(S) = Cardinality(S)
  BY DEF Abstract!Cardinality, Cardinality

\* A store of the position is a step of the relay, or none when it fails.
LEMMA StoreIsCheckpoint ==
  ASSUME IInv, HandInv, Running, NEW p \in Boundaries, start <= p, p <= at,
         saved' \in {saved, p}, Running',
         UNCHANGED <<written, commits, start, getFailed, ev, delivered, gaveUp>>
  PROVE  Abstract!Checkpoint \/ Quiet
<1>1. CASE saved' = saved
  BY <1>1 DEF Quiet, Cursor, LastTaken
<1>2. CASE saved' = p
  <2>1. p \in Abstract!Boundary
    BY DEF Abstract!Boundary, Boundaries
  <2>2. Cursor' = Cursor /\ Running' = Running
    BY DEF Cursor, LastTaken, Running
  <2>3. Cardinality(Abstract!RowsIn(Cursor, p)) <= Cap
    BY CheckpointIsAllowed
  <2>4. Abstract!Checkpoint
    BY <1>2, <2>1, <2>2, <2>3, SameCardinality DEF Abstract!Checkpoint, Abstract!runVars, Cursor
  <2> QED
    BY <2>4
<1> QED
  BY <1>1, <1>2

LEMMA SourceRefines ==
  ASSUME IInv, HandInv, Commit \/ RunMoves \/ CanalMoves
  PROVE  Abstract!Next \/ Quiet
<1> USE DEF IInv, TypeOK, SourceTypeOK, Positions
<1> USE DEF binlogVars, startVars, runVars, canalVars, listenVars, consumerVars, historyVars
<1>1. CASE Commit
  <2>1. UNCHANGED <<saved, Running, start, getFailed, Cursor, delivered, gaveUp>>
    BY <1>1 DEF Commit, Running, Cursor, LastTaken
  <2>2. Abstract!Commit
    BY <1>1, <2>1 DEF Commit, MasterCommit, Abstract!Commit, Abstract!runVars, Cursor
  <2> QED
    BY <2>2 DEF Abstract!Next
<1>2. CASE RunMoves
  <2>1. UNCHANGED <<written, commits, ev, delivered, gaveUp, up>> /\ up
    BY <1>2 DEF RunMoves, RunStep, Run, RunStops, CloseReadsPosition,
                CloseSavesPosition, RunReturns
  <2>2. CASE Run
    <3>1. PICK p : /\ start' = p /\ getFailed' \in BOOLEAN
                    /\ p \in LoadPosition(getFailed')
      BY <2>2 DEF Run
    <3>2. ~Running /\ Running' /\ Cursor' = p /\ saved' = saved
      BY <2>1, <2>2, <3>1 DEF Run, Running, Cursor, LastTaken, PcInv
    <3>3. p \in IF saved = 0 \/ getFailed' THEN {0, written} ELSE {saved}
      BY <3>1 DEF LoadPosition
    <3>4. Abstract!Begin
      BY <2>1, <3>1, <3>2, <3>3 DEF Abstract!Begin, Cursor
    <3> QED
      BY <3>4 DEF Abstract!Next
  <2>3. CASE RunStops \/ CloseReadsPosition \/ RunReturns
    <3>1. UNCHANGED <<saved, start, getFailed>> /\ runPc # "idle" /\ runPc' # "idle"
      BY <2>3 DEF RunStops, CloseReadsPosition, RunReturns
    <3> QED
      BY <2>1, <3>1 DEF Quiet, Running, Cursor, LastTaken
  <2>4. CASE CloseSavesPosition
    <3>1. /\ saved' \in {saved, closePos} /\ UNCHANGED <<start, getFailed>>
          /\ runPc = "closing" /\ runPc' = "closed"
      BY <2>4 DEF CloseSavesPosition, SavePosition, SavePositionFails
    <3>2. Running /\ Running'
      BY <2>1, <3>1 DEF Running
    <3>3. closePos \in Boundaries /\ closePos <= at
      BY <3>1 DEF CheckpointAtBoundary, HandInv
    <3>4. CASE start <= closePos
      <4>1. Abstract!Checkpoint \/ Quiet
        BY <2>1, <3>1, <3>2, <3>3, <3>4, StoreIsCheckpoint
      <4> QED
        BY <4>1 DEF Abstract!Next
    <3>5. CASE ~(start <= closePos)
      <4>1. closePos = 0 /\ at = start
        BY <3>1, <3>5 DEF HandInv, NothingRead
      <4>2. Cursor = start /\ Cursor' = start
        BY <2>1, <3>1, <3>2, <4>1 DEF Cursor, LastTaken, HandInv, ReachInv
      <4>3. CASE saved' = 0
        <5>1. Abstract!Forget
          BY <2>1, <3>1, <3>2, <4>2, <4>3 DEF Abstract!Forget, Abstract!runVars, Cursor,
             Running
        <5> QED
          BY <5>1 DEF Abstract!Next
      <4>4. CASE saved' = saved
        BY <2>1, <3>1, <3>2, <4>2, <4>4 DEF Quiet, Cursor
      <4> QED
        BY <3>1, <4>1, <4>3, <4>4
    <3> QED
      BY <3>4, <3>5
  <2> QED
    BY <1>2, <2>2, <2>3, <2>4 DEF RunMoves, RunStep
<1>3. CASE CanalMoves
  <2>1. /\ UNCHANGED <<written, commits, start, getFailed, runPc, ev, delivered,
                        gaveUp, up>>
        /\ up /\ canalPc # "off"
    BY <1>3 DEF CanalMoves, CanalStep, CanalStarts, CanalRowsEvent, OnRowSend, OnRowCancelled,
                CanalTransactionEnd, OnPosSynced, CanalReturns
  <2>2. Running /\ Running'
    BY <2>1 DEF Running, PcInv
  <2>3. CASE OnPosSynced
    <3>1. saved' \in {saved, at}
      BY <2>3 DEF OnPosSynced, SavePosition, SavePositionFails
    <3>2. at \in Boundaries /\ start <= at
      BY <2>2, <2>3 DEF OnPosSynced, ReachInv, Boundaries, HandInv, Running
    <3>3. Abstract!Checkpoint \/ Quiet
      BY <2>1, <2>2, <3>1, <3>2, StoreIsCheckpoint
    <3> QED
      BY <3>3 DEF Abstract!Next
  <2>4. CASE ~OnPosSynced
    <3>1. saved' = saved
      BY <1>3, <2>4 DEF CanalMoves, CanalStep, CanalStarts, CanalRowsEvent, OnRowSend,
                        OnRowCancelled, CanalTransactionEnd, CanalReturns
    <3> QED
      BY <2>1, <2>2, <3>1 DEF Quiet, Cursor, LastTaken
  <2> QED
    BY <2>3, <2>4
<1> QED
  BY <1>1, <1>2, <1>3

LEMMA ConsumerRefines ==
  ASSUME IInv, HandInv, ConsumerStep
  PROVE  Abstract!Next \/ Quiet
<1> USE DEF IInv, TypeOK, SourceTypeOK, Positions, HandInv
<1> USE DEF sourceVars, binlogVars, startVars, runVars, canalVars, historyVars
<1>0. UNCHANGED <<written, commits, saved, start, getFailed, runPc, up>>
  BY DEF ConsumerStep, ConsumerReceive, ConsumerExits, SendOk, SendFails,
     SendNotRetriable, BackoffElapsed, BackoffCancelled, Sending
<1>1. Running' = Running
  BY <1>0 DEF Running
<1>2. CASE ConsumerReceive
  <2>1. /\ eventDataChan # << >> /\ ev' = Head(eventDataChan)
        /\ ev = 0 \/ ev \in Settled
        /\ UNCHANGED <<delivered, gaveUp>>
    BY <1>2 DEF ConsumerReceive
  <2>2. Running
    BY <1>2 DEF ConsumerReceive, Running, PcInv
  <2>3. /\ ev' \in Queued
        /\ \A r \in Queued : ev' <= r
    <3>1. /\ eventDataChan \in Seq(Nat) /\ eventDataChan # << >>
          /\ \A i, j \in 1 .. Len(eventDataChan) :
               i < j => eventDataChan[i] < eventDataChan[j]
      BY <2>1 DEF ChannelIsTheGap
    <3>2. ev' = eventDataChan[1] /\ 1 \in 1 .. Len(eventDataChan)
      BY <2>1, <3>1
    <3> QED
      BY <3>1, <3>2 DEF Queued
  <2>4. /\ ev' \in Rows /\ ev' \in Nat /\ LastTaken \in Nat /\ at \in Nat
        /\ LastTaken < ev' /\ ev' <= at
    BY <2>3 DEF ChannelIsTheGap, Rows, LastTaken
  <2>5. Cursor = LastTaken /\ Cursor' = ev' /\ ev' # 0
    BY <1>0, <1>1, <2>2, <2>4 DEF Cursor, LastTaken
  <2>6. ev' \in Abstract!RowsIn(Cursor, written)
    BY <2>4, <2>5 DEF Abstract!RowsIn, Rows
  <2>7. Abstract!RowsIn(Cursor, ev' - 1) = {}
    <3> SUFFICES ASSUME NEW r \in Abstract!RowsIn(Cursor, ev' - 1) PROVE FALSE
      OBVIOUS
    <3>1. r \in Rows /\ r \in Nat /\ LastTaken < r /\ r <= ev' - 1
      BY <2>5 DEF Abstract!RowsIn, Rows
    <3>0. r < ev'
      <4>1. \A a, b \in Nat : a <= b - 1 => a < b
        OBVIOUS
      <4> QED
        BY <2>4, <3>1, <4>1
    <3>2. r <= at
      BY <2>4, <3>1, <3>0
    <3>3. r \in Queued
      BY <3>1, <3>2 DEF ChannelIsTheGap
    <3> QED
      BY <2>3, <2>4, <3>0, <3>1, <3>3
  <2>8. Cursor \in delivered \cup gaveUp \cup {start}
    BY <2>1, <2>5 DEF LastTaken, Settled
  <2>9. Abstract!Take
    BY <1>0, <1>1, <2>1, <2>2, <2>5, <2>6, <2>7, <2>8 DEF Abstract!Take, Abstract!runVars, Cursor
  <2> QED
    BY <2>9 DEF Abstract!Next
<1>3. CASE ConsumerExits \/ BackoffElapsed
  BY <1>0, <1>1, <1>3 DEF ConsumerExits, BackoffElapsed, Sending, Quiet, Cursor, LastTaken
<1>4. CASE SendOk \/ SendFails \/ SendNotRetriable \/ BackoffCancelled
  <2>1. /\ ev' = ev /\ up /\ consPc \in {"send", "backoff"}
        /\ delivered' \in {delivered, delivered \cup {ev}}
        /\ gaveUp' \in {gaveUp, gaveUp \cup {ev}}
    BY <1>4 DEF SendOk, SendFails, SendNotRetriable, BackoffCancelled, Sending
  <2>2. ev # 0 /\ Running
    BY <2>1 DEF Running, PcInv
  <2>3. Cursor = ev /\ Cursor' = ev /\ start < ev
    BY <1>0, <1>1, <2>1, <2>2 DEF Cursor, LastTaken
  <2>4. CASE UNCHANGED <<delivered, gaveUp>>
    BY <1>0, <1>1, <2>3, <2>4 DEF Quiet
  <2>5. CASE ~UNCHANGED <<delivered, gaveUp>>
    <3>1. Abstract!Settle
      BY <1>0, <1>1, <2>1, <2>2, <2>3, <2>5 DEF Abstract!Settle, Abstract!runVars, Cursor
    <3> QED
      BY <3>1 DEF Abstract!Next
  <2> QED
    BY <2>4, <2>5
<1> QED
  BY <1>2, <1>3, <1>4 DEF ConsumerStep

LEMMA EndRefines ==
  ASSUME IInv, Exit \/ Crash \/ Panic
  PROVE  Abstract!Next \/ Quiet
<1>1. /\ ~Running' /\ start' = 0 /\ getFailed' = FALSE /\ Cursor' = 0
      /\ UNCHANGED <<written, commits, saved, delivered, gaveUp>>
  BY DEF Exit, Crash, Panic, ProcessEnds, SourceDiscarded, Running, Cursor, binlogVars
<1>2. CASE Running
  BY <1>1, <1>2 DEF Abstract!Next, Abstract!End, Cursor
<1>3. CASE ~Running
  <2>1. runPc = "idle" /\ start = 0 /\ getFailed = FALSE /\ Cursor = 0
    BY <1>3 DEF Running, Cursor, IInv, PcInv, TypeOK, SourceTypeOK
  <2> QED
    BY <1>1, <1>3, <2>1 DEF Quiet, Running
<1> QED
  BY <1>2, <1>3

\* The process implements the relay: with goroutines, a channel, retries,
\* crashes and failing stores it does nothing the relay would not do.
THEOREM RelayCorrect == Spec => RelaySpec
<1>1. Init => Abstract!Init
  BY DEF Init, MasterInit, SourceIdle, Abstract!Init, Running
<1>2. IInv /\ RInv /\ [Next]_vars => [Abstract!Next]_(Abstract!abstractVars)
  <2> SUFFICES ASSUME IInv, HandInv, [Next]_vars PROVE Abstract!Next \/ Quiet
    BY DEF RInv, Quiet, Cursor, Abstract!abstractVars, Abstract!runVars
  <2> USE DEF vars, sourceVars, listenVars, consumerVars, historyVars, runVars,
              canalVars, binlogVars, startVars
  <2>1. CASE Commit \/ RunMoves \/ CanalMoves
    BY <2>1, SourceRefines
  <2>2. CASE ConsumerStep
    BY <2>2, ConsumerRefines
  <2>3. CASE Signal \/ Restart \/ MainSourceReturned \/ MainCloses \/ UNCHANGED vars
    BY <2>3 DEF Signal, Restart, MainSourceReturned, MainCloses, Quiet, Running, Cursor,
                LastTaken, IInv, PcInv
  <2>4. CASE Exit \/ Crash \/ Panic
    BY <2>4, EndRefines
  <2> QED
    BY <2>1, <2>2, <2>3, <2>4 DEF Next, Resting, MainStep
<1> QED
  BY <1>1, <1>2, Invariance, RelayInvariance, PTL DEF Spec, RelaySpec, Abstract!Spec

=============================================================================
