---------------------------- MODULE FileStoreProofs ----------------------------
(* Theorems about FileStore, for any number of callers, keys, values, calls *)
(* and crashes, and every environment.                                      *)
EXTENDS FileStore, TLAPS

USE FileStoreAssumption DEF FileStoreAssumption

CallRecord ==
  [op : {"none"} \cup Writers \cup Readers, key : Keys \cup {None},
   value : Values \cup {None},
   pc : {"idle", "lock", "create", "write", "close", "chmod", "rename", "clean",
         "read", "stat", "look", "remove", "return"},
   result : {"none", "ok", "failed", "absent", "yes", "no", Part} \cup Values,
   made : 0 .. MaxCalls]

Types ==
  /\ files \in [Keys -> File \cup {None}]
  /\ temps \in [TempNames -> File \cup {None}]
  /\ calls \in [Callers -> CallRecord]
  /\ up \in BOOLEAN
  /\ crashes \in 0 .. MaxCrashes /\ outages \in 0 .. crashes
  /\ cut \subseteq TempNames

\* A Set may have its temporary file.
MayHaveTemp(r) == r.pc \in {"write", "close", "chmod", "rename", "clean"}

\* A call holds the lock of its key.
Locked(r) == r.pc \notin {"idle", "lock"}

\* The place of a call: it has a result once its operation is over.
Stage(r) ==
  /\ CallOK(r)
  /\ r.pc = "idle" \/ r.made # 0
  /\ r.result = "none" <=> r.pc \notin {"clean", "return"}

\* The temporary file of a Set is whole before it takes its name.
Written(r, temp) ==
  /\ r.pc \in {"write", "close", "chmod", "rename"} =>
       temp \in File /\ temp.value = r.value /\ ~temp.synced
  /\ r.pc \in {"close", "chmod", "rename"} => temp.whole

\* Writers hold the lock of a key alone.
Exclusive ==
  \A c \in Callers : \A d \in Callers \ {c} :
    Locked(calls[c]) /\ Locked(calls[d]) /\ calls[c].key = calls[d].key
      => {calls[c].op, calls[d].op} \subseteq Readers

\* A temporary file that is there has its Set, or was left behind.
InUse ==
  \A x \in TempNames \ cut :
    temps[x] # None => TempOf(x[1]) = x /\ MayHaveTemp(calls[x[1]])

IInv ==
  /\ Types
  /\ \A c \in Callers : Stage(calls[c]) /\ Written(calls[c], temps[TempOf(c)])
  /\ Exclusive
  /\ InUse

\* What the disk may have of a key are files, and the file of the key is one of
\* them.
DiskOK ==
  /\ onDisk \in [Keys -> SUBSET (File \cup {None})]
  /\ \A k \in Keys : files[k] \in onDisk[k]

-----------------------------------------------------------------------------

LEMMA Places ==
  /\ PcOf["none"] = {"idle"}
  /\ PcOf["Get"] = {"lock", "read", "return"}
  /\ PcOf["Has"] = {"lock", "stat", "return"}
  /\ PcOf["Delete"] = {"lock", "look", "remove", "return"}
  /\ PcOf["Set"] = {"lock", "create", "write", "close", "chmod", "rename", "clean", "return"}
  BY DEF PcOf

\* Which operation a call at a place belongs to.
LEMMA OpOf ==
  ASSUME NEW r \in CallRecord, CallOK(r)
  PROVE  /\ r.pc = "idle" <=> r.op = "none"
         /\ r.pc \in {"create", "write", "close", "chmod", "rename", "clean"} => r.op = "Set"
         /\ r.pc = "read" => r.op = "Get"
         /\ r.pc = "stat" => r.op = "Has"
         /\ r.pc \in {"look", "remove"} => r.op = "Delete"
<1>1. r.op \in {"none", "Set", "Delete", "Get", "Has"} /\ r.pc \in PcOf[r.op]
  BY DEF CallOK, Writers, Readers
<1> QED
  BY <1>1, Places

\* A call goes on, with or without a result.
LEMMA GoesOnOK ==
  ASSUME NEW r \in CallRecord, Stage(r), NEW to, to \in PcOf[r.op], NEW result,
         result \in {"none", "ok", "failed", "absent", "yes", "no", Part} \cup Values,
         result = "none" <=> to \notin {"clean", "return"},
         r.pc # "idle"
  PROVE  /\ [r EXCEPT !.pc = to, !.result = result] \in CallRecord
         /\ Stage([r EXCEPT !.pc = to, !.result = result])
<1>1. r.op \in {"none", "Set", "Delete", "Get", "Has"}
  BY DEF CallRecord, Writers, Readers
<1>2. to \in {"idle", "lock", "create", "write", "close", "chmod", "rename", "clean",
              "read", "stat", "look", "remove", "return"}
  BY <1>1, Places
<1>3. [r EXCEPT !.pc = to, !.result = result] \in CallRecord
  BY <1>2 DEF CallRecord
<1> QED
  BY <1>3 DEF Stage, CallOK, CallRecord

\* One call moves, with its own temporary file, and holds the lock or waits
\* for nobody.
LEMMA OneCall ==
  ASSUME IInv, NEW c \in Callers, NEW r \in CallRecord, Stage(r),
         r.made = calls[c].made, calls' = [calls EXCEPT ![c] = r],
         files' \in [Keys -> File \cup {None}],
         NEW temp \in File \cup {None}, temps' = [temps EXCEPT ![TempOf(c)] = temp],
         Written(r, temp),
         cut \subseteq cut', cut' \subseteq TempNames, UNCHANGED <<up, ends>>,
         temp # None => MayHaveTemp(r) \/ TempOf(c) \in cut',
         Locked(r) => /\ r.key = calls[c].key /\ r.op = calls[c].op
                      /\ Locked(calls[c]) \/ MayLock(c)
  PROVE  IInv'
<1>1. Types'
  BY DEF IInv, Types, ends
<1>2. calls'[c] = r /\ \A d \in Callers \ {c} : calls'[d] = calls[d]
  BY DEF IInv, Types
<1>3. \A d \in Callers : TempOf(d)' = TempOf(d)
  BY <1>2 DEF TempOf
<1>4. \A x \in TempNames : temps'[x] = IF x = TempOf(c) THEN temp ELSE temps[x]
  BY DEF IInv, Types
<1>5. ASSUME NEW d \in Callers
      PROVE  (Stage(calls[d]) /\ Written(calls[d], temps[TempOf(d)]))'
  <2>1. CASE d = c
    <3>1. r.pc = "idle" \/ TempOf(c) \in TempNames
      BY DEF Stage, CallOK, TempOf, TempNames
    <3> QED
      BY <1>2, <1>3, <1>4, <2>1, <3>1 DEF Written
  <2>2. CASE d # c
    <3>1. TempOf(d) # TempOf(c)
      BY <2>2 DEF TempOf
    <3>2. calls[d].pc = "idle" \/ TempOf(d) \in TempNames
      BY DEF IInv, Stage, CallOK, TempOf, TempNames
    <3> QED
      BY <1>2, <1>3, <1>4, <2>2, <3>1, <3>2 DEF IInv, Written
  <2> QED
    BY <2>1, <2>2
<1>6. Exclusive'
  BY <1>2 DEF IInv, Exclusive, MayLock, Holds, Locked
<1>7. InUse'
  <2> SUFFICES ASSUME NEW x \in TempNames \ cut', temps'[x] # None
               PROVE  TempOf(x[1])' = x /\ MayHaveTemp(calls'[x[1]])
    BY DEF InUse
  <2>1. x[1] \in Callers
    BY DEF TempNames
  <2>2. CASE x = TempOf(c)
    <3>1. x[1] = c
      BY <2>2 DEF TempOf
    <3> QED
      BY <1>2, <1>3, <1>4, <2>2, <3>1
  <2>3. CASE x # TempOf(c)
    <3>1. TempOf(x[1]) = x /\ MayHaveTemp(calls[x[1]])
      BY <1>4, <2>3 DEF IInv, InUse
    <3> QED
      BY <1>2, <1>3, <2>1, <2>3, <3>1
  <2> QED
    BY <2>2, <2>3
<1> QED
  BY <1>1, <1>5, <1>6, <1>7 DEF IInv

\* The same without a change of its temporary file.
LEMMA OneCallSameTemp ==
  ASSUME IInv, NEW c \in Callers, NEW r \in CallRecord, Stage(r),
         r.made = calls[c].made, r.made # 0, calls' = [calls EXCEPT ![c] = r],
         files' \in [Keys -> File \cup {None}], UNCHANGED temps,
         Written(r, temps[TempOf(c)]),
         cut \subseteq cut', cut' \subseteq TempNames, UNCHANGED <<up, ends>>,
         MayHaveTemp(calls[c]) => MayHaveTemp(r) \/ TempOf(c) \in cut',
         Locked(r) => /\ r.key = calls[c].key /\ r.op = calls[c].op
                      /\ Locked(calls[c]) \/ MayLock(c)
  PROVE  IInv'
<1>1. TempOf(c) \in TempNames
  BY DEF Stage, CallOK, TempOf, TempNames
<1>2. /\ temps[TempOf(c)] \in File \cup {None}
      /\ temps' = [temps EXCEPT ![TempOf(c)] = temps[TempOf(c)]]
  BY <1>1 DEF IInv, Types
<1>3. temps[TempOf(c)] # None => MayHaveTemp(r) \/ TempOf(c) \in cut'
  BY <1>1 DEF IInv, InUse, TempOf
<1> QED
  BY <1>2, <1>3, OneCall

\* A call under way goes on at another step of its operation.
Moves(c, to, result) ==
  /\ calls' = [calls EXCEPT ![c] = [calls[c] EXCEPT !.pc = to, !.result = result]]
  /\ calls[c].pc # "idle" /\ to \in PcOf[calls[c].op]
  /\ result \in {"none", "ok", "failed", "absent", "yes", "no", Part} \cup Values
  /\ result = "none" <=> to \notin {"clean", "return"}
  /\ Locked(calls[c]) \/ MayLock(c)
  /\ UNCHANGED <<up, ends>>

\* The call after its move.
LEMMA MovesTo ==
  ASSUME IInv, NEW c \in Callers, NEW to, NEW result, Moves(c, to, result)
  PROVE  \E r \in CallRecord :
           /\ calls' = [calls EXCEPT ![c] = r]
           /\ Stage(r) /\ r.made # 0
           /\ r.pc = to /\ r.made = calls[c].made /\ r.key = calls[c].key
           /\ r.op = calls[c].op /\ r.value = calls[c].value /\ r.result = result
<1> DEFINE r == [calls[c] EXCEPT !.pc = to, !.result = result]
<1>1. calls[c] \in CallRecord /\ Stage(calls[c])
  BY DEF IInv, Types
<1>2. r \in CallRecord /\ Stage(r)
  BY <1>1, GoesOnOK DEF Moves
<1>3. /\ r.pc = to /\ r.made = calls[c].made /\ r.key = calls[c].key
      /\ r.op = calls[c].op /\ r.value = calls[c].value /\ r.result = result
  BY <1>1 DEF CallRecord
<1>4. r.made # 0
  BY <1>1, <1>3 DEF Stage, Moves
<1>5. calls' = [calls EXCEPT ![c] = r]
  BY DEF Moves
<1> QED
  BY <1>2, <1>3, <1>4, <1>5

LEMMA MoveSameTemp ==
  ASSUME IInv, NEW c \in Callers, NEW to, NEW result, Moves(c, to, result),
         files' \in [Keys -> File \cup {None}], UNCHANGED temps,
         cut \subseteq cut', cut' \subseteq TempNames,
         to # "write",
         to \in {"close", "chmod", "rename"} => calls[c].pc \in {"close", "chmod"},
         MayHaveTemp(calls[c]) =>
           to \in {"close", "chmod", "rename", "clean"} \/ TempOf(c) \in cut'
  PROVE  IInv'
<1>1. PICK r \in CallRecord :
        /\ calls' = [calls EXCEPT ![c] = r]
        /\ Stage(r) /\ r.made # 0
        /\ r.pc = to /\ r.made = calls[c].made /\ r.key = calls[c].key
        /\ r.op = calls[c].op /\ r.value = calls[c].value
  BY MovesTo
<1>2. Written(r, temps[TempOf(c)])
  BY <1>1 DEF Written, IInv
<1>3. MayHaveTemp(calls[c]) => MayHaveTemp(r) \/ TempOf(c) \in cut'
  BY <1>1 DEF MayHaveTemp
<1> QED
  BY <1>1, <1>2, <1>3, OneCallSameTemp DEF Moves

LEMMA MoveWithTemp ==
  ASSUME IInv, NEW c \in Callers, NEW to, NEW result, Moves(c, to, result),
         files' \in [Keys -> File \cup {None}],
         NEW temp \in File \cup {None}, temps' = [temps EXCEPT ![TempOf(c)] = temp],
         UNCHANGED cut,
         \/ temp = None /\ to \in {"clean", "return"}
         \/ /\ temp \in File /\ temp.value = calls[c].value /\ ~temp.synced
            /\ to = "write" \/ (to = "close" /\ temp.whole)
  PROVE  IInv'
<1>1. PICK r \in CallRecord :
        /\ calls' = [calls EXCEPT ![c] = r]
        /\ Stage(r) /\ r.made # 0
        /\ r.pc = to /\ r.made = calls[c].made /\ r.key = calls[c].key
        /\ r.op = calls[c].op /\ r.value = calls[c].value
  BY MovesTo
<1>2. Written(r, temp) /\ (temp # None => MayHaveTemp(r))
  BY <1>1 DEF Written, MayHaveTemp
<1>3. cut \subseteq cut' /\ cut' \subseteq TempNames
  BY DEF IInv, Types
<1> QED
  BY <1>1, <1>2, <1>3, OneCall DEF Moves

-----------------------------------------------------------------------------
(* The steps.                                                              *)

\* The operation of a call that is at one of its steps.
LEMMA AtStep ==
  ASSUME IInv, NEW c \in Callers, calls[c].pc # "idle"
  PROVE  /\ calls[c] \in CallRecord /\ Stage(calls[c])
         /\ calls[c].pc \in {"create", "write", "close", "chmod", "rename", "clean"}
              => calls[c].op = "Set" /\ calls[c].value \in Values
         /\ calls[c].pc = "read" => calls[c].op = "Get"
         /\ calls[c].pc = "stat" => calls[c].op = "Has"
         /\ calls[c].pc \in {"look", "remove"} => calls[c].op = "Delete"
         /\ calls[c].op # "none" /\ calls[c].key \in Keys
         /\ TempOf(c) \in TempNames
         /\ calls[c].result = "none" <=> calls[c].pc \notin {"clean", "return"}
<1>1. calls[c] \in CallRecord /\ Stage(calls[c]) /\ CallOK(calls[c])
  BY DEF IInv, Types, Stage
<1>2. calls[c].op # "none"
  BY <1>1, OpOf
<1>3. calls[c].op = "Set" => calls[c].value \in Values
  BY <1>1 DEF CallOK
<1>4. calls[c].key \in Keys
  BY <1>1, <1>2 DEF CallOK
<1>5. TempOf(c) \in TempNames
  BY <1>1 DEF Stage, CallOK, TempOf, TempNames
<1> QED
  BY <1>1, <1>2, <1>3, <1>4, <1>5, OpOf DEF Stage

\* A step of an operation under the lock is a move.
LEMMA StepMoves ==
  ASSUME IInv, NEW c \in Callers, NEW from, NEW to, NEW result,
         \/ GoesOn(c, from, to) /\ result = calls[c].result
         \/ Results(c, from, to, result),
         from \notin {"idle", "lock"}, to \in PcOf[calls[c].op],
         result \in {"none", "ok", "failed", "absent", "yes", "no", Part} \cup Values,
         result = "none" <=> to \notin {"clean", "return"}
  PROVE  Moves(c, to, result)
<1>1. calls[c].pc = from /\ UNCHANGED <<up, ends>>
  BY DEF GoesOn, Results
<1>2. calls[c] \in CallRecord /\ calls \in [Callers -> CallRecord]
  BY DEF IInv, Types
<1>3. [calls[c] EXCEPT !.pc = to] = [calls[c] EXCEPT !.pc = to, !.result = calls[c].result]
  BY <1>2 DEF CallRecord
<1>4. calls' = [calls EXCEPT ![c] = [calls[c] EXCEPT !.pc = to, !.result = result]]
  BY <1>2, <1>3 DEF GoesOn, Results
<1> QED
  BY <1>1, <1>4 DEF Moves, Locked

LEMMA LockKeeps ==
  ASSUME IInv, NEW c \in Callers, Lock(c)
  PROVE  IInv'
<1> DEFINE to == FirstStep[calls[c].op]
<1>1. /\ calls[c].pc = "lock" /\ MayLock(c) /\ UNCHANGED <<files, temps, up, ends, cut>>
      /\ calls' = [calls EXCEPT ![c].pc = to]
  BY DEF Lock
<1>2. calls[c].op \in {"Set", "Get", "Has", "Delete"} /\ calls[c] \in CallRecord
      /\ calls[c].result = "none"
  BY <1>1, AtStep DEF CallRecord, Writers, Readers
<1>3. to \in PcOf[calls[c].op] /\ to \in {"create", "read", "stat", "look"}
  BY <1>2, Places DEF FirstStep
<1> HIDE DEF to
<1>4. calls' = [calls EXCEPT ![c] = [calls[c] EXCEPT !.pc = to, !.result = "none"]]
  <2>1. [calls[c] EXCEPT !.pc = to] = [calls[c] EXCEPT !.pc = to, !.result = "none"]
    BY <1>2 DEF CallRecord
  <2> QED
    BY <1>1, <2>1 DEF IInv, Types
<1>5. Moves(c, to, "none")
  BY <1>1, <1>2, <1>3, <1>4 DEF Moves, ends
<1>6. files' \in [Keys -> File \cup {None}] /\ cut \subseteq cut' /\ cut' \subseteq TempNames
  BY <1>1 DEF IInv, Types
<1> QED
  BY <1>1, <1>3, <1>5, <1>6, MoveSameTemp DEF MayHaveTemp

LEMMA SetKeeps ==
  ASSUME IInv, NEW c \in Callers,
         CreateTemp(c) \/ Write(c) \/ CloseTemp(c) \/ Chmod(c) \/ Rename(c) \/ Clean(c)
  PROVE  IInv'
<1>1. /\ files \in [Keys -> File \cup {None}] /\ temps \in [TempNames -> File \cup {None}]
      /\ cut \subseteq TempNames /\ Written(calls[c], temps[TempOf(c)])
  BY DEF IInv, Types
<1> DEFINE pc == calls[c].pc
<1>2. ASSUME pc \in {"create", "write", "close", "chmod", "rename", "clean"}
      PROVE  /\ PcOf[calls[c].op] = {"lock", "create", "write", "close", "chmod", "rename",
                                     "clean", "return"}
             /\ calls[c].value \in Values /\ TempOf(c) \in TempNames /\ calls[c].key \in Keys
             /\ calls[c].result = "none" <=> pc # "clean"
             /\ calls[c].result \in {"none", "ok", "failed", "absent", "yes", "no", Part}
                                      \cup Values
  BY <1>2, AtStep, Places DEF CallRecord
<1>3. CASE CreateTemp(c)
  <2>1. CASE GoesOn(c, "create", "write")
             /\ temps' = [temps EXCEPT ![TempOf(c)] = NewFile(calls[c].value)]
    <3>1. pc = "create" /\ UNCHANGED <<files, cut>>
      BY <1>3, <2>1 DEF CreateTemp, GoesOn
    <3>2. Moves(c, "write", "none")
      BY <1>2, <2>1, <3>1, StepMoves
    <3> DEFINE temp == NewFile(calls[c].value)
    <3>3. temp \in File /\ temp.value = calls[c].value /\ ~temp.synced
      BY <1>2, <3>1 DEF File, NewFile
    <3>4. temps' = [temps EXCEPT ![TempOf(c)] = temp]
      BY <2>1
    <3> HIDE DEF temp
    <3> QED
      BY <1>1, <3>1, <3>2, <3>3, <3>4, MoveWithTemp
  <2>2. CASE Results(c, "create", "return", "failed") /\ UNCHANGED temps
    <3>1. pc = "create" /\ UNCHANGED <<files, cut>>
      BY <1>3, <2>2 DEF CreateTemp, Results
    <3>2. Moves(c, "return", "failed")
      BY <1>2, <2>2, <3>1, StepMoves
    <3> QED
      BY <1>1, <2>2, <3>1, <3>2, MoveSameTemp DEF MayHaveTemp
  <2> QED
    BY <1>3, <2>1, <2>2 DEF CreateTemp
<1>4. CASE Write(c)
  <2>1. CASE GoesOn(c, "write", "close") /\ temps' = [temps EXCEPT ![TempOf(c)].whole = TRUE]
    <3>1. pc = "write" /\ UNCHANGED <<files, cut>>
      BY <1>4, <2>1 DEF Write, GoesOn
    <3>2. Moves(c, "close", "none")
      BY <1>2, <2>1, <3>1, StepMoves
    <3> DEFINE temp == [temps[TempOf(c)] EXCEPT !.whole = TRUE]
    <3>3. /\ temps[TempOf(c)] \in File /\ temps[TempOf(c)].value = calls[c].value
          /\ ~temps[TempOf(c)].synced
      BY <1>1, <3>1 DEF Written
    <3>4. temp \in File /\ temp.value = calls[c].value /\ temp.whole /\ ~temp.synced
      BY <3>3 DEF File
    <3>5. temps' = [temps EXCEPT ![TempOf(c)] = temp]
      BY <1>1, <2>1
    <3> HIDE DEF temp
    <3> QED
      BY <1>1, <3>1, <3>2, <3>4, <3>5, MoveWithTemp
  <2>2. CASE Results(c, "write", "clean", "failed") /\ UNCHANGED temps
    <3>1. pc = "write" /\ UNCHANGED <<files, cut>>
      BY <1>4, <2>2 DEF Write, Results
    <3>2. Moves(c, "clean", "failed")
      BY <1>2, <2>2, <3>1, StepMoves
    <3> QED
      BY <1>1, <2>2, <3>1, <3>2, MoveSameTemp
  <2> QED
    BY <1>4, <2>1, <2>2 DEF Write
<1>5. CASE CloseTemp(c)
  <2>1. pc = "close" /\ UNCHANGED <<files, temps, cut>>
    BY <1>5 DEF CloseTemp, GoesOn, Results
  <2>2. Moves(c, "chmod", "none") \/ Moves(c, "clean", "failed")
    BY <1>2, <1>5, <2>1, StepMoves DEF CloseTemp
  <2> QED
    BY <1>1, <2>1, <2>2, MoveSameTemp
<1>6. CASE Chmod(c)
  <2>1. pc = "chmod" /\ UNCHANGED <<files, temps, cut>>
    BY <1>6 DEF Chmod, GoesOn, Results
  <2>2. Moves(c, "rename", "none") \/ Moves(c, "clean", "failed")
    BY <1>2, <1>6, <2>1, StepMoves DEF Chmod
  <2> QED
    BY <1>1, <2>1, <2>2, MoveSameTemp
<1>7. CASE Rename(c)
  <2>1. pc = "rename" /\ UNCHANGED cut
    BY <1>7 DEF Rename, Results
  <2>2. CASE /\ Results(c, "rename", "clean", "ok")
             /\ files' = [files EXCEPT ![calls[c].key] = temps[TempOf(c)]]
             /\ temps' = [temps EXCEPT ![TempOf(c)] = None]
    <3>1. Moves(c, "clean", "ok")
      BY <1>2, <2>1, <2>2, StepMoves
    <3>2. temps[TempOf(c)] \in File \cup {None} /\ calls[c].key \in Keys
      BY <1>1, <1>2, <2>1
    <3>3. files' \in [Keys -> File \cup {None}]
      BY <1>1, <2>2, <3>2
    <3> DEFINE temp == None
    <3>4. temp \in File \cup {None} /\ temp = None
      OBVIOUS
    <3>5. temps' = [temps EXCEPT ![TempOf(c)] = temp]
      BY <2>2
    <3> HIDE DEF temp
    <3> QED
      BY <2>1, <3>1, <3>3, <3>4, <3>5, MoveWithTemp
  <2>3. CASE Results(c, "rename", "clean", "failed") /\ UNCHANGED <<files, temps>>
    <3>1. Moves(c, "clean", "failed")
      BY <1>2, <2>1, <2>3, StepMoves
    <3> QED
      BY <1>1, <2>1, <2>3, <3>1, MoveSameTemp
  <2> QED
    BY <1>7, <2>2, <2>3 DEF Rename, Put
<1>8. CASE Clean(c)
  <2>1. pc = "clean" /\ UNCHANGED files /\ GoesOn(c, "clean", "return")
    BY <1>8 DEF Clean, GoesOn
  <2>2. Moves(c, "return", calls[c].result)
    <3>1. "return" \in PcOf[calls[c].op] /\ calls[c].result # "none"
          /\ calls[c].result \in {"none", "ok", "failed", "absent", "yes", "no", Part}
                                   \cup Values
      BY <1>2, <2>1
    <3> QED
      BY <2>1, <3>1, StepMoves
  <2>3. CASE temps' = [temps EXCEPT ![TempOf(c)] = None] /\ UNCHANGED cut
    <3> DEFINE temp == None
    <3>1. temp \in File \cup {None} /\ temp = None
      OBVIOUS
    <3>2. temps' = [temps EXCEPT ![TempOf(c)] = temp]
      BY <2>3
    <3> HIDE DEF temp
    <3> QED
      BY <1>1, <2>1, <2>2, <2>3, <3>1, <3>2, MoveWithTemp
  <2>4. CASE cut' = cut \cup {TempOf(c)} /\ UNCHANGED temps
    <3>1. cut \subseteq cut' /\ cut' \subseteq TempNames /\ TempOf(c) \in cut'
      BY <1>1, <1>2, <2>1, <2>4
    <3> QED
      BY <1>1, <2>1, <2>2, <2>4, <3>1, MoveSameTemp
  <2> QED
    BY <1>8, <2>3, <2>4 DEF Clean
<1> QED
  BY <1>3, <1>4, <1>5, <1>6, <1>7, <1>8

LEMMA ReadersKeep ==
  ASSUME IInv, NEW c \in Callers, Get(c) \/ Has(c) \/ DeleteLooks(c) \/ DeleteRemoves(c)
  PROVE  IInv'
<1>1. /\ files \in [Keys -> File \cup {None}] /\ cut \subseteq TempNames
      /\ UNCHANGED <<temps, cut>>
  BY DEF IInv, Types, Get, Has, DeleteLooks, DeleteRemoves
<1> DEFINE pc == calls[c].pc
<1>2. ASSUME pc \in {"read", "stat", "look", "remove"}
      PROVE  /\ pc = "read" => PcOf[calls[c].op] = {"lock", "read", "return"}
             /\ pc = "stat" => PcOf[calls[c].op] = {"lock", "stat", "return"}
             /\ pc \in {"look", "remove"} =>
                  PcOf[calls[c].op] = {"lock", "look", "remove", "return"}
             /\ calls[c].key \in Keys /\ calls[c].result = "none"
             /\ ~MayHaveTemp(calls[c])
  BY <1>2, AtStep, Places DEF MayHaveTemp
<1>3. ASSUME NEW from \in {"read", "stat", "look", "remove"}, NEW result,
             Results(c, from, "return", result), result # "none",
             result \in {"none", "ok", "failed", "absent", "yes", "no", Part} \cup Values,
             files' \in [Keys -> File \cup {None}]
      PROVE  IInv'
  <2>1. pc = from
    BY <1>3 DEF Results
  <2>2. Moves(c, "return", result)
    BY <1>2, <1>3, <2>1, StepMoves
  <2> QED
    BY <1>1, <1>2, <1>3, <2>1, <2>2, MoveSameTemp
<1>4. CASE Get(c)
  <2>1. pc = "read" /\ UNCHANGED files
    BY <1>4 DEF Get, Results
  <2> DEFINE f == files[calls[c].key]
             answer == IF f = None THEN "absent" ELSE IF f.whole THEN f.value ELSE Part
  <2>2. f \in File \cup {None}
    BY <1>1, <1>2, <2>1
  <2>3. f # None => f.value \in Values
    BY <2>2 DEF File
  <2>4. answer # "none"
        /\ answer \in {"none", "ok", "failed", "absent", "yes", "no", Part} \cup Values
    BY <2>3
  <2>5. Results(c, "read", "return", answer) \/ Results(c, "read", "return", "failed")
    BY <1>4 DEF Get
  <2> HIDE DEF answer
  <2> QED
    BY <1>1, <1>3, <2>1, <2>4, <2>5
<1>5. CASE Has(c)
  <2>1. UNCHANGED files
    BY <1>5 DEF Has
  <2>2. Results(c, "stat", "return", "no") \/ Results(c, "stat", "return", "yes")
    BY <1>5 DEF Has
  <2> QED
    BY <1>1, <1>3, <2>1, <2>2
<1>6. CASE DeleteLooks(c)
  <2>1. UNCHANGED files
    BY <1>6 DEF DeleteLooks
  <2>2. CASE Results(c, "look", "return", "ok")
    BY <1>1, <1>3, <2>1, <2>2
  <2>3. CASE GoesOn(c, "look", "remove")
    <3>1. pc = "look"
      BY <2>3 DEF GoesOn
    <3>2. Moves(c, "remove", "none")
      BY <1>2, <2>3, <3>1, StepMoves
    <3> QED
      BY <1>1, <1>2, <2>1, <3>1, <3>2, MoveSameTemp
  <2> QED
    BY <1>6, <2>2, <2>3 DEF DeleteLooks
<1>7. CASE DeleteRemoves(c)
  <2>1. CASE Results(c, "remove", "return", "ok")
             /\ files' = [files EXCEPT ![calls[c].key] = None]
    <3>1. files' \in [Keys -> File \cup {None}]
      BY <1>1, <2>1
    <3> QED
      BY <1>3, <2>1, <3>1
  <2>2. CASE Results(c, "remove", "return", "failed") /\ UNCHANGED files
    BY <1>1, <1>3, <2>2
  <2> QED
    BY <1>7, <2>1, <2>2 DEF DeleteRemoves, Put
<1> QED
  BY <1>4, <1>5, <1>6, <1>7

LEMMA CallKeeps ==
  ASSUME IInv, NEW c \in Callers, Call(c)
  PROVE  IInv'
<1>1. /\ calls[c].pc = "idle" /\ calls[c].made < MaxCalls
      /\ UNCHANGED <<files, temps, up, ends, cut>>
      /\ calls[c] \in CallRecord
  BY DEF Call, IInv, Types
<1>2. PICK k \in Keys, v \in Values, op \in Writers \cup Readers :
        calls' = [calls EXCEPT ![c] =
                    [op |-> op, key |-> k, value |-> IF op = "Set" THEN v ELSE None,
                     pc |-> "lock", result |-> "none", made |-> calls[c].made + 1]]
  BY DEF Call
<1> DEFINE r == [op |-> op, key |-> k, value |-> IF op = "Set" THEN v ELSE None,
                 pc |-> "lock", result |-> "none", made |-> calls[c].made + 1]
<1>3. calls[c].made + 1 \in 0 .. MaxCalls /\ calls[c].made + 1 # 0
  BY <1>1 DEF CallRecord
<1>4. r \in CallRecord
  BY <1>3 DEF CallRecord
<1>5. /\ r.op = op /\ r.key = k /\ r.pc = "lock" /\ r.result = "none"
      /\ r.value = IF op = "Set" THEN v ELSE None
      /\ r.made = calls[c].made + 1
  OBVIOUS
<1>6. "lock" \in PcOf[op]
  BY Places DEF Writers, Readers
<1>7. op # "none"
  BY DEF Writers, Readers
<1>8. calls' = [calls EXCEPT ![c] = r]
  BY <1>2
<1> HIDE DEF r
<1>9. Stage(r)
  BY <1>3, <1>5, <1>6, <1>7 DEF Stage, CallOK
<1>10. calls'[c] = r /\ \A d \in Callers \ {c} : calls'[d] = calls[d]
  BY <1>8 DEF IInv, Types
<1>11. Types'
  BY <1>1, <1>4, <1>8 DEF IInv, Types, ends
<1>12. \A d \in Callers \ {c} : TempOf(d)' = TempOf(d)
  BY <1>10 DEF TempOf
<1>13. ASSUME NEW d \in Callers
       PROVE  (Stage(calls[d]) /\ Written(calls[d], temps[TempOf(d)]))'
  <2>1. CASE d = c
    BY <1>5, <1>9, <1>10, <2>1 DEF Written
  <2>2. CASE d # c
    BY <1>1, <1>10, <1>12, <2>2 DEF IInv
  <2> QED
    BY <2>1, <2>2
<1>14. Exclusive'
  BY <1>5, <1>10 DEF IInv, Exclusive, Locked
<1>15. InUse'
  <2> SUFFICES ASSUME NEW x \in TempNames \ cut, temps[x] # None
               PROVE  TempOf(x[1])' = x /\ MayHaveTemp(calls'[x[1]])
    BY <1>1 DEF InUse
  <2>1. x[1] \in Callers /\ TempOf(x[1]) = x /\ MayHaveTemp(calls[x[1]])
    BY DEF IInv, InUse, TempNames
  <2>2. x[1] # c
    BY <1>1, <2>1 DEF MayHaveTemp
  <2> QED
    BY <1>10, <1>12, <2>1, <2>2
<1> QED
  BY <1>11, <1>13, <1>14, <1>15 DEF IInv

LEMMA IdleIs ==
  ASSUME NEW n \in 0 .. MaxCalls
  PROVE  /\ [Idle EXCEPT !.made = n] \in CallRecord
         /\ Stage([Idle EXCEPT !.made = n])
         /\ [Idle EXCEPT !.made = n].pc = "idle"
         /\ [Idle EXCEPT !.made = n].made = n
<1> DEFINE r == [Idle EXCEPT !.made = n]
<1>1. /\ r.op = "none" /\ r.key = None /\ r.value = None /\ r.pc = "idle"
      /\ r.result = "none" /\ r.made = n
  BY DEF Idle
<1>2. r \in CallRecord
  BY DEF CallRecord, Idle
<1> HIDE DEF r
<1>3. Stage(r)
  BY <1>1, Places DEF Stage, CallOK
<1> QED
  BY <1>1, <1>2, <1>3 DEF r

LEMMA ReturnKeeps ==
  ASSUME IInv, NEW c \in Callers, Return(c)
  PROVE  IInv'
<1>1. /\ calls[c].pc = "return" /\ UNCHANGED <<files, temps, up, ends, cut>>
      /\ calls[c].made \in 0 .. MaxCalls
  BY DEF Return, IInv, Types, CallRecord
<1> DEFINE r == [Idle EXCEPT !.made = calls[c].made]
<1>2. r \in CallRecord /\ Stage(r) /\ r.pc = "idle" /\ r.made = calls[c].made
  BY <1>1, IdleIs
<1>3. calls' = [calls EXCEPT ![c] = r]
  BY DEF Return
<1>4. r.made # 0
  BY <1>1, <1>2, AtStep DEF Stage
<1> HIDE DEF r
<1>5. Written(r, temps[TempOf(c)]) /\ ~MayHaveTemp(calls[c]) /\ ~Locked(r)
  BY <1>1, <1>2 DEF Written, MayHaveTemp, Locked
<1>6. files' \in [Keys -> File \cup {None}] /\ cut \subseteq cut' /\ cut' \subseteq TempNames
  BY <1>1 DEF IInv, Types
<1> QED
  BY <1>1, <1>2, <1>3, <1>4, <1>5, <1>6, OneCallSameTemp

-----------------------------------------------------------------------------
(* The end of the process, and the invariant.                              *)

LEMMA DiscardKeeps ==
  ASSUME IInv, Discarded, files' \in [Keys -> File \cup {None}],
         temps' \in [TempNames -> File \cup {None}],
         outages' \in 0 .. crashes', cut' \subseteq TempNames,
         \A x \in TempNames \ cut' : temps'[x] = None
  PROVE  IInv'
<1>1. /\ up' = FALSE /\ crashes' = crashes + 1 /\ crashes < MaxCrashes
      /\ calls' = [c \in Callers |-> [Idle EXCEPT !.made = calls[c].made]]
  BY DEF Discarded
<1>2. calls \in [Callers -> CallRecord] /\ crashes \in 0 .. MaxCrashes
  BY DEF IInv, Types
<1>3. ASSUME NEW c \in Callers
      PROVE  /\ calls'[c] \in CallRecord /\ Stage(calls'[c])
             /\ calls'[c].pc = "idle"
  <2>1. calls[c].made \in 0 .. MaxCalls
    BY <1>2 DEF CallRecord
  <2>2. calls'[c] = [Idle EXCEPT !.made = calls[c].made]
    BY <1>1
  <2> QED
    BY <2>1, <2>2, IdleIs
<1>4. calls' \in [Callers -> CallRecord]
  <2>1. DOMAIN calls' = Callers /\ calls' = [c \in Callers |-> calls'[c]]
    BY <1>1
  <2> QED
    BY <1>3, <2>1
<1>5. Types'
  <2>1. crashes' \in 0 .. MaxCrashes
    BY <1>1, <1>2
  <2> QED
    BY <1>1, <1>4, <2>1 DEF Types
<1>6. \A c \in Callers : (Stage(calls[c]) /\ Written(calls[c], temps[TempOf(c)]))'
  BY <1>3 DEF Written
<1>7. Exclusive'
  BY <1>3 DEF Exclusive, Locked
<1>8. InUse'
  BY DEF InUse
<1> QED
  BY <1>5, <1>6, <1>7, <1>8 DEF IInv

\* The names of the temporary files of calls that are under way, or were.
LEMMA NamesUsed ==
  ASSUME IInv
  PROVE  /\ \A c \in Callers : calls[c].pc # "idle" => TempOf(c) \in TempNames
         /\ \A x \in TempNames \ cut :
              temps[x] # None =>
                x \in {TempOf(c) : c \in {d \in Callers : calls[d].pc # "idle"}}
<1>1. ASSUME NEW x \in TempNames \ cut, temps[x] # None
      PROVE  x[1] \in Callers /\ TempOf(x[1]) = x /\ calls[x[1]].pc # "idle"
  BY <1>1 DEF IInv, InUse, TempNames, MayHaveTemp
<1> QED
  BY <1>1, AtStep

\* What the machine finds are files.
LEMMA FoundIs ==
  ASSUME NEW f \in File \cup {None}, NEW g \in FoundOf(f)
  PROVE  /\ g \in File \cup {None}
         /\ f = None <=> g = None
         /\ g # None => /\ g.synced /\ g.value = f.value
                        /\ g.whole => f.whole
                        /\ f.synced => g.whole = f.whole
<1>1. CASE f = None
  BY <1>1 DEF FoundOf
<1>2. CASE f # None
  <2>1. f \in File
    BY <1>2
  <2>2. PICK w \in IF f.synced THEN {TRUE} ELSE BOOLEAN :
          g = [f EXCEPT !.whole = @ /\ w, !.synced = TRUE]
    BY <1>2 DEF FoundOf
  <2>3. w \in BOOLEAN /\ (f.synced => w)
    BY <2>2
  <2>4. g = [value |-> f.value, whole |-> f.whole /\ w, synced |-> TRUE]
    BY <2>1, <2>2 DEF File
  <2>5. g \in File /\ g.synced /\ g.value = f.value /\ g.whole = (f.whole /\ w)
    BY <2>1, <2>3, <2>4 DEF File
  <2>6. f.whole \in BOOLEAN
    BY <2>1 DEF File
  <2>7. /\ g \in File /\ g # None /\ g.synced /\ g.value = f.value
        /\ g.whole => f.whole
        /\ f.synced => g.whole = f.whole
    BY <2>3, <2>5, <2>6
  <2> QED
    BY <1>2, <2>7
<1> QED
  BY <1>1, <1>2

\* After an outage every key has a file that was found.
LEMMA PowerFinds ==
  ASSUME IInv, DiskOK, PowerLoss
  PROVE  /\ files' \in [Keys -> File \cup {None}]
         /\ \A k \in Keys : \E f \in onDisk[k] :
              f \in File \cup {None} /\ files'[k] \in FoundOf(f)
         /\ onDisk' = [k \in Keys |-> {files'[k]}]
<1>1. /\ \A k \in Keys : files'[k] \in UNION {FoundOf(f) : f \in onDisk[k]}
      /\ onDisk' = [k \in Keys |-> {files'[k]}]
      /\ files' \in [Keys -> UNION {UNION {FoundOf(f) : f \in onDisk[k]} : k \in Keys}]
  BY DEF PowerLoss
<1>2. \A k \in Keys : \E f \in onDisk[k] : f \in File \cup {None} /\ files'[k] \in FoundOf(f)
  BY <1>1 DEF DiskOK
<1>3. \A k \in Keys : files'[k] \in File \cup {None}
  BY <1>2, FoundIs
<1>4. files' = [k \in Keys |-> files'[k]]
  BY <1>1
<1> QED
  BY <1>1, <1>2, <1>3, <1>4

LEMMA EndKeeps ==
  ASSUME IInv, DiskOK, Kill \/ PowerLoss \/ NewFileStore
  PROVE  IInv'
<1>1. /\ files \in [Keys -> File \cup {None}] /\ crashes \in 0 .. MaxCrashes
      /\ outages \in 0 .. crashes /\ temps \in [TempNames -> File \cup {None}]
      /\ cut \subseteq TempNames /\ calls \in [Callers -> CallRecord]
  BY DEF IInv, Types
<1>2. CASE Kill
  <2>1. /\ UNCHANGED <<files, outages, temps>> /\ Discarded /\ crashes' = crashes + 1
        /\ cut' = cut \cup {TempOf(c) : c \in {d \in Callers : calls[d].pc # "idle"}}
    BY <1>2 DEF Kill, Discarded
  <2>2. outages' \in 0 .. crashes'
    BY <1>1, <2>1
  <2>3. cut' \subseteq TempNames /\ \A x \in TempNames \ cut' : temps'[x] = None
    BY <1>1, <2>1, NamesUsed
  <2> QED
    BY <1>1, <2>1, <2>2, <2>3, DiscardKeeps
<1>3. CASE PowerLoss
  <2>1. Discarded /\ crashes' = crashes + 1 /\ outages' = outages + 1
        /\ cut' = cut \cup Used
    BY <1>3 DEF PowerLoss, Discarded
  <2>2. outages' \in 0 .. crashes'
    BY <1>1, <2>1
  <2>3. files' \in [Keys -> File \cup {None}]
    BY <1>3, PowerFinds
  <2>4. PICK back \in SUBSET Used, v \in Values :
          temps' = [x \in TempNames |-> IF x \in back THEN NewFile(v) ELSE None]
    BY <1>3 DEF PowerLoss
  <2>5. NewFile(v) \in File
    BY DEF NewFile, File
  <2>6. temps' \in [TempNames -> File \cup {None}]
    BY <2>4, <2>5
  <2>7. cut' \subseteq TempNames
    BY <1>1, <2>1 DEF Used
  <2>8. \A x \in TempNames \ cut' : temps'[x] = None
    BY <2>1, <2>4
  <2> QED
    BY <2>1, <2>2, <2>3, <2>6, <2>7, <2>8, DiscardKeeps
<1>4. CASE NewFileStore
  <2>1. /\ up' = TRUE /\ UNCHANGED <<files, temps, calls, ends, cut>>
    BY <1>4 DEF NewFileStore
  <2> QED
    BY <2>1 DEF IInv, Types, Exclusive, InUse, TempOf, ends
<1> QED
  BY <1>2, <1>3, <1>4

LEMMA InitInv == Init => IInv
<1> SUFFICES ASSUME Init PROVE IInv
  OBVIOUS
<1>1. Idle \in CallRecord /\ Stage(Idle) /\ Idle.pc = "idle"
  <2>1. Idle.op = "none" /\ Idle.key = None /\ Idle.value = None /\ Idle.pc = "idle"
        /\ Idle.result = "none" /\ Idle.made = 0
    BY DEF Idle
  <2>2. Idle \in CallRecord
    BY DEF Idle, CallRecord
  <2> QED
    BY <2>1, <2>2, Places DEF Stage, CallOK
<1>2. Types
  BY <1>1 DEF Init, Types
<1>3. \A c \in Callers : calls[c] = Idle
  BY DEF Init
<1> HIDE DEF Idle
<1> QED
  BY <1>1, <1>2, <1>3 DEF Init, IInv, Written, Exclusive, Locked, InUse

LEMMA NextKeeps == IInv /\ DiskOK /\ [Next]_vars => IInv'
<1> SUFFICES ASSUME IInv, DiskOK, [Next]_vars PROVE IInv'
  OBVIOUS
<1>1. ASSUME NEW c \in Callers, Call(c) \/ Step(c) PROVE IInv'
  BY <1>1, CallKeeps, LockKeeps, ReturnKeeps, SetKeeps, ReadersKeep DEF Step
<1>2. CASE Kill \/ PowerLoss \/ NewFileStore
  BY <1>2, EndKeeps
<1>3. CASE UNCHANGED vars
  BY <1>3 DEF vars, ends, IInv, Types, Exclusive, InUse, TempOf
<1> QED
  BY <1>1, <1>2, <1>3 DEF Next, Resting

LEMMA PutKeepsDisk ==
  ASSUME IInv, DiskOK, NEW k \in Keys, NEW f \in File \cup {None}, Put(k, f)
  PROVE  DiskOK'
<1>1. /\ files' = [files EXCEPT ![k] = f] /\ onDisk' = [onDisk EXCEPT ![k] = @ \cup {f}]
      /\ files \in [Keys -> File \cup {None}]
      /\ onDisk \in [Keys -> SUBSET (File \cup {None})]
  BY DEF Put, IInv, Types, DiskOK
<1>2. onDisk' \in [Keys -> SUBSET (File \cup {None})]
  BY <1>1
<1>3. \A x \in Keys : files'[x] \in onDisk'[x]
  BY <1>1 DEF DiskOK
<1> QED
  BY <1>2, <1>3 DEF DiskOK

\* Only a Set that renames its file and a Delete that removes one change what
\* is under a name.
LEMMA OtherSteps ==
  ASSUME NEW c \in Callers, Call(c) \/ Step(c)
  PROVE  \/ UNCHANGED <<files, onDisk>>
         \/ Rename(c) /\ calls[c].pc = "rename" /\ Put(calls[c].key, temps[TempOf(c)])
         \/ DeleteRemoves(c) /\ calls[c].pc = "remove" /\ Put(calls[c].key, None)
  BY DEF Call, Step, Lock, Return, CreateTemp, Write, CloseTemp, Chmod, Rename, Clean, Get,
         Has, DeleteLooks, DeleteRemoves, Results

LEMMA NextKeepsDisk == IInv /\ DiskOK /\ [Next]_vars => DiskOK'
<1> SUFFICES ASSUME IInv, DiskOK, [Next]_vars PROVE DiskOK'
  OBVIOUS
<1>1. CASE UNCHANGED <<files, onDisk>>
  BY <1>1 DEF DiskOK
<1>2. ASSUME NEW c \in Callers, Call(c) \/ Step(c) PROVE DiskOK'
  <2>1. calls[c].pc \in {"rename", "remove"} =>
          calls[c].key \in Keys /\ TempOf(c) \in TempNames
    BY AtStep
  <2>2. TempOf(c) \in TempNames => temps[TempOf(c)] \in File \cup {None}
    BY DEF IInv, Types
  <2> DEFINE temp == temps[TempOf(c)]
             none == None
  <2>3. none \in File \cup {None}
    OBVIOUS
  <2>4. \/ UNCHANGED <<files, onDisk>>
        \/ calls[c].pc = "rename" /\ Put(calls[c].key, temp)
        \/ calls[c].pc = "remove" /\ Put(calls[c].key, none)
    BY <1>2, OtherSteps
  <2>5. calls[c].pc = "rename" => temp \in File \cup {None}
    BY <2>1, <2>2
  <2> HIDE DEF temp, none
  <2> QED
    BY <1>1, <2>1, <2>3, <2>4, <2>5, PutKeepsDisk
<1>3. CASE PowerLoss
  <2>1. files' \in [Keys -> File \cup {None}] /\ onDisk' = [k \in Keys |-> {files'[k]}]
    BY <1>3, PowerFinds
  <2> QED
    BY <2>1 DEF DiskOK
<1> QED
  BY <1>1, <1>2, <1>3 DEF Next, Resting, vars, Kill, NewFileStore

LEMMA InitDisk == Init => DiskOK
  BY DEF Init, DiskOK

\* Where every call is, who holds a lock, what is in the temporary files and what
\* the disk may have fit together, whatever fails and wherever the process or the
\* machine goes down.
THEOREM Invariance == Spec => [](IInv /\ DiskOK)
<1>1. Init => IInv /\ DiskOK
  BY InitInv, InitDisk
<1>2. IInv /\ DiskOK /\ [Next]_vars => (IInv /\ DiskOK)'
  BY NextKeeps, NextKeepsDisk
<1> QED
  BY <1>1, <1>2, PTL DEF Spec

\* No Set that returns leaves its temporary file behind, unless it could not
\* be removed; what remains is of calls that were killed, or of before the machine
\* went down.
THEOREM TempsCorrect == Spec => []TempsAreInUse
<1>1. IInv /\ DiskOK => TempsAreInUse
  <2> SUFFICES ASSUME IInv, DiskOK PROVE TempsAreInUse
    OBVIOUS
  <2>1. TypeOK
    BY DEF IInv, Types, Stage, TypeOK, DiskOK
  <2>2. ASSUME NEW x \in TempNames \ cut, temps[x] # None
        PROVE  calls[x[1]].op = "Set" /\ TempOf(x[1]) = x
    <3>1. x[1] \in Callers /\ TempOf(x[1]) = x /\ MayHaveTemp(calls[x[1]])
      BY <2>2 DEF IInv, InUse, TempNames
    <3> QED
      BY <3>1, AtStep DEF MayHaveTemp
  <2> QED
    BY <2>1, <2>2 DEF TempsAreInUse
<1> QED
  BY <1>1, Invariance, PTL

-----------------------------------------------------------------------------
(* The file under the lock.                                                *)

\* Only a writer that holds the lock of a key changes the file of the key, and
\* its own call moves on with that.
LEMMA WriterStep ==
  ASSUME IInv, NEW d \in Callers, Call(d) \/ Step(d), files' # files
  PROVE  /\ calls[d].key \in Keys /\ Locked(calls[d]) /\ calls[d].op \in Writers
         /\ \E f \in File \cup {None} : files' = [files EXCEPT ![calls[d].key] = f]
         /\ calls'[d] # calls[d]
<1>1. calls[d] \in CallRecord /\ calls \in [Callers -> CallRecord]
  BY DEF IInv, Types
<1>2. Rename(d) \/ DeleteRemoves(d)
  BY OtherSteps
<1>3. CASE Rename(d)
  <2>1. /\ calls[d].pc = "rename" /\ calls' = [calls EXCEPT ![d].pc = "clean", ![d].result = "ok"]
        /\ files' = [files EXCEPT ![calls[d].key] = temps[TempOf(d)]]
    BY <1>3 DEF Rename, Results, Put
  <2>2. calls[d].op = "Set" /\ calls[d].key \in Keys /\ temps[TempOf(d)] \in File \cup {None}
    BY <2>1, AtStep DEF IInv, Types
  <2>3. calls'[d].pc = "clean"
    BY <1>1, <2>1 DEF CallRecord
  <2> QED
    BY <2>1, <2>2, <2>3 DEF Locked, Writers
<1>4. CASE DeleteRemoves(d)
  <2>1. /\ calls[d].pc = "remove"
        /\ calls' = [calls EXCEPT ![d].pc = "return", ![d].result = "ok"]
        /\ files' = [files EXCEPT ![calls[d].key] = None]
    BY <1>4 DEF DeleteRemoves, Results, Put
  <2>2. calls[d].op = "Delete" /\ calls[d].key \in Keys
    BY <2>1, AtStep
  <2>3. calls'[d].pc = "return"
    BY <1>1, <2>1 DEF CallRecord
  <2> QED
    BY <2>1, <2>2, <2>3 DEF Locked, Writers
<1> QED
  BY <1>2, <1>3, <1>4

LEMMA StableStep ==
  ASSUME IInv, [Next]_vars, NEW c \in Callers, Locked(calls[c]), calls'[c] = calls[c]
  PROVE  files'[calls[c].key] = files[calls[c].key]
<1>1. CASE UNCHANGED files
  BY <1>1
<1>2. ASSUME NEW d \in Callers, Call(d) \/ Step(d), files' # files
      PROVE  files'[calls[c].key] = files[calls[c].key]
  <2>1. PICK f : files' = [files EXCEPT ![calls[d].key] = f]
    BY <1>2, WriterStep
  <2>2. Locked(calls[d]) /\ calls[d].op \in Writers /\ d # c
    BY <1>2, WriterStep
  <2>3. calls[d].key # calls[c].key
    BY <2>2 DEF IInv, Exclusive, Writers, Readers
  <2>4. calls[c].key \in Keys
    BY AtStep DEF Locked
  <2> QED
    BY <2>1, <2>3, <2>4 DEF IInv, Types
<1>3. CASE PowerLoss
  <2>1. calls'[c] = [Idle EXCEPT !.made = calls[c].made]
    BY <1>3 DEF PowerLoss, Discarded
  <2>2. calls'[c].pc = "idle"
    BY <2>1, IdleIs DEF IInv, Types, CallRecord, Idle
  <2> QED
    BY <2>2 DEF Locked
<1> QED
  BY <1>1, <1>2, <1>3 DEF Next, Resting, vars, Kill, NewFileStore

\* What a caller that holds the lock has seen of its file stays true until it
\* is through: between the look of Delete and its removal the file is there.
THEOREM StableCorrect == Spec => StableUnderLock
<1>1. IInv /\ [Next]_vars =>
        [\A c \in Callers :
           calls[c].pc \notin {"idle", "lock"} /\ calls'[c] = calls[c]
             => files'[calls[c].key] = files[calls[c].key]]_vars
  BY StableStep DEF Locked
<1> QED
  BY <1>1, Invariance, PTL DEF Spec, StableUnderLock

-----------------------------------------------------------------------------
(* The files implement the store.                                          *)

StoredBar == [k \in Keys |-> Value(files[k])]

HadBar == [k \in Keys |-> {Value(f) : f \in onDisk[k]}]

FreshBar == {k \in Keys : \E f \in onDisk[k] : f # None /\ ~f.synced}

CallsBar ==
  [c \in Callers |-> [op |-> calls[c].op, key |-> calls[c].key,
                      value |-> calls[c].value, result |-> calls[c].result]]

\* The call of a caller as the store sees it.
Seen(r) == [op |-> r.op, key |-> r.key, value |-> r.value, result |-> r.result]

AbstractIdle == [op |-> "none", key |-> None, value |-> None, result |-> "none"]

\* The values of the store stay what they are, or one of them is stored.
SameValues == StoredBar' = StoredBar /\ HadBar' = HadBar /\ FreshBar' = FreshBar

Stores(k, v) ==
  /\ StoredBar' = [StoredBar EXCEPT ![k] = v]
  /\ HadBar' = [HadBar EXCEPT ![k] = @ \cup {v}]
  /\ FreshBar' = IF v = None THEN FreshBar ELSE FreshBar \cup {k}

\* Steps of the contract, in terms of what implements it.
LEMMA ContractCalls ==
  ASSUME NEW c \in Callers, CallsBar[c] = AbstractIdle,
         \E k \in Keys, v \in Values, op \in {"Set", "Get", "Has", "Delete"} :
           CallsBar' = [CallsBar EXCEPT ![c] =
                          [op |-> op, key |-> k,
                           value |-> IF op = "Set" THEN v ELSE None, result |-> "none"]],
         SameValues, UNCHANGED outages
  PROVE  Contract!Next
<1>1. Contract!Call(c)
  BY DEF Contract!Call, Contract!Idle, Contract!values, CallsBar, SameValues, StoredBar,
         HadBar, FreshBar, AbstractIdle
<1> QED
  BY <1>1 DEF Contract!Next

Answers(c, result) == CallsBar' = [CallsBar EXCEPT ![c].result = result]

LEMMA ContractEffect ==
  ASSUME NEW c \in Callers, CallsBar[c].result = "none", UNCHANGED outages,
         \/ /\ CallsBar[c].op = "Set"
            /\ Stores(CallsBar[c].key, CallsBar[c].value)
            /\ Answers(c, "ok")
         \/ /\ CallsBar[c].op = "Delete"
            /\ Stores(CallsBar[c].key, None)
            /\ Answers(c, "ok")
         \/ /\ CallsBar[c].op = "Get"
            /\ Answers(c, IF StoredBar[CallsBar[c].key] = None THEN "absent"
                          ELSE StoredBar[CallsBar[c].key])
            /\ SameValues
         \/ /\ CallsBar[c].op = "Has"
            /\ Answers(c, IF StoredBar[CallsBar[c].key] = None THEN "no" ELSE "yes")
            /\ SameValues
         \/ /\ CallsBar[c].op # "none"
            /\ Answers(c, IF CallsBar[c].op = "Has" THEN "no" ELSE "failed")
            /\ SameValues
  PROVE  Contract!Next
<1>1. CASE /\ CallsBar[c].op = "Set"
           /\ Stores(CallsBar[c].key, CallsBar[c].value) /\ Answers(c, "ok")
  <2>1. Contract!Effect(c)
    BY <1>1 DEF Contract!Effect, Contract!Store, Contract!Answer, Stores, Answers, CallsBar,
                StoredBar, HadBar, FreshBar
  <2> QED
    BY <2>1 DEF Contract!Next
<1>2. CASE /\ CallsBar[c].op = "Delete"
           /\ Stores(CallsBar[c].key, None) /\ Answers(c, "ok")
  <2>1. Contract!Effect(c)
    BY <1>2 DEF Contract!Effect, Contract!Store, Contract!Answer, Stores, Answers, CallsBar,
                StoredBar, HadBar, FreshBar
  <2> QED
    BY <2>1 DEF Contract!Next
<1>3. CASE /\ CallsBar[c].op = "Get" /\ SameValues
           /\ Answers(c, IF StoredBar[CallsBar[c].key] = None THEN "absent"
                         ELSE StoredBar[CallsBar[c].key])
  <2>1. Contract!Effect(c)
    BY <1>3 DEF Contract!Effect, Contract!values, Contract!Answer, SameValues, Answers,
                CallsBar, StoredBar, HadBar, FreshBar
  <2> QED
    BY <2>1 DEF Contract!Next
<1>4. CASE /\ CallsBar[c].op = "Has" /\ SameValues
           /\ Answers(c, IF StoredBar[CallsBar[c].key] = None THEN "no" ELSE "yes")
  <2>1. Contract!Effect(c)
    BY <1>4 DEF Contract!Effect, Contract!values, Contract!Answer, SameValues, Answers,
                CallsBar, StoredBar, HadBar, FreshBar
  <2> QED
    BY <2>1 DEF Contract!Next
<1>5. CASE /\ CallsBar[c].op # "none" /\ SameValues
           /\ Answers(c, IF CallsBar[c].op = "Has" THEN "no" ELSE "failed")
  <2>1. Contract!Effect(c)
    BY <1>5 DEF Contract!Effect, Contract!values, Contract!Answer, SameValues, Answers,
                CallsBar, StoredBar, HadBar, FreshBar
  <2> QED
    BY <2>1 DEF Contract!Next
<1> QED
  BY <1>1, <1>2, <1>3, <1>4, <1>5

LEMMA ContractReturns ==
  ASSUME NEW c \in Callers, CallsBar[c].result # "none",
         CallsBar' = [CallsBar EXCEPT ![c] = AbstractIdle],
         SameValues, UNCHANGED outages
  PROVE  Contract!Next
<1>1. Contract!Return(c)
  BY DEF Contract!Return, Contract!Idle, Contract!values, CallsBar, SameValues, StoredBar,
         HadBar, FreshBar, AbstractIdle
<1> QED
  BY <1>1 DEF Contract!Next

LEMMA ContractEnds ==
  ASSUME CallsBar' = [c \in Callers |-> AbstractIdle], SameValues, UNCHANGED outages
  PROVE  Contract!Next
<1>1. Contract!End
  BY DEF Contract!End, Contract!Idle, Contract!values, CallsBar, SameValues, StoredBar,
         HadBar, FreshBar, AbstractIdle
<1> QED
  BY <1>1 DEF Contract!Next

LEMMA ContractOutage ==
  ASSUME CallsBar' = [c \in Callers |-> AbstractIdle], outages' = outages + 1,
         \A k \in Keys :
           StoredBar'[k] \in HadBar[k] \cup (IF k \in FreshBar THEN {Part} ELSE {}),
         HadBar' = [k \in Keys |-> {StoredBar'[k]}], FreshBar' = {}
  PROVE  Contract!Next
<1>1. StoredBar' = [k \in Keys |-> StoredBar'[k]]
  BY DEF StoredBar
<1>2. StoredBar' \in [Keys -> (UNION {HadBar[k] : k \in Keys}) \cup {Part}]
  BY <1>1
<1>3. Contract!Outage
  BY <1>2 DEF Contract!Outage, Contract!Idle, CallsBar, StoredBar, HadBar, FreshBar,
              AbstractIdle
<1> QED
  BY <1>3 DEF Contract!Next

LEMMA BarsAre ==
  /\ \A k \in Keys : StoredBar[k] = Value(files[k])
  /\ \A c \in Callers : CallsBar[c] = Seen(calls[c])
  /\ UNCHANGED <<files, onDisk>> => SameValues
  /\ UNCHANGED calls => CallsBar' = CallsBar
  BY DEF StoredBar, HadBar, FreshBar, CallsBar, Value, Seen, SameValues

LEMMA SeenIs ==
  ASSUME NEW r \in CallRecord
  PROVE  /\ Seen(r).op = r.op /\ Seen(r).key = r.key /\ Seen(r).value = r.value
         /\ Seen(r).result = r.result
         /\ r.op = "none" /\ CallOK(r) /\ r.result = "none" => Seen(r) = AbstractIdle
  BY DEF Seen, CallOK, AbstractIdle

LEMMA OneCallBar ==
  ASSUME IInv, NEW c \in Callers, NEW r \in CallRecord, calls' = [calls EXCEPT ![c] = r]
  PROVE  CallsBar' = [CallsBar EXCEPT ![c] = Seen(r)]
<1>1. calls'[c] = r /\ \A d \in Callers \ {c} : calls'[d] = calls[d]
  BY DEF IInv, Types
<1>2. CallsBar' = [d \in Callers |-> Seen(calls'[d])]
  BY DEF CallsBar, Seen
<1>3. CallsBar = [d \in Callers |-> Seen(calls[d])]
  BY DEF CallsBar, Seen
<1>4. \A d \in Callers : CallsBar'[d] = IF d = c THEN Seen(r) ELSE CallsBar[d]
  BY <1>1, <1>2, <1>3
<1> QED
  BY <1>2, <1>3, <1>4

\* A move shows as the result it brings, and one that brings none not at all.
LEMMA MoveBar ==
  ASSUME IInv, NEW c \in Callers, NEW to, NEW result, Moves(c, to, result)
  PROVE  /\ Answers(c, result)
         /\ result = calls[c].result => CallsBar' = CallsBar
<1>1. PICK r \in CallRecord :
        /\ calls' = [calls EXCEPT ![c] = r]
        /\ r.key = calls[c].key /\ r.op = calls[c].op /\ r.value = calls[c].value
        /\ r.result = result
  BY MovesTo
<1>2. CallsBar' = [CallsBar EXCEPT ![c] = Seen(r)]
  BY <1>1, OneCallBar
<1>3. CallsBar[c] = Seen(calls[c]) /\ calls[c] \in CallRecord
  BY BarsAre DEF IInv, Types
<1>4. Seen(r) = [Seen(calls[c]) EXCEPT !.result = result]
  BY <1>1, <1>3 DEF Seen
<1>5. [CallsBar EXCEPT ![c].result = result]
        = [CallsBar EXCEPT ![c] = [CallsBar[c] EXCEPT !.result = result]]
  OBVIOUS
<1>6. CallsBar = [d \in Callers |-> CallsBar[d]]
  BY DEF CallsBar
<1>7. Answers(c, result)
  BY <1>2, <1>3, <1>4, <1>5 DEF Answers
<1>8. ASSUME result = calls[c].result PROVE CallsBar' = CallsBar
  <2>1. Seen(r) = CallsBar[c]
    BY <1>1, <1>3, <1>8 DEF Seen
  <2> QED
    BY <1>2, <1>6, <2>1
<1> QED
  BY <1>7, <1>8

LEMMA OneFileBar ==
  ASSUME IInv, DiskOK, NEW k \in Keys, NEW f \in File \cup {None}, Put(k, f),
         f # None => ~f.synced /\ Value(f) # None
  PROVE  Stores(k, Value(f))
<1>1. /\ files'[k] = f /\ \A x \in Keys \ {k} : files'[x] = files[x]
      /\ onDisk'[k] = onDisk[k] \cup {f} /\ \A x \in Keys \ {k} : onDisk'[x] = onDisk[x]
  BY DEF IInv, Types, DiskOK, Put
<1>2. StoredBar' = [StoredBar EXCEPT ![k] = Value(f)]
  <2>1. StoredBar' = [x \in Keys |-> Value(files'[x])]
    BY DEF StoredBar, Value
  <2>2. StoredBar = [x \in Keys |-> Value(files[x])]
    BY DEF StoredBar
  <2>3. \A x \in Keys : StoredBar'[x] = IF x = k THEN Value(f) ELSE StoredBar[x]
    BY <1>1, <2>1, <2>2
  <2> QED
    BY <2>1, <2>2, <2>3
<1>3. HadBar' = [HadBar EXCEPT ![k] = @ \cup {Value(f)}]
  <2>1. HadBar' = [x \in Keys |-> {Value(g) : g \in onDisk'[x]}]
    BY DEF HadBar, Value
  <2>2. HadBar = [x \in Keys |-> {Value(g) : g \in onDisk[x]}]
    BY DEF HadBar
  <2>3. \A x \in Keys \ {k} : HadBar'[x] = HadBar[x]
    BY <1>1, <2>1, <2>2
  <2>4. HadBar'[k] = HadBar[k] \cup {Value(f)}
    BY <1>1, <2>1, <2>2
  <2> QED
    BY <2>1, <2>2, <2>3, <2>4
<1>4. FreshBar' = IF Value(f) = None THEN FreshBar ELSE FreshBar \cup {k}
  <2>1. \A x \in Keys \ {k} : x \in FreshBar' <=> x \in FreshBar
    BY <1>1 DEF FreshBar
  <2>2. CASE f = None
    <3>1. Value(f) = None
      BY <2>2 DEF Value
    <3>2. k \in FreshBar' <=> k \in FreshBar
      BY <1>1, <2>2 DEF FreshBar
    <3> QED
      BY <2>1, <3>1, <3>2 DEF FreshBar
  <2>3. CASE f # None
    <3>1. k \in FreshBar'
      BY <1>1, <2>3 DEF FreshBar
    <3> QED
      BY <2>1, <2>3, <3>1 DEF FreshBar
  <2> QED
    BY <2>2, <2>3
<1> QED
  BY <1>2, <1>3, <1>4 DEF Stores

LEMMA ValueIs ==
  ASSUME NEW f \in File \cup {None}
  PROVE  Value(f) = None <=> f = None
  BY DEF Value, File

\* What the store sees of a call: a step is one of the contract or shows
\* nothing.
Implements == Contract!Next \/ (SameValues /\ CallsBar' = CallsBar /\ UNCHANGED outages)

\* A step that only goes on.
LEMMA SilentStep ==
  ASSUME IInv, NEW c \in Callers, NEW from, NEW to, GoesOn(c, from, to), UNCHANGED <<files, onDisk>>,
         from \notin {"idle", "lock", "return"}, to \in PcOf[calls[c].op],
         calls[c].result = "none" <=> to \notin {"clean", "return"}
  PROVE  Implements
<1>1. calls[c].result \in {"none", "ok", "failed", "absent", "yes", "no", Part} \cup Values
  BY DEF IInv, Types, CallRecord
<1>2. Moves(c, to, calls[c].result) /\ UNCHANGED outages
  BY <1>1, StepMoves DEF GoesOn, ends
<1> QED
  BY <1>2, MoveBar, BarsAre DEF Implements

\* An operation that fails, or finds nothing it could do.
LEMMA FailedStep ==
  ASSUME IInv, NEW c \in Callers, NEW from, NEW to, NEW result,
         Results(c, from, to, result), UNCHANGED <<files, onDisk>>,
         from \notin {"idle", "lock", "clean", "return"},
         to \in PcOf[calls[c].op] \cap {"clean", "return"},
         result = IF calls[c].op = "Has" THEN "no" ELSE "failed"
  PROVE  Implements
<1>1. calls[c].pc = from /\ UNCHANGED outages
  BY DEF Results, ends
<1>2. Moves(c, to, result)
  BY StepMoves
<1>3. calls[c] \in CallRecord /\ calls[c].op # "none" /\ calls[c].result = "none"
  BY <1>1, AtStep
<1>4. CallsBar[c].result = "none" /\ CallsBar[c].op = calls[c].op
  BY <1>3, BarsAre, SeenIs
<1>5. Answers(c, result) /\ SameValues
  BY <1>2, MoveBar, BarsAre
<1>6. Answers(c, IF CallsBar[c].op = "Has" THEN "no" ELSE "failed")
  BY <1>4, <1>5
<1>7. CallsBar[c].op # "none"
  BY <1>3, <1>4
<1> QED
  BY <1>1, <1>4, <1>5, <1>6, <1>7, ContractEffect DEF Implements

LEMMA SetImplements ==
  ASSUME IInv, DiskOK, NEW c \in Callers,
         CreateTemp(c) \/ Write(c) \/ CloseTemp(c) \/ Chmod(c) \/ Rename(c) \/ Clean(c)
  PROVE  Implements
<1> DEFINE pc == calls[c].pc
<1>1. ASSUME pc \in {"create", "write", "close", "chmod", "rename", "clean"}
      PROVE  /\ PcOf[calls[c].op] = {"lock", "create", "write", "close", "chmod", "rename",
                                     "clean", "return"}
             /\ calls[c].op = "Set" /\ calls[c].key \in Keys
             /\ calls[c].result = "none" <=> pc # "clean"
             /\ calls[c] \in CallRecord
  BY <1>1, AtStep, Places
<1>2. ASSUME NEW from \in {"create", "write", "close", "chmod", "rename"},
             NEW to \in {"clean", "return"}, Results(c, from, to, "failed"), UNCHANGED <<files, onDisk>>
      PROVE  Implements
  <2>1. pc = from
    BY <1>2 DEF Results
  <2> QED
    BY <1>1, <1>2, <2>1, FailedStep
<1>3. ASSUME NEW from \in {"create", "write", "close", "chmod"},
             NEW to \in {"write", "close", "chmod", "rename"}, GoesOn(c, from, to),
             UNCHANGED <<files, onDisk>>
      PROVE  Implements
  <2>1. pc = from
    BY <1>3 DEF GoesOn
  <2> QED
    BY <1>1, <1>3, <2>1, SilentStep
<1>4. CASE CreateTemp(c) \/ Write(c) \/ CloseTemp(c) \/ Chmod(c)
  BY <1>2, <1>3, <1>4 DEF CreateTemp, Write, CloseTemp, Chmod
<1>5. CASE Clean(c)
  <2>1. pc = "clean" /\ UNCHANGED <<files, onDisk>> /\ GoesOn(c, "clean", "return")
    BY <1>5 DEF Clean, GoesOn
  <2> QED
    BY <1>1, <2>1, SilentStep
<1>6. CASE Results(c, "rename", "clean", "ok")
           /\ Put(calls[c].key, temps[TempOf(c)])
  <2>1. pc = "rename" /\ UNCHANGED outages
    BY <1>6 DEF Results, ends
  <2>2. Moves(c, "clean", "ok")
    BY <1>1, <1>6, <2>1, StepMoves
  <2> DEFINE temp == temps[TempOf(c)]
  <2>3. temp \in File /\ temp.value = calls[c].value /\ temp.whole /\ ~temp.synced
    BY <2>1 DEF IInv, Written
  <2>4. Value(temp) = calls[c].value /\ Value(temp) # None
    BY <2>3 DEF Value, File
  <2>5. Put(calls[c].key, temp)
    BY <1>6
  <2>6. Stores(calls[c].key, calls[c].value)
    <3> HIDE DEF temp
    <3> QED
      BY <1>1, <2>1, <2>3, <2>4, <2>5, OneFileBar
  <2>7. /\ CallsBar[c].result = "none" /\ CallsBar[c].op = "Set"
        /\ CallsBar[c].key = calls[c].key /\ CallsBar[c].value = calls[c].value
    BY <1>1, <2>1, BarsAre, SeenIs
  <2>8. Answers(c, "ok")
    BY <2>2, MoveBar
  <2> QED
    BY <2>1, <2>6, <2>7, <2>8, ContractEffect DEF Implements
<1>7. CASE Rename(c)
  BY <1>2, <1>6, <1>7 DEF Rename
<1> QED
  BY <1>4, <1>5, <1>7

LEMMA ReadersImplement ==
  ASSUME IInv, DiskOK, NEW c \in Callers, Get(c) \/ Has(c) \/ DeleteLooks(c) \/ DeleteRemoves(c)
  PROVE  Implements
<1> DEFINE pc == calls[c].pc
           f == files[calls[c].key]
<1>1. ASSUME pc \in {"read", "stat", "look", "remove"}
      PROVE  /\ pc = "read" => calls[c].op = "Get"
             /\ pc = "stat" => calls[c].op = "Has"
             /\ pc \in {"look", "remove"} => calls[c].op = "Delete"
             /\ pc \in PcOf[calls[c].op] /\ "return" \in PcOf[calls[c].op]
             /\ pc = "look" => "remove" \in PcOf[calls[c].op]
             /\ calls[c].key \in Keys /\ calls[c].result = "none"
             /\ calls[c] \in CallRecord
             /\ CallsBar[c] = Seen(calls[c])
             /\ f \in File \cup {None}
             /\ StoredBar[calls[c].key] = Value(f)
  BY <1>1, AtStep, Places, BarsAre DEF IInv, Types
<1>2. ASSUME NEW from \in {"read", "look", "remove"}, UNCHANGED <<files, onDisk>>,
             Results(c, from, "return", "failed")
      PROVE  Implements
  <2>1. pc = from
    BY <1>2 DEF Results
  <2> QED
    BY <1>1, <1>2, <2>1, FailedStep
<1>3. ASSUME NEW from \in {"read", "stat", "look", "remove"}, NEW result,
             Results(c, from, "return", result), result # "none",
             result \in {"none", "ok", "failed", "absent", "yes", "no", Part} \cup Values
      PROVE  /\ pc = from /\ UNCHANGED outages /\ Answers(c, result)
             /\ CallsBar[c].result = "none" /\ CallsBar[c].op = calls[c].op
             /\ CallsBar[c].key = calls[c].key
  <2>1. pc = from /\ UNCHANGED outages
    BY <1>3 DEF Results, ends
  <2>2. Moves(c, "return", result)
    BY <1>1, <1>3, <2>1, StepMoves
  <2>3. Answers(c, result)
    BY <2>2, MoveBar
  <2> QED
    BY <1>1, <2>1, <2>3, SeenIs
<1>4. CASE Get(c)
  <2> DEFINE answer == IF f = None THEN "absent" ELSE IF f.whole THEN f.value ELSE Part
  <2>1. pc = "read" /\ UNCHANGED <<files, onDisk>>
    BY <1>4 DEF Get, Results
  <2>2. answer = IF Value(f) = None THEN "absent" ELSE Value(f)
    BY <1>1, <2>1, ValueIs DEF Value
  <2>3. answer # "none"
        /\ answer \in {"none", "ok", "failed", "absent", "yes", "no", Part} \cup Values
    BY <1>1, <2>1 DEF File
  <2>4. Results(c, "read", "return", answer) \/ Results(c, "read", "return", "failed")
    BY <1>4 DEF Get
  <2> HIDE DEF answer, f
  <2>5. CASE Results(c, "read", "return", answer)
    <3>1. SameValues
      BY <2>1, BarsAre
    <3>2. Answers(c, IF StoredBar[CallsBar[c].key] = None THEN "absent"
                     ELSE StoredBar[CallsBar[c].key])
      BY <1>1, <1>3, <2>1, <2>2, <2>3, <2>5
    <3>3. CallsBar[c].result = "none" /\ CallsBar[c].op = "Get" /\ UNCHANGED outages
      BY <1>1, <1>3, <2>1, <2>3, <2>5
    <3> QED
      BY <3>1, <3>2, <3>3, ContractEffect DEF Implements
  <2> QED
    BY <1>2, <2>1, <2>4, <2>5
<1>5. CASE Has(c)
  <2>1. pc = "stat" /\ UNCHANGED <<files, onDisk>>
    BY <1>5 DEF Has, Results
  <2>2. CASE Results(c, "stat", "return", "no") /\ f # None
    BY <1>1, <2>1, <2>2, FailedStep
  <2>3. CASE Results(c, "stat", "return", IF f = None THEN "no" ELSE "yes")
    <3> DEFINE answer == IF f = None THEN "no" ELSE "yes"
    <3>1. answer \in {"no", "yes"} /\ answer = IF Value(f) = None THEN "no" ELSE "yes"
      BY <1>1, <2>1, ValueIs
    <3>2. Results(c, "stat", "return", answer)
      BY <2>3
    <3> HIDE DEF answer, f
    <3>3. SameValues
      BY <2>1, BarsAre
    <3>4. Answers(c, IF StoredBar[CallsBar[c].key] = None THEN "no" ELSE "yes")
      BY <1>1, <1>3, <2>1, <3>1, <3>2
    <3>5. CallsBar[c].result = "none" /\ CallsBar[c].op = "Has" /\ UNCHANGED outages
      BY <1>1, <1>3, <2>1, <3>1, <3>2
    <3> QED
      BY <3>3, <3>4, <3>5, ContractEffect DEF Implements
  <2> QED
    BY <1>5, <2>2, <2>3 DEF Has
<1>6. ASSUME NEW from \in {"look", "remove"}, Results(c, from, "return", "ok"),
             Stores(calls[c].key, None)
      PROVE  Implements
  BY <1>1, <1>3, <1>6, ContractEffect DEF Implements
<1>7. CASE DeleteLooks(c)
  <2>1. pc = "look" /\ UNCHANGED <<files, onDisk>>
    BY <1>7 DEF DeleteLooks, Results, GoesOn
  <2>2. CASE Results(c, "look", "return", "ok") /\ f = None
    <3>1. StoredBar[calls[c].key] = None /\ None \in HadBar[calls[c].key]
      <4>1. calls[c].key \in Keys /\ f \in onDisk[calls[c].key] /\ Value(f) = None
        BY <1>1, <2>1, <2>2 DEF DiskOK, Value
      <4>2. HadBar[calls[c].key] = {Value(g) : g \in onDisk[calls[c].key]}
        BY <4>1 DEF HadBar
      <4>3. Value(f) \in HadBar[calls[c].key]
        BY <4>1, <4>2
      <4> QED
        BY <1>1, <2>1, <4>1, <4>3
    <3>2. StoredBar = [k \in Keys |-> StoredBar[k]] /\ HadBar = [k \in Keys |-> HadBar[k]]
      BY DEF StoredBar, HadBar
    <3>3. SameValues
      BY <2>1, BarsAre
    <3>4. StoredBar' = [StoredBar EXCEPT ![calls[c].key] = None]
      BY <3>1, <3>2, <3>3 DEF SameValues
    <3>5. HadBar' = [HadBar EXCEPT ![calls[c].key] = @ \cup {None}]
      <4>1. HadBar[calls[c].key] = HadBar[calls[c].key] \cup {None}
        BY <3>1
      <4> QED
        BY <3>2, <3>3, <4>1 DEF SameValues
    <3>6. Stores(calls[c].key, None)
      BY <3>3, <3>4, <3>5 DEF SameValues, Stores
    <3> QED
      BY <1>6, <2>2, <3>6
  <2>3. CASE GoesOn(c, "look", "remove")
    BY <1>1, <2>1, <2>3, SilentStep
  <2> QED
    BY <1>7, <2>2, <2>3 DEF DeleteLooks
<1>8. CASE DeleteRemoves(c)
  <2>1. pc = "remove"
    BY <1>8 DEF DeleteRemoves, Results
  <2>2. CASE Results(c, "remove", "return", "ok")
             /\ Put(calls[c].key, None)
    <3> DEFINE none == None
    <3>1. none \in File \cup {None} /\ Value(none) = None
      BY DEF Value
    <3>2. Put(calls[c].key, none) /\ (none = None)
      BY <2>2
    <3> HIDE DEF none
    <3>3. Stores(calls[c].key, None)
      BY <1>1, <2>1, <3>1, <3>2, OneFileBar
    <3> QED
      BY <1>6, <2>2, <3>3
  <2> QED
    BY <1>2, <1>8, <2>2 DEF DeleteRemoves
<1> QED
  BY <1>4, <1>5, <1>7, <1>8

LEMMA CallImplements ==
  ASSUME IInv, DiskOK, NEW c \in Callers, Call(c) \/ Lock(c) \/ Return(c)
  PROVE  Implements
<1>1. /\ UNCHANGED <<files, onDisk, outages>> /\ SameValues
      /\ calls[c] \in CallRecord /\ CallOK(calls[c]) /\ Stage(calls[c])
      /\ CallsBar[c] = Seen(calls[c])
  BY BarsAre DEF Call, Lock, Return, IInv, Types, Stage, ends
<1>2. CASE Call(c)
  <2>1. PICK k \in Keys, v \in Values, op \in Writers \cup Readers :
          calls' = [calls EXCEPT ![c] =
                      [op |-> op, key |-> k, value |-> IF op = "Set" THEN v ELSE None,
                       pc |-> "lock", result |-> "none", made |-> calls[c].made + 1]]
    BY <1>2 DEF Call
  <2> DEFINE r == [op |-> op, key |-> k, value |-> IF op = "Set" THEN v ELSE None,
                   pc |-> "lock", result |-> "none", made |-> calls[c].made + 1]
             a == [op |-> op, key |-> k, value |-> IF op = "Set" THEN v ELSE None,
                   result |-> "none"]
  <2>2. calls[c].made + 1 \in 0 .. MaxCalls
    BY <1>1, <1>2 DEF Call, CallRecord
  <2>3. r \in CallRecord
    BY <2>2 DEF CallRecord
  <2>4. Seen(r) = a
    BY DEF Seen
  <2>5. calls' = [calls EXCEPT ![c] = r]
    BY <2>1
  <2> HIDE DEF r
  <2>6. CallsBar' = [CallsBar EXCEPT ![c] = a]
    BY <2>3, <2>4, <2>5, OneCallBar
  <2>7. calls[c].op = "none" /\ calls[c].result = "none"
    BY <1>1, <1>2, OpOf DEF Call, Stage
  <2>8. CallsBar[c] = AbstractIdle
    BY <1>1, <2>7, SeenIs
  <2>9. op \in {"Set", "Get", "Has", "Delete"}
    BY DEF Writers, Readers
  <2> QED
    BY <1>1, <2>6, <2>8, <2>9, ContractCalls DEF Implements
<1>3. CASE Lock(c)
  <2> DEFINE r == [calls[c] EXCEPT !.pc = FirstStep[calls[c].op]]
  <2>1. calls' = [calls EXCEPT ![c] = r]
    BY <1>3 DEF Lock, IInv, Types
  <2>2. calls'[c] = r /\ \A d \in Callers \ {c} : calls'[d] = calls[d]
    BY <2>1 DEF IInv, Types
  <2>3. Seen(r) = Seen(calls[c])
    BY <1>1 DEF Seen, CallRecord
  <2> HIDE DEF r
  <2>4. \A d \in Callers : Seen(calls'[d]) = Seen(calls[d])
    BY <2>2, <2>3
  <2>5. CallsBar' = CallsBar
    BY <2>4 DEF CallsBar, Seen
  <2> QED
    BY <1>1, <2>5 DEF Implements
<1>4. CASE Return(c)
  <2> DEFINE r == [Idle EXCEPT !.made = calls[c].made]
  <2>1. calls' = [calls EXCEPT ![c] = r] /\ calls[c].pc = "return"
    BY <1>4 DEF Return
  <2>2. r \in CallRecord
    BY <1>1, IdleIs DEF CallRecord
  <2>3. Seen(r) = AbstractIdle
    BY DEF Seen, AbstractIdle, Idle
  <2> HIDE DEF r
  <2>4. CallsBar' = [CallsBar EXCEPT ![c] = AbstractIdle]
    BY <2>1, <2>2, <2>3, OneCallBar
  <2>5. CallsBar[c].result # "none"
    BY <1>1, <2>1, SeenIs DEF Stage
  <2> QED
    BY <1>1, <2>4, <2>5, ContractReturns DEF Implements
<1> QED
  BY <1>2, <1>3, <1>4

LEMMA EndImplements ==
  ASSUME IInv, DiskOK, Kill \/ PowerLoss \/ NewFileStore
  PROVE  Implements
<1>1. CASE Kill \/ PowerLoss
  <2>1. calls' = [c \in Callers |-> [Idle EXCEPT !.made = calls[c].made]]
    BY <1>1 DEF Kill, PowerLoss, Discarded
  <2>2. \A c \in Callers : Seen(calls'[c]) = AbstractIdle
    BY <2>1 DEF Seen, AbstractIdle, Idle
  <2>3. CallsBar' = [c \in Callers |-> AbstractIdle]
    BY <2>2 DEF CallsBar, Seen
  <2>4. CASE Kill
    BY <2>3, <2>4, BarsAre, ContractEnds DEF Kill, Implements
  <2>5. CASE PowerLoss
    <3>1. /\ \A k \in Keys : \E f \in onDisk[k] :
               f \in File \cup {None} /\ files'[k] \in FoundOf(f)
          /\ onDisk' = [k \in Keys |-> {files'[k]}] /\ outages' = outages + 1
      BY <2>5, PowerFinds DEF PowerLoss
    <3>2. \A k \in Keys : StoredBar'[k] = Value(files'[k])
      BY DEF StoredBar, Value
    <3>3. ASSUME NEW k \in Keys
          PROVE  StoredBar'[k] \in HadBar[k] \cup (IF k \in FreshBar THEN {Part} ELSE {})
      <4>1. PICK f \in onDisk[k] : f \in File \cup {None} /\ files'[k] \in FoundOf(f)
        BY <3>1, <3>3
      <4>2. Value(f) \in HadBar[k]
        BY <3>3, <4>1 DEF HadBar
      <4> DEFINE g == files'[k]
      <4>3. /\ f = None <=> g = None
            /\ g # None => /\ g.value = f.value /\ (g.whole => f.whole)
                           /\ (f.synced => g.whole = f.whole)
        BY <4>1, FoundIs
      <4>4. Value(g) = Value(f) \/ (Value(g) = Part /\ f # None /\ ~f.synced)
        BY <4>3 DEF Value
      <4>5. f # None /\ ~f.synced => k \in FreshBar
        BY <3>3, <4>1 DEF FreshBar
      <4> HIDE DEF g
      <4>6. Value(g) \in HadBar[k] \cup (IF k \in FreshBar THEN {Part} ELSE {})
        BY <4>2, <4>4, <4>5
      <4> QED
        BY <3>2, <3>3, <4>6 DEF g
    <3>4. HadBar' = [k \in Keys |-> {StoredBar'[k]}]
      <4>1. HadBar' = [k \in Keys |-> {Value(f) : f \in onDisk'[k]}]
        BY DEF HadBar, Value
      <4>2. \A k \in Keys : {Value(f) : f \in onDisk'[k]} = {StoredBar'[k]}
        BY <3>1, <3>2
      <4> QED
        BY <4>1, <4>2
    <3>5. FreshBar' = {}
      <4>1. \A k \in Keys : files'[k] # None => files'[k].synced
        BY <3>1, FoundIs
      <4> QED
        BY <3>1, <4>1 DEF FreshBar
    <3> QED
      BY <2>3, <3>1, <3>3, <3>4, <3>5, ContractOutage DEF Implements
  <2> QED
    BY <1>1, <2>4, <2>5
<1>2. CASE NewFileStore
  BY <1>2, BarsAre DEF NewFileStore, Implements, ends
<1> QED
  BY <1>1, <1>2

LEMMA NextImplements ==
  ASSUME IInv, DiskOK, [Next]_vars
  PROVE  Implements
<1>1. ASSUME NEW c \in Callers, Call(c) \/ Step(c) PROVE Implements
  BY <1>1, CallImplements, SetImplements, ReadersImplement DEF Step
<1>2. CASE UNCHANGED vars
  BY <1>2, BarsAre DEF vars, ends, Implements
<1> QED
  BY <1>1, <1>2, EndImplements DEF Next, Resting

\* The files are a store: every operation takes effect at one moment between
\* its call and its return, a reader never sees a part of a value, and what is
\* stored outlives the process.  Only the machine going down can bring a value
\* back that a key had since the time before, or damage one that was set since.
THEOREM StoreCorrect == Spec => StoreSpec
<1>1. Init => Contract!Init
  <2> SUFFICES ASSUME Init PROVE Contract!Init
    OBVIOUS
  <2>1. /\ \A k \in Keys : files[k] = None /\ onDisk[k] = {None}
        /\ \A c \in Callers : calls[c] = Idle
        /\ outages = 0
    BY DEF Init
  <2>2. StoredBar = [k \in Keys |-> None]
    BY <2>1 DEF StoredBar, Value
  <2>3. CallsBar = [c \in Callers |-> AbstractIdle]
    BY <2>1 DEF CallsBar, AbstractIdle, Idle
  <2>4. HadBar = [k \in Keys |-> {StoredBar[k]}]
    <3>1. \A k \in Keys : {Value(f) : f \in onDisk[k]} = {StoredBar[k]}
      BY <2>1, <2>2 DEF Value
    <3> QED
      BY <3>1 DEF HadBar
  <2>5. FreshBar = {}
    BY <2>1 DEF FreshBar
  <2>6. StoredBar \in [Keys -> Values \cup {None}]
    BY <2>2
  <2> QED
    BY <2>1, <2>3, <2>4, <2>5, <2>6
       DEF Contract!Init, Contract!Idle, StoredBar, HadBar, FreshBar, CallsBar, AbstractIdle
<1>2. IInv /\ DiskOK /\ [Next]_vars =>
        Contract!Next \/ (SameValues /\ CallsBar' = CallsBar /\ UNCHANGED outages)
  BY NextImplements DEF Implements
<1>3. IInv /\ DiskOK /\ [Next]_vars => [Contract!Next]_<<Contract!values,
                          [c \in Callers |-> [op |-> calls[c].op, key |-> calls[c].key,
                                              value |-> calls[c].value,
                                              result |-> calls[c].result]],
                          outages>>
  BY <1>2 DEF SameValues, StoredBar, HadBar, FreshBar, CallsBar, Contract!values
<1> QED
  BY <1>1, <1>3, Invariance, PTL DEF Spec, StoreSpec, Contract!Spec

=============================================================================
