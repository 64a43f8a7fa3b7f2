------------------------------- MODULE FileStore ------------------------------
(***************************************************************************)
(* The store that keeps one file per key (store/file.go).                  *)
(*                                                                         *)
(* Goroutines call Set, Get, Has and Delete; the process can be killed     *)
(* between any two calls to the file system, and all but what is in the    *)
(* directory is lost.  The RWMutex of a key is held from the first step of *)
(* an operation to its return, so who holds it follows from the calls.     *)
(***************************************************************************)
EXTENDS Naturals, FiniteSets

CONSTANTS
  Callers,     \* goroutines that use the store
  Keys,
  Values,
  None,        \* no value, no file
  Part,        \* what a reader makes of a file that is not whole
  MaxCalls,    \* bound: calls of each goroutine
  MaxCrashes,  \* bound: ends of the process
  Env          \* what can happen, see EnvEvents

EnvEvents ==
  { "io",    \* a call to the file system fails
    "kill",  \* the process is killed
    "power"  \* the machine goes down
  }

\* What a file holds: a value, all of it or only a part, that the disk has or
\* that nobody synced.
File == [value : Values, whole : BOOLEAN, synced : BOOLEAN]

ASSUME FileStoreAssumption ==
  /\ None \notin Keys \cup Values \cup File
  /\ {"none", "ok", "failed", "absent", "yes", "no", Part} \cap Values = {}
  /\ Part \notin {None, "none"}
  /\ MaxCalls \in Nat
  /\ MaxCrashes \in Nat
  /\ Env \subseteq EnvEvents

VARIABLES
  files,    \* the file of each key
  onDisk,   \* the files the disk may have for each key: one it had in this life of
            \* the machine, as the directory is not synced
  temps,    \* the temporary files, which are named after their calls
  calls,    \* what each caller is doing
  up,       \* the process is running and has its store
  crashes,  \* ends of the process so far
  outages,  \* those at which the machine went down
  cut       \* history: calls that were killed or could not remove their file

ends == <<crashes, outages>>
vars == <<files, onDisk, temps, calls, up, ends, cut>>

Writers == {"Set", "Delete"}
Readers == {"Get", "Has"}

\* os.CreateTemp gives every Set a name of its own.
TempNames == Callers \X (1 .. MaxCalls)
TempOf(c) == <<c, calls[c].made>>

Idle ==
  [op |-> "none", key |-> None, value |-> None, pc |-> "idle", result |-> "none", made |-> 0]

Init ==
  /\ files = [k \in Keys |-> None]
  /\ onDisk = [k \in Keys |-> {None}]
  /\ temps = [x \in TempNames |-> None]
  /\ calls = [c \in Callers |-> Idle]
  /\ up = TRUE
  /\ crashes = 0 /\ outages = 0
  /\ cut = {}

-----------------------------------------------------------------------------
(* Calls and the lock of a key.                                            *)

Call(c) ==
  /\ up
  /\ calls[c].pc = "idle" /\ calls[c].made < MaxCalls
  /\ \E k \in Keys, v \in Values, op \in Writers \cup Readers :
       calls' = [calls EXCEPT ![c] =
                   [op |-> op, key |-> k, value |-> IF op = "Set" THEN v ELSE None,
                    pc |-> "lock", result |-> "none", made |-> calls[c].made + 1]]
  /\ UNCHANGED <<files, onDisk, temps, up, ends, cut>>

Holds(c, k) == calls[c].key = k /\ calls[c].pc \notin {"idle", "lock"}

\* Mutant of MayLock: the lock of a key is a new one for every call.
MayLockAlways(c) == TRUE

\* A writer waits for everybody, a reader for a writer.
MayLock(c) ==
  \A d \in Callers \ {c} :
    Holds(d, calls[c].key) => {calls[c].op, calls[d].op} \subseteq Readers

FirstStep == [Set |-> "create", Get |-> "read", Has |-> "stat", Delete |-> "look"]

Lock(c) ==
  /\ calls[c].pc = "lock"
  /\ MayLock(c)
  /\ calls' = [calls EXCEPT ![c].pc = FirstStep[calls[c].op]]
  /\ UNCHANGED <<files, onDisk, temps, up, ends, cut>>

\* The call of c goes on at another step, or has its result.
GoesOn(c, from, to) ==
  /\ calls[c].pc = from
  /\ calls' = [calls EXCEPT ![c].pc = to]
  /\ UNCHANGED <<up, ends>>

Results(c, from, to, result) ==
  /\ calls[c].pc = from
  /\ calls' = [calls EXCEPT ![c].pc = to, ![c].result = result]
  /\ UNCHANGED <<up, ends>>

\* The deferred Unlock.
Return(c) ==
  /\ calls[c].pc = "return"
  /\ calls' = [calls EXCEPT ![c] = [Idle EXCEPT !.made = calls[c].made]]
  /\ UNCHANGED <<files, onDisk, temps, up, ends, cut>>

-----------------------------------------------------------------------------
(* Set.                                                                    *)

NewFile(v) == [value |-> v, whole |-> FALSE, synced |-> FALSE]

\* The name of a key stands for another file, or for none.
Put(k, file) ==
  /\ files' = [files EXCEPT ![k] = file]
  /\ onDisk' = [onDisk EXCEPT ![k] = @ \cup {file}]

\* Mutant of CreateTemp: the file of the key is opened and truncated.
TruncateTarget(c) ==
  /\ \/ /\ GoesOn(c, "create", "write")
        /\ temps' = [temps EXCEPT ![TempOf(c)] = NewFile(calls[c].value)]
        /\ Put(calls[c].key, NewFile(calls[c].value))
     \/ /\ "io" \in Env
        /\ Results(c, "create", "return", "failed")
        /\ UNCHANGED <<files, onDisk, temps>>
  /\ UNCHANGED cut

CreateTemp(c) ==
  /\ \/ /\ GoesOn(c, "create", "write")
        /\ temps' = [temps EXCEPT ![TempOf(c)] = NewFile(calls[c].value)]
     \/ /\ "io" \in Env
        /\ Results(c, "create", "return", "failed")
        /\ UNCHANGED temps
  /\ UNCHANGED <<files, onDisk, cut>>

\* Mutant of Write: the temporary file of a failed write is forgotten.
WriteForgets(c) ==
  /\ \/ /\ GoesOn(c, "write", "close")
        /\ temps' = [temps EXCEPT ![TempOf(c)].whole = TRUE]
     \/ /\ "io" \in Env
        /\ Results(c, "write", "return", "failed")
        /\ UNCHANGED temps
  /\ UNCHANGED <<files, onDisk, cut>>

\* Mutant of Write: a short write is taken for a whole one.
WriteShort(c) ==
  /\ \/ /\ GoesOn(c, "write", "close")
        /\ temps' = [temps EXCEPT ![TempOf(c)].whole = TRUE]
     \/ /\ "io" \in Env
        /\ GoesOn(c, "write", "close")
        /\ UNCHANGED temps
  /\ UNCHANGED <<files, onDisk, cut>>

\* Writing the value, which can end with a part of it in the file.
Write(c) ==
  /\ \/ /\ GoesOn(c, "write", "close")
        /\ temps' = [temps EXCEPT ![TempOf(c)].whole = TRUE]
     \/ /\ "io" \in Env
        /\ Results(c, "write", "clean", "failed")
        /\ UNCHANGED temps
  /\ UNCHANGED <<files, onDisk, cut>>

CloseTemp(c) ==
  /\ \/ GoesOn(c, "close", "chmod")
     \/ "io" \in Env /\ Results(c, "close", "clean", "failed")
  /\ UNCHANGED <<files, onDisk, temps, cut>>

Chmod(c) ==
  /\ \/ GoesOn(c, "chmod", "rename")
     \/ "io" \in Env /\ Results(c, "chmod", "clean", "failed")
  /\ UNCHANGED <<files, onDisk, temps, cut>>

\* The temporary file takes the place of the file of the key.
Rename(c) ==
  /\ \/ /\ Results(c, "rename", "clean", "ok")
        /\ Put(calls[c].key, temps[TempOf(c)])
        /\ temps' = [temps EXCEPT ![TempOf(c)] = None]
     \/ /\ "io" \in Env
        /\ Results(c, "rename", "clean", "failed")
        /\ UNCHANGED <<files, onDisk, temps>>
  /\ UNCHANGED cut

\* The deferred function: a temporary file that is still there is removed.
\* Nobody hears of it when that fails.
Clean(c) ==
  /\ GoesOn(c, "clean", "return")
  /\ \/ /\ temps' = [temps EXCEPT ![TempOf(c)] = None]
        /\ UNCHANGED cut
     \/ /\ "io" \in Env
        /\ cut' = cut \cup {TempOf(c)}
        /\ UNCHANGED temps
  /\ UNCHANGED <<files, onDisk>>

-----------------------------------------------------------------------------
(* Get, Has and Delete.                                                    *)

Get(c) ==
  /\ \/ Results(c, "read", "return",
                IF files[calls[c].key] = None THEN "absent"
                ELSE IF files[calls[c].key].whole THEN files[calls[c].key].value ELSE Part)
     \/ "io" \in Env /\ Results(c, "read", "return", "failed")
  /\ UNCHANGED <<files, onDisk, temps, cut>>

\* Has takes a file it cannot look at for one that is not there.
Has(c) ==
  /\ \/ Results(c, "stat", "return", IF files[calls[c].key] = None THEN "no" ELSE "yes")
     \/ "io" \in Env /\ Results(c, "stat", "return", "no")
  /\ UNCHANGED <<files, onDisk, temps, cut>>

\* Delete looks for the file.  One that is not there is as good as deleted.
DeleteLooks(c) ==
  /\ \/ /\ Results(c, "look", "return", "ok")
        /\ files[calls[c].key] = None
     \/ /\ GoesOn(c, "look", "remove")
        /\ files[calls[c].key] # None \/ "io" \in Env
  /\ UNCHANGED <<files, onDisk, temps, cut>>

DeleteRemoves(c) ==
  /\ \/ /\ Results(c, "remove", "return", "ok")
        /\ files[calls[c].key] # None
        /\ Put(calls[c].key, None)
     \/ /\ Results(c, "remove", "return", "failed")
        /\ files[calls[c].key] = None \/ "io" \in Env
        /\ UNCHANGED <<files, onDisk>>
  /\ UNCHANGED <<temps, cut>>

Step(c) ==
  \/ Lock(c) \/ Return(c)
  \/ CreateTemp(c) \/ Write(c) \/ CloseTemp(c) \/ Chmod(c) \/ Rename(c) \/ Clean(c)
  \/ Get(c) \/ Has(c) \/ DeleteLooks(c) \/ DeleteRemoves(c)

-----------------------------------------------------------------------------
(* The end of the process and the next one.                                *)

Discarded ==
  /\ up /\ crashes < MaxCrashes
  /\ up' = FALSE
  /\ crashes' = crashes + 1
  /\ calls' = [c \in Callers |-> [Idle EXCEPT !.made = calls[c].made]]

\* Nobody removes the temporary files of the calls that were under way.
Kill ==
  /\ "kill" \in Env
  /\ Discarded
  /\ cut' = cut \cup {TempOf(c) : c \in {d \in Callers : calls[d].pc # "idle"}}
  /\ UNCHANGED <<files, onDisk, temps, outages>>

\* What the machine may find of a file when it comes up: what was not synced may
\* be there in part.
FoundOf(file) ==
  IF file = None THEN {None}
  ELSE {[file EXCEPT !.whole = @ /\ w, !.synced = TRUE] :
          w \in IF file.synced THEN {TRUE} ELSE BOOLEAN}

\* The names of all temporary files there ever were.
Used == {x \in TempNames : x[2] <= calls[x[1]].made}

\* The machine goes down.  Set and Delete sync neither the file nor the
\* directory, so a rename or a removal may be undone, and a file be there only in
\* part.  Temporary files come back or are gone, and nobody reads what is in them.
PowerLoss ==
  /\ "power" \in Env
  /\ Discarded
  /\ outages' = outages + 1
  /\ files' \in [Keys -> UNION {UNION {FoundOf(f) : f \in onDisk[k]} : k \in Keys}]
  /\ \A k \in Keys : files'[k] \in UNION {FoundOf(f) : f \in onDisk[k]}
  /\ onDisk' = [k \in Keys |-> {files'[k]}]
  /\ \E back \in SUBSET Used, v \in Values :
       temps' = [x \in TempNames |-> IF x \in back THEN NewFile(v) ELSE None]
  /\ cut' = cut \cup Used

\* The next process makes its store.
NewFileStore ==
  /\ ~up
  /\ up' = TRUE
  /\ UNCHANGED <<files, onDisk, temps, calls, ends, cut>>

\* Every caller is through with its calls.
Resting ==
  /\ \A c \in Callers : calls[c].pc = "idle"
  /\ UNCHANGED vars

Next ==
  \/ \E c \in Callers : Call(c) \/ Step(c)
  \/ Kill \/ PowerLoss \/ NewFileStore
  \/ Resting

Spec == Init /\ [][Next]_vars

-----------------------------------------------------------------------------
PcOf ==
  [none |-> {"idle"}, Get |-> {"lock", "read", "return"}, Has |-> {"lock", "stat", "return"},
   Delete |-> {"lock", "look", "remove", "return"},
   Set |-> {"lock", "create", "write", "close", "chmod", "rename", "clean", "return"}]

\* The place of a call in its operation.
CallOK(call) ==
  /\ call.op \in {"none"} \cup Writers \cup Readers
  /\ call.key \in IF call.op = "none" THEN {None} ELSE Keys
  /\ call.value \in IF call.op = "Set" THEN Values ELSE {None}
  /\ call.pc \in PcOf[call.op]
  /\ call.result \in {"none", "ok", "failed", "absent", "yes", "no", Part} \cup Values
  /\ call.made \in 0 .. MaxCalls

\* Every variable has its type.
TypeOK ==
  /\ files \in [Keys -> File \cup {None}]
  /\ onDisk \in [Keys -> SUBSET (File \cup {None})]
  /\ temps \in [TempNames -> File \cup {None}]
  /\ DOMAIN calls = Callers /\ \A c \in Callers : CallOK(calls[c])
  /\ up \in BOOLEAN
  /\ crashes \in 0 .. MaxCrashes /\ outages \in 0 .. crashes
  /\ cut \subseteq TempNames

\* A temporary file belongs to a Set that is under way.  Only a Set that was
\* killed or whose removal failed leaves one behind, on whatever way it ended, or
\* a machine that went down.
TempsAreInUse ==
  /\ TypeOK
  /\ \A x \in TempNames \ cut :
       temps[x] # None => calls[x[1]].op = "Set" /\ TempOf(x[1]) = x

\* The file a caller looks at stays what it is until the caller is through with
\* it: between the look of Delete and its removal nobody takes the file away.
StableUnderLock ==
  [][\A c \in Callers :
       calls[c].pc \notin {"idle", "lock"} /\ calls'[c] = calls[c]
         => files'[calls[c].key] = files[calls[c].key]]_vars

\* The value of a file.
Value(file) == IF file = None THEN None ELSE IF file.whole THEN file.value ELSE Part

\* The files implement a store: a reader sees what was set last and never a
\* part of it, whatever fails and wherever the process is killed.  After the
\* machine went down it sees a value that was there since the time before, and a
\* part only of one that was set since then.
Contract ==
  INSTANCE Store WITH
    Damaged <- Part,
    stored <- [k \in Keys |-> Value(files[k])],
    had <- [k \in Keys |-> {Value(f) : f \in onDisk[k]}],
    fresh <- {k \in Keys : \E f \in onDisk[k] : f # None /\ ~f.synced},
    calls <- [c \in Callers |-> [op |-> calls[c].op, key |-> calls[c].key,
                                 value |-> calls[c].value, result |-> calls[c].result]]
StoreSpec == Contract!Spec

-----------------------------------------------------------------------------
(* What the comment of Set says and the code does not keep.                *)

\* A crash does not leave a partially written file: not when the machine goes
\* down, as the data is not synced before the rename.
NeverPartial == \A k \in Keys : files[k] # None => files[k].whole

=============================================================================
