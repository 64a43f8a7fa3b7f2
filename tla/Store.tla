--------------------------------- MODULE Store --------------------------------
(***************************************************************************)
(* What a store of positions promises to goroutines that use it side by    *)
(* side (IStore in store/store.go, as MySQLSource relies on it): every     *)
(* operation takes effect at one moment between its call and its return,   *)
(* and the values outlive the process.  An operation may always fail; a    *)
(* Set that failed may have taken effect, as one whose answer was lost.    *)
(* When the machine goes down, a key may have any value again that it had  *)
(* since the last time, and one set since then may be damaged.             *)
(***************************************************************************)
EXTENDS Naturals

CONSTANTS
  Callers,  \* goroutines that use the store
  Keys,
  Values,
  None,     \* no value is stored
  Damaged   \* a value that is not what anybody stored

VARIABLES
  stored,   \* the value of each key
  had,      \* the values each key had since the machine went down last
  fresh,    \* the keys that were set since then
  calls,    \* the operation of each caller and its result, once it has one
  outages   \* times the machine went down

values == <<stored, had, fresh>>

Idle == [op |-> "none", key |-> None, value |-> None, result |-> "none"]

Init ==
  /\ stored \in [Keys -> Values \cup {None}]
  /\ had = [k \in Keys |-> {stored[k]}]
  /\ fresh = {}
  /\ calls = [c \in Callers |-> Idle]
  /\ outages = 0

Call(c) ==
  /\ calls[c] = Idle
  /\ \E k \in Keys, v \in Values, op \in {"Set", "Get", "Has", "Delete"} :
       calls' = [calls EXCEPT ![c] =
                   [op |-> op, key |-> k,
                    value |-> IF op = "Set" THEN v ELSE None, result |-> "none"]]
  /\ UNCHANGED <<values, outages>>

Answer(c, result) == calls' = [calls EXCEPT ![c].result = result]

Store(k, v) ==
  /\ stored' = [stored EXCEPT ![k] = v]
  /\ had' = [had EXCEPT ![k] = @ \cup {v}]
  /\ fresh' = IF v = None THEN fresh ELSE fresh \cup {k}

\* The moment at which the operation of a caller takes effect.
Effect(c) ==
  LET k == calls[c].key
  IN  /\ calls[c].result = "none"
      /\ UNCHANGED outages
      /\ \/ /\ calls[c].op = "Set"
            /\ \/ Store(k, calls[c].value) /\ Answer(c, "ok")
               \/ Store(k, calls[c].value) /\ Answer(c, "failed")
         \/ /\ calls[c].op = "Delete"
            /\ Store(k, None) /\ Answer(c, "ok")
         \/ /\ calls[c].op = "Get"
            /\ Answer(c, IF stored[k] = None THEN "absent" ELSE stored[k])
            /\ UNCHANGED values
         \/ /\ calls[c].op = "Has"
            /\ Answer(c, IF stored[k] = None THEN "no" ELSE "yes")
            /\ UNCHANGED values
         \/ /\ calls[c].op # "none"
            /\ Answer(c, IF calls[c].op = "Has" THEN "no" ELSE "failed")
            /\ UNCHANGED values

Return(c) ==
  /\ calls[c].result # "none"
  /\ calls' = [calls EXCEPT ![c] = Idle]
  /\ UNCHANGED <<values, outages>>

\* The process ends, and its calls with it.
End ==
  /\ calls' = [c \in Callers |-> Idle]
  /\ UNCHANGED <<values, outages>>

Outage ==
  /\ calls' = [c \in Callers |-> Idle]
  /\ outages' = outages + 1
  /\ stored' \in [Keys -> (UNION {had[k] : k \in Keys}) \cup {Damaged}]
  /\ \A k \in Keys : stored'[k] \in had[k] \cup (IF k \in fresh THEN {Damaged} ELSE {})
  /\ had' = [k \in Keys |-> {stored'[k]}]
  /\ fresh' = {}

Next == End \/ Outage \/ \E c \in Callers : Call(c) \/ Effect(c) \/ Return(c)

Spec == Init /\ [][Next]_<<values, calls, outages>>

=============================================================================
