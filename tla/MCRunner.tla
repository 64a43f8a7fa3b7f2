-------------------------------- MODULE MCRunner -------------------------------
(* An instance of Runner for TLC.  Every list of up to two tasks is validated  *)
(* and routed, every kind of row is converted, and the runner is used with two *)
(* of the configurations.                                                      *)
EXTENDS Runner

CONSTANTS g1, g2, h1, h2

MCCallers == {g1, g2}
MCHandlers == {h1, h2}

\* "", "a", "b", "a.a", "a.b", "." and ".a"
MCNames == {<< >>, <<"a">>, <<"b">>, <<"a", ".", "a">>, <<"a", ".", "b">>, <<".">>,
            <<".", "a">>}
MCDot == "."
MCColumns == {"id", "ref"}
MCNoColumn == ""

MCExact == 8
MCNumber == [x \in {"1", "2", "11"} |-> IF x = "1" THEN 1 ELSE IF x = "2" THEN 2 ELSE 11]
MCTimes == {"noon"}
MCReplaced == [x \in {"bad", "worse"} |-> "?"]

T(database, name, pk, ref) ==
  [Database |-> database, Name |-> name, PrimaryKey |-> pk, RefColumn |-> ref]

Main == T(<<"a">>, <<"b">>, "id", "")
Sub  == T(<<"a">>, <<"a">>, "", "ref")
Full == T(<<"b">>, <<"a">>, "id", "ref")

Tried ==
  {[Main |-> m, Sub |-> s] :
     m \in {Main, Full, Sub, T(<<"a">>, <<"a", ".", "b">>, "id", ""),
            T(<<"a", ".", "b">>, <<"b">>, "id", ""), T(<< >>, <<"a">>, "id", "")},
     s \in {<< >>, <<Sub>>, <<Full>>, <<Sub, Full>>, <<Sub, Sub>>, <<Main>>,
            <<T(<<"a", ".", "a">>, <<"b">>, "id", "ref")>>}}

\* A change of a table whose columns have the types of the key and the reference.
C(name, action, type, rows) ==
  [database |-> <<"a">>, table |-> <<name>>, action |-> action, rows |-> rows,
   columns |-> <<[name |-> "id", type |-> type], [name |-> "ref", type |-> "number"]>>]

V(go, v) == Value(go, v)

Raws ==
  {Null, V("int", -11), V("int", -1), V("int", 0), V("int", 1), V("int", 2), V("int", 11), V("int", 12)}
    \cup {V(go, x) : go \in {"bytes", "string"}, x \in {"", "0", "1", "2", "11", "bad", "worse", "noon"}}

\* The same column in two rows, whatever canal reads it as, and rows that are
\* too short; and updates with and without their other half.
Conversions ==
  {<<C("b", "insert", type, <<<<x>>, <<y>>>>)>> :
     type \in {"number", "float", "bit", "datetime", "string", "other"}, x, y \in Raws}
  \cup {<<C("b", action, "number", [i \in 1 .. n |-> <<V("int", i), Null>>])>> :
          action \in {"insert", "update", "delete", "ddl"}, n \in 0 .. 5}
  \cup {<<C("b", "insert", "number", << << >> >>)>>}

\* Two tasks that watch one table, and a change of it that carries the key of
\* both or, in an update, of the first alone, beside one nobody watches.
Used(change) ==
  [tasks |-> <<[Main |-> Main, Sub |-> << >>],
               [Main |-> Full, Sub |-> <<T(<<"a">>, <<"b">>, "", "ref")>>]>>,
   changes |-> <<change, C("a", "delete", "number", <<<<V("int", 1)>>>>)>>]

MCExplored ==
  {Used(C("b", "insert", "number", <<<<V("int", 1), V("int", 2)>>>>)),
   Used(C("b", "update", "number", <<<<V("int", 1), V("int", 2)>>, <<V("int", 1), Null>>>>))}

MCConfigurations ==
  {[tasks |-> ts, changes |-> << >>] :
     ts \in {<< >>} \cup {<<t>> : t \in Tried} \cup {<<t, u>> : t, u \in Tried}}
  \cup {[tasks |-> <<[Main |-> Main, Sub |-> << >>]>>, changes |-> cs] : cs \in Conversions}
  \cup MCExplored

=============================================================================
