------------------------------- MODULE RowEvents -------------------------------
(***************************************************************************)
(* From the rows of the binlog to the event a handler is given: OnRow and  *)
(* rowToMap of source/mysql.go, and the JSON the event travels in          *)
(* (types/event.go and decodeEvent of queue/consumer/consumer.go).         *)
(*                                                                         *)
(* A value is a record of its Go type and what it holds.  A text is one of *)
(* a few, of which is given what it stands for: a number, a time, or bytes *)
(* that are not UTF-8; as the bytes of a BIT column "0" begins with a zero *)
(* byte.                                                                   *)
(***************************************************************************)
EXTENDS Integers, Sequences, SequencesExt

CONSTANTS
  Exact,    \* the integers no further from zero are exact in a float64
  Number,   \* the numbers that texts denote: a function on some texts
  Times,    \* the texts that denote a time
  Replaced  \* what JSON makes of the texts that are not UTF-8: a function on them

ASSUME RowEventsAssumption ==
  /\ Exact \in Nat
  /\ "" \notin DOMAIN Number \cup DOMAIN Replaced
  /\ \A text \in DOMAIN Number : Number[text] \in Int

Value(go, v) == [go |-> go, v |-> v]
Null == Value("nil", "")

\* Mutant of converted: the bytes of a number stay what they are.
convertedTextOnly(type, raw) ==
  IF raw.go # "bytes" THEN raw
  ELSE CASE type = "bit" -> Value("bool", raw.v \notin {"", "0"})
         [] type = "datetime" /\ raw.v \in Times -> Value("time", raw.v)
         [] type = "string" \/ (type = "datetime" /\ raw.v \notin Times) -> Value("string", raw.v)
         [] OTHER -> raw

\* The conversion of rowToMap: only bytes are read, by the type of the column,
\* and what they do not denote stays bytes.
converted(type, raw) ==
  IF raw.go # "bytes" THEN raw
  ELSE CASE type = "number" /\ raw.v \in DOMAIN Number -> Value("int", Number[raw.v])
         [] type = "float" /\ raw.v \in DOMAIN Number -> Value("float", Number[raw.v])
         [] type = "bit" -> Value("bool", raw.v \notin {"", "0"})
         [] type = "datetime" /\ raw.v \in Times -> Value("time", raw.v)
         [] type = "string" \/ (type = "datetime" /\ raw.v \notin Times) -> Value("string", raw.v)
         [] OTHER -> raw

\* The change of a table of MySQL: no two columns have one name, and a column of
\* numbers or of texts is read as nil, an integer, bytes or a string.
Change(c) ==
  /\ c.rows \in Seq(ToSet(c.rows)) /\ c.columns \in Seq(ToSet(c.columns))
  /\ \A j, k \in DOMAIN c.columns : c.columns[j].name = c.columns[k].name => j = k
  /\ \A row \in ToSet(c.rows) :
       /\ row \in Seq(ToSet(row))
       /\ \A j \in DOMAIN row \cap DOMAIN c.columns :
            /\ row[j] = Value(row[j].go, row[j].v)
            /\ row[j].go = "int" => row[j].v \in Int
            /\ c.columns[j].type \in {"number", "string"} =>
                 row[j].go \in {"nil", "int", "bytes", "string"}

\* rowToMap: a column the row is too short for is nil.
rowToMap(row, columns) ==
  [name \in {columns[j].name : j \in DOMAIN columns} |->
     LET j == CHOOSE j \in DOMAIN columns : columns[j].name = name
     IN  IF j > Len(row) THEN Null ELSE converted(columns[j].type, row[j])]

\* A float64 beyond Exact is even, a tie goes to the multiple of four.
Rounded(n) ==
  IF n \in -Exact .. Exact \/ n % 2 = 0 THEN n ELSE IF n % 4 = 1 THEN n - 1 ELSE n + 1

\* What comes out of the JSON of a value: a number is a float64, bytes are a
\* string in base64 and a time is a string.
decoded(value) ==
  CASE value.go = "int" -> Value("float", Rounded(value.v))
    [] value.go = "bytes" -> IF value.v = "" THEN Value("string", "") ELSE Value("base64", value.v)
    [] value.go = "time" -> Value("string", value.v)
    [] value.go = "string" /\ value.v \in DOMAIN Replaced -> Value("string", Replaced[value.v])
    [] OTHER -> value

\* What a handler is given of one event.
Event(change, data, old) ==
  [database |-> change.database, table |-> change.table,
   data |-> [name \in DOMAIN data |-> decoded(data[name])],
   old |-> [name \in DOMAIN old |-> decoded(old[name])]]

NoOld == << >>

\* Mutant of OnRow: both rows of an update get an event.
OnRowEach(change) ==
  [i \in DOMAIN change.rows |-> Event(change, rowToMap(change.rows[i], change.columns), NoOld)]

\* The loop of OnRow over the rows of one event of the binlog.  The rows of an
\* update come in pairs, the old one first; one without its other half is taken
\* for the new one.
OnRow(change) ==
  LET rows == change.rows
      data(i) == rowToMap(rows[i], change.columns)
      from[i \in 1 .. Len(rows) + 1] ==
        IF i > Len(rows) THEN << >>
        ELSE IF change.action = "update" /\ i + 1 <= Len(rows)
        THEN <<Event(change, data(i + 1), data(i))>> \o from[i + 2]
        ELSE <<Event(change, data(i), NoOld)>> \o from[i + 1]
  IN  from[1]

\* The events of a list of changes, in the order they are published.
EventsOf(changes) == FlattenSeq([k \in DOMAIN changes |-> OnRow(changes[k])])

=============================================================================
