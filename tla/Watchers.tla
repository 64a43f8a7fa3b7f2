-------------------------------- MODULE Watchers -------------------------------
(***************************************************************************)
(* Which tasks a change is for (task/watchers.go).  The tables the tasks    *)
(* declare are validated and indexed by a key, the database and the name   *)
(* of the table joined by a dot; a change is routed by its key alone, and  *)
(* the row a task is run for is read from one of its columns.              *)
(*                                                                         *)
(* A name is a sequence of letters, one of which may be the dot, so that   *)
(* joining two names is what it is in the code.                            *)
(***************************************************************************)
EXTENDS RowEvents, FiniteSets

CONSTANTS
  Names,     \* names of databases and tables: sequences of letters
  Dot,       \* the letter that joins them
  Columns,   \* names of columns
  NoColumn   \* the empty one

Table == [Database : Names, Name : Names,
          PrimaryKey : Columns \cup {NoColumn}, RefColumn : Columns \cup {NoColumn}]

Task == [Main : Table, Sub : Seq(Table)]

ASSUME WatchersAssumption ==
  /\ NoColumn \notin Columns
  /\ \A name \in Names : name \in Seq(ToSet(name))

VARIABLES
  tasks,    \* the tasks of the configuration, a sequence
  changes,  \* the changes that are published, a sequence
  built     \* what NewRunner made of the tasks: none, failed, runner

tableKeyOf(database, name) == database \o <<Dot>> \o name

HasDot(name) == \E i \in DOMAIN name : name[i] = Dot

\* Mutant of validTable: the dots are not looked for.
validTableWithDots(t, main) ==
  /\ t.Database # << >> /\ t.Name # << >>
  /\ IF main THEN t.PrimaryKey # NoColumn ELSE t.RefColumn # NoColumn

\* validateTable reports nothing.
validTable(t, main) ==
  /\ t.Database # << >> /\ t.Name # << >>
  /\ ~HasDot(t.Database) /\ ~HasDot(t.Name)
  /\ IF main THEN t.PrimaryKey # NoColumn ELSE t.RefColumn # NoColumn

\* The watchers of one task, its main table first.
watchersOf(t, i) ==
  <<[task |-> i, table |-> t.Main, main |-> TRUE]>>
    \o [k \in 1 .. Len(t.Sub) |-> [task |-> i, table |-> t.Sub[k], main |-> FALSE]]

keyOf(w) == tableKeyOf(w.table.Database, w.table.Name)

\* indexTasks accepts a task: every table is valid and none is declared twice.
validTask(t) ==
  LET ws == watchersOf(t, 1)
  IN  /\ \A k \in DOMAIN ws : validTable(ws[k].table, ws[k].main)
      /\ \A k, l \in DOMAIN ws : k # l => keyOf(ws[k]) # keyOf(ws[l])

\* indexTasks fails, and with it NewRunner.
rejected == \E i \in DOMAIN tasks : ~validTask(tasks[i])

\* The watchers in the order they are added to the index.
index == FlattenSeq([i \in DOMAIN tasks |-> watchersOf(tasks[i], i)])

\* watchers.of: those of some watchers that a key is for.
of(ws, key) ==
  FlattenSeq([k \in DOMAIN ws |-> IF keyOf(ws[k]) = key THEN <<ws[k]>> ELSE << >>])

\* Mutant of keyColumn: a sub table is read by its own primary key.
keyColumnOwn(w) == w.table.PrimaryKey

keyColumn(w) == IF w.main THEN w.table.PrimaryKey ELSE w.table.RefColumn

\* mainPkVal: the value of the main table's row, if the change carries one.
mainPkVal(w, data) ==
  {data[c] : c \in {c \in {keyColumn(w)} \cap DOMAIN data :
                      /\ data[c].go # "nil"
                      /\ data[c].go = "string" => data[c].v # ""}}

-----------------------------------------------------------------------------
(* A configuration stays what it is, so that what it has to be is said of   *)
(* the moment before NewRunner reads it.                                   *)

\* The tables a task declares, as its author means them.
Tables(t) == {t.Main} \cup ToSet(t.Sub)

IsFor(t, database, name) ==
  \E d \in Tables(t) : d.Database = database /\ d.Name = name

RoutedTo(database, name) ==
  LET ws == of(index, tableKeyOf(database, name))
  IN  [k \in DOMAIN ws |-> ws[k].task]

\* A change reaches exactly the tasks that declared its table, each of them
\* once and in the order of the configuration, although it is looked up by the
\* joined key only: no other pair of a database and a table, with or without
\* dots in it, has the same key as a declared one.  A change that carries every
\* column also names the row of the main table for each of them: no watcher
\* looks for it in a column its declaration left empty.
RoutedExactly ==
  built = "none" /\ ~rejected =>
    /\ \A database, name \in Names :
         LET to == RoutedTo(database, name)
         IN  /\ ToSet(to) = {i \in DOMAIN tasks : IsFor(tasks[i], database, name)}
             /\ \A k, l \in DOMAIN to : k < l => to[k] < to[l]
    /\ \A w \in ToSet(index) : mainPkVal(w, [c \in Columns |-> Value("float", 1)]) # {}

\* The rows of a change that say what is in the table now.
NewRows(change) ==
  IF change.action # "update" THEN change.rows
  ELSE [i \in 1 .. (Len(change.rows) + 1) \div 2 |->
          change.rows[IF 2 * i <= Len(change.rows) THEN 2 * i ELSE 2 * i - 1]]

\* Every row of the binlog is in one event, in its order: an update carries what
\* the row is now, and beside it what it was, of the same row.
OneEventPerRow ==
  built = "none" =>
    \A k \in DOMAIN changes :
      LET c == changes[k]
          new == NewRows(c)
          events == OnRow(c)
      IN  /\ [i \in DOMAIN events |-> events[i].data]
               = [i \in DOMAIN new |-> Event(c, rowToMap(new[i], c.columns), NoOld).data]
          /\ c.action = "update" =>
               \A i \in DOMAIN events :
                 2 * i <= Len(c.rows) =>
                   events[i].old = Event(c, NoOld, rowToMap(c.rows[2 * i - 1], c.columns)).old

\* What a key is in the database, whichever Go type it was read as.
Denoted(type, raw) ==
  CASE raw.go = "nil" \/ (raw.go \in {"bytes", "string"} /\ raw.v = "") -> {}
    [] type = "number" /\ raw.go = "bytes" /\ raw.v \in DOMAIN Number -> {<<"number", Number[raw.v]>>}
    [] raw.go = "int" -> {<<"number", raw.v>>}
    [] OTHER -> {<<"text", raw.v>>}

\* The rows of the changes a watcher is given: the i-th row of the k-th change.
RowsFor(w) ==
  UNION {{<<k, i>> : i \in DOMAIN changes[k].rows} :
           k \in {k \in DOMAIN changes :
                    tableKeyOf(changes[k].database, changes[k].table) = keyOf(w)}}

\* The row of the main table it is about, as the watcher reads it.
Read(w, r) ==
  LET c == changes[r[1]]
  IN  mainPkVal(w, Event(c, rowToMap(c.rows[r[2]], c.columns), NoOld).data)

\* The same as the database has it.
Key(w, r) ==
  LET c   == changes[r[1]]
      row == c.rows[r[2]]
  IN  UNION {Denoted(c.columns[j].type, row[j]) :
               j \in {j \in DOMAIN row \cap DOMAIN c.columns : c.columns[j].name = keyColumn(w)}}

\* The key column is one of numbers or of texts, and the key survives the JSON:
\* it is no number that is not exact and no text that is not UTF-8.
Survives(w, r) ==
  \A j \in DOMAIN changes[r[1]].columns :
    changes[r[1]].columns[j].name = keyColumn(w) =>
      LET type == changes[r[1]].columns[j].type
      IN  /\ type \in {"number", "string"}
          /\ \A d \in Key(w, r) : /\ type = "number" => d[1] = "number"
                                  /\ d[1] = "number" => d[2] \in -Exact .. Exact
                                  /\ d[1] = "text" => d[2] \notin DOMAIN Replaced

\* Two changes name the same row of the main table exactly when they are about
\* the same row, although the keys were read as different types of Go and went
\* through JSON; a change names no row exactly when its key column is empty.
KeysTellRowsApart ==
  built = "none" /\ ~rejected =>
    \A w \in ToSet(index) : \A r, q \in {r \in RowsFor(w) : Survives(w, r)} :
      /\ Read(w, r) = {} <=> Key(w, r) = {}
      /\ Read(w, r) = Read(w, q) <=> Key(w, r) = Key(w, q)

=============================================================================
