------------------------------ MODULE RunnerProofs -----------------------------
(* Theorems about Runner, for any lists of tasks and changes, any number of   *)
(* callers and any number of their calls and of failures.                     *)
EXTENDS Runner, WellFoundedInduction, TLAPS

LEMMA Bounds == MaxCalls \in Nat /\ MaxFailures \in Nat
  BY RunnerAssumption DEF RunnerAssumption

USE Bounds

LEMMA OneMore == \A n \in 0 .. MaxCalls : n < MaxCalls => n + 1 \in 0 .. MaxCalls
  OBVIOUS

LEMMA Apart == \A c \in Callers, h \in Handlers : c # h
  BY RunnerAssumption DEF RunnerAssumption

\* The first of some numbers.
LEMMA MinIs ==
  ASSUME NEW S \in SUBSET Nat, S # {}
  PROVE  Min(S) \in S /\ \A x \in S : Min(S) <= x
<1>1. \E x \in S : \A y \in S : ~(<<y, x>> \in OpToRel(<, Nat))
  BY NatLessThanWellFounded, WFMin, Zenon
<1>2. \A x \in Nat, y \in Nat : <<y, x>> \in OpToRel(<, Nat) <=> y < x
  BY Zenon DEF OpToRel
<1>3. \E x \in S : \A y \in S : ~(y < x)
  BY <1>1, <1>2
<1>4. \E x \in S : \A y \in S : x <= y
  BY <1>3
<1> QED
  BY <1>4 DEF Min

-----------------------------------------------------------------------------
(* The loop of OnRow.                                                      *)

\* The event the loop makes when it stands at the i-th row, and where it goes on.
Paired(c, i) == c.action = "update" /\ i + 1 <= Len(c.rows)

EventAt(c, i) ==
  IF Paired(c, i)
  THEN Event(c, rowToMap(c.rows[i + 1], c.columns), rowToMap(c.rows[i], c.columns))
  ELSE Event(c, rowToMap(c.rows[i], c.columns), NoOld)

NextAt(c, i) == IF Paired(c, i) THEN i + 2 ELSE i + 1

\* f has, for every row, the events the loop still makes from there on.
Loop(f, c) ==
  f = [i \in 1 .. Len(c.rows) + 1 |->
         IF i > Len(c.rows) THEN << >> ELSE <<EventAt(c, i)>> \o f[NextAt(c, i)]]

\* How many these are, and at which row the k-th of them is made.
Left(c, i) == IF c.action = "update" THEN (Len(c.rows) + 2 - i) \div 2 ELSE Len(c.rows) + 1 - i

RowAt(c, i, k) == IF c.action = "update" THEN i + 2 * k - 2 ELSE i + k - 1

Made(c) ==
  [i \in 1 .. Len(c.rows) + 1 |-> [k \in 1 .. Left(c, i) |-> EventAt(c, RowAt(c, i, k))]]

LEMMA OnRowLoops == \A c : OnRow(c) = (CHOOSE f : Loop(f, c))[1]
  BY ZenonT(60) DEF OnRow, Loop, EventAt, NextAt, Paired

\* The numbers of the loop.
LEMMA LoopCounts ==
  ASSUME NEW c, Len(c.rows) \in Nat, NEW i \in 1 .. Len(c.rows) + 1
  PROVE  /\ Left(c, i) \in Nat
         /\ i > Len(c.rows) => Left(c, i) = 0
         /\ i <= Len(c.rows) =>
              /\ NextAt(c, i) \in i + 1 .. Len(c.rows) + 1
              /\ Left(c, i) = Left(c, NextAt(c, i)) + 1
              /\ RowAt(c, i, 1) = i
              /\ \A k \in 1 .. Left(c, NextAt(c, i)) :
                   RowAt(c, i, k + 1) = RowAt(c, NextAt(c, i), k)
<1>1. CASE c.action = "update"
  <2>1. \A n \in Nat : \A j \in 1 .. n + 1 :
          /\ (n + 2 - j) \div 2 \in Nat
          /\ j > n => (n + 2 - j) \div 2 = 0
          /\ j = n => (n + 2 - j) \div 2 = 1
          /\ j < n => (n + 2 - j) \div 2 = ((n + 2 - (j + 2)) \div 2) + 1
    OBVIOUS
  <2>0. PICK n \in Nat : n = Len(c.rows)
    OBVIOUS
  <2> DEFINE L(j) == (n + 2 - j) \div 2
  <2>2. /\ L(i) \in Nat
        /\ i > n => L(i) = 0
        /\ i = n => L(i) = 1 /\ L(i + 1) = 0
        /\ i < n => L(i) = L(i + 2) + 1
    <3>1. i \in 1 .. n + 1 /\ (i = n => i + 1 \in 1 .. n + 1 /\ i + 1 > n)
      BY <2>0
    <3> QED
      BY <2>1, <3>1
  <2>3. /\ \A j : Left(c, j) = L(j)
        /\ i < n => NextAt(c, i) = i + 2
        /\ i = n => NextAt(c, i) = i + 1
    BY <1>1, <2>0 DEF Left, NextAt, Paired
  <2>4. \A j, k : RowAt(c, j, k) = j + 2 * k - 2
    BY <1>1 DEF RowAt
  <2>5. i <= n => NextAt(c, i) \in i + 1 .. n + 1 /\ L(i) = L(NextAt(c, i)) + 1
    <3>1. CASE i < n
      <4>1. i + 2 \in i + 1 .. n + 1
        BY <2>0, <3>1
      <4> QED
        BY <2>2, <2>3, <3>1, <4>1, Zenon
    <3>2. CASE i = n
      <4>1. i + 1 \in i + 1 .. n + 1 /\ 1 = 0 + 1
        BY <2>0, <3>2
      <4> QED
        BY <2>2, <2>3, <3>2, <4>1
    <3>3. i <= n => i < n \/ i = n
      BY <2>0
    <3> HIDE DEF L
    <3> QED
      BY <3>1, <3>2, <3>3, Zenon
  <2>6. i <= n => \A k \in 1 .. L(NextAt(c, i)) : RowAt(c, i, k + 1) = RowAt(c, NextAt(c, i), k)
    <3>1. CASE i < n
      <4>1. \A k \in 1 .. L(i + 2) : k \in Int
        OBVIOUS
      <4> HIDE DEF L
      <4>2. \A k \in 1 .. L(i + 2) : i + 2 * (k + 1) - 2 = i + 2 + 2 * k - 2
        BY <2>0, <4>1
      <4> QED
        BY <2>3, <2>4, <3>1, <4>2
    <3>2. CASE i = n
      <4>1. 1 .. 0 = {}
        OBVIOUS
      <4> HIDE DEF L
      <4> QED
        BY <2>2, <2>3, <3>2, <4>1
    <3>3. i <= n => i < n \/ i = n
      BY <2>0
    <3> HIDE DEF L
    <3> QED
      BY <3>1, <3>2, <3>3, Zenon
  <2>7. RowAt(c, i, 1) = i
    BY <2>4
  <2> HIDE DEF L
  <2> QED
    BY <2>0, <2>2, <2>3, <2>5, <2>6, <2>7
<1>2. CASE c.action # "update"
  BY <1>2 DEF Left, NextAt, RowAt, Paired
<1> QED
  BY <1>1, <1>2

LEMMA ConsIs ==
  ASSUME NEW S, NEW d \in Seq(S), NEW e \in Seq(S), NEW x \in S,
         Len(e) = Len(d) + 1, e[1] = x, \A k \in 1 .. Len(d) : e[k + 1] = d[k]
  PROVE  e = <<x>> \o d
<1> DEFINE s == <<x>> \o d
<1>1. <<x>> \in Seq(S) /\ Len(<<x>>) = 1 /\ <<x>>[1] = x
  OBVIOUS
<1>2. s \in Seq(S) /\ Len(s) = Len(d) + 1
  BY <1>1
<1>3. ASSUME NEW i \in 1 .. Len(d) + 1 PROVE s[i] = IF i = 1 THEN x ELSE d[i - 1]
  BY <1>1
<1>4. ASSUME NEW i \in 1 .. Len(d) + 1 PROVE e[i] = s[i]
  <2>1. i # 1 => i - 1 \in 1 .. Len(d) /\ i - 1 + 1 = i
    OBVIOUS
  <2> QED
    BY <1>3, <2>1
<1> HIDE DEF s
<1>5. e = s
  BY <1>2, <1>4
<1> QED
  BY <1>5 DEF s

\* What the loop makes from each row on is what Made says.
LEMMA LoopMakes ==
  ASSUME NEW c, Len(c.rows) \in Nat
  PROVE  Loop(Made(c), c)
<1> DEFINE n == Len(c.rows)
<1>1. SUFFICES ASSUME NEW i \in 1 .. n + 1
               PROVE  Made(c)[i] = IF i > n THEN << >>
                                   ELSE <<EventAt(c, i)>> \o Made(c)[NextAt(c, i)]
  BY DEF Loop, Made
<1>2. \A j \in 1 .. n + 1 :
        Made(c)[j] = [k \in 1 .. Left(c, j) |-> EventAt(c, RowAt(c, j, k))]
  BY DEF Made
<1>3. CASE i > n
  <2>1. Left(c, i) = 0
    BY <1>3, LoopCounts
  <2>2. Made(c)[i] = [k \in 1 .. 0 |-> EventAt(c, RowAt(c, i, k))]
    BY <1>2, <2>1
  <2>3. 1 .. 0 = {}
    OBVIOUS
  <2> QED
    BY <1>3, <2>2, <2>3
<1>4. CASE i <= n
  <2> DEFINE m == NextAt(c, i)
  <2>1. /\ m \in 1 .. n + 1 /\ Left(c, m) \in Nat /\ Left(c, i) = Left(c, m) + 1
        /\ RowAt(c, i, 1) = i
        /\ \A k \in 1 .. Left(c, m) : RowAt(c, i, k + 1) = RowAt(c, m, k)
    <3>1. m \in i + 1 .. n + 1
      BY <1>4, LoopCounts
    <3>2. m \in 1 .. n + 1
      BY <3>1
    <3> QED
      BY <1>4, <3>2, LoopCounts
  <2> HIDE DEF m
  <2>2. PICK e : e = [k \in 1 .. Left(c, m) + 1 |-> EventAt(c, RowAt(c, i, k))]
    OBVIOUS
  <2>3. PICK d : d = [k \in 1 .. Left(c, m) |-> EventAt(c, RowAt(c, m, k))]
    OBVIOUS
  <2>4. Made(c)[i] = e /\ Made(c)[m] = d
    BY <1>2, <2>1, <2>2, <2>3
  <2>5. e = <<EventAt(c, i)>> \o d
    <3> DEFINE S == {e[k] : k \in 1 .. Left(c, m) + 1}
    <3>1. Len(d) = Left(c, m)
      BY <2>1, <2>3
    <3>2. e[1] = EventAt(c, i)
      BY <2>1, <2>2
    <3>3. \A k \in 1 .. Left(c, m) : e[k + 1] = d[k]
      BY <2>1, <2>2, <2>3
    <3>4. e \in Seq(S) /\ Len(e) = Left(c, m) + 1
      BY <2>1, <2>2
    <3>5. \A k \in 1 .. Left(c, m) : k + 1 \in 1 .. Left(c, m) + 1
      BY <2>1
    <3>6. EventAt(c, i) \in S
      BY <2>1, <3>2
    <3>7. d \in Seq(S)
      <4>1. \A k \in 1 .. Left(c, m) : d[k] \in S
        BY <3>3, <3>5
      <4> HIDE DEF S
      <4> QED
        BY <2>1, <2>3, <4>1
    <3> HIDE DEF S
    <3> QED
      BY <3>1, <3>2, <3>3, <3>4, <3>6, <3>7, ConsIs
  <2> QED
    BY <1>4, <2>4, <2>5 DEF m
<1> QED
  BY <1>3, <1>4

\* And nothing else is: two functions that agree from the last rows on to the
\* first agree.
LEMMA LoopMakesOnly ==
  ASSUME NEW c, Len(c.rows) \in Nat, NEW f, Loop(f, c)
  PROVE  f = Made(c)
<1> DEFINE n == Len(c.rows)
           g == Made(c)
           Bad == {j \in 0 .. n : f[n + 1 - j] # g[n + 1 - j]}
<1>1. Loop(g, c)
  BY LoopMakes
<1>2. ASSUME Bad # {} PROVE FALSE
  <2> DEFINE j == Min(Bad)
             i == n + 1 - j
  <2>1. j \in Bad /\ \A k \in Bad : j <= k
    <3>1. Bad \in SUBSET Nat
      OBVIOUS
    <3> HIDE DEF Bad
    <3> QED
      BY <1>2, <3>1, MinIs
  <2> HIDE DEF j
  <2>2. i \in 1 .. n + 1 /\ f[i] # g[i]
    BY <2>1
  <2>3. \A h : Loop(h, c) => h[i] = IF i > n THEN << >>
                                   ELSE <<EventAt(c, i)>> \o h[NextAt(c, i)]
    BY <2>2 DEF Loop
  <2>4. i <= n /\ f[NextAt(c, i)] # g[NextAt(c, i)]
    BY <1>1, <2>2, <2>3
  <2>5. PICK m : m = NextAt(c, i)
    OBVIOUS
  <2>6. m \in i + 1 .. n + 1
    BY <2>2, <2>4, <2>5, LoopCounts
  <2>7. n + 1 - m \in 0 .. n /\ n + 1 - (n + 1 - m) = m /\ n + 1 - m < j
    BY <2>1, <2>2, <2>6, SMTT(30)
  <2>8. n + 1 - m \in Bad
    BY <2>4, <2>5, <2>7
  <2> QED
    <3>1. j <= n + 1 - m
      BY <2>1, <2>8, Zenon
    <3> QED
      BY <2>1, <2>6, <2>7, <3>1
<1>3. \A i \in 1 .. n + 1 : f[i] = g[i]
  <2> SUFFICES ASSUME NEW i \in 1 .. n + 1 PROVE f[i] = g[i]
    OBVIOUS
  <2>1. n + 1 - i \in 0 .. n /\ n + 1 - (n + 1 - i) = i
    OBVIOUS
  <2>2. n + 1 - i \notin Bad
    BY <1>2
  <2> QED
    BY <2>1, <2>2
<1>4. \A h : Loop(h, c) => DOMAIN h = 1 .. n + 1 /\ h = [i \in 1 .. n + 1 |-> h[i]]
  BY DEF Loop
<1>5. /\ f = [i \in 1 .. n + 1 |-> f[i]]
      /\ g = [i \in 1 .. n + 1 |-> g[i]]
  BY <1>1, <1>4
<1> QED
  <2> HIDE DEF g
  <2> QED
    BY <1>3, <1>5 DEF g

\* So the loop makes one event after the other, as many as Left says.
LEMMA OnRowMakes ==
  ASSUME NEW c, Len(c.rows) \in Nat
  PROVE  /\ Left(c, 1) \in Nat
         /\ OnRow(c) = [k \in 1 .. Left(c, 1) |-> EventAt(c, RowAt(c, 1, k))]
<1>1. \E f : Loop(f, c)
  BY LoopMakes
<1>2. Loop(CHOOSE f : Loop(f, c), c)
  BY <1>1, Zenon
<1>3. OnRow(c) = Made(c)[1]
  BY <1>2, LoopMakesOnly, OnRowLoops
<1>4. 1 \in 1 .. Len(c.rows) + 1
  OBVIOUS
<1>5. Left(c, 1) \in Nat
  BY <1>4, LoopCounts
<1> QED
  BY <1>3, <1>4, <1>5 DEF Made

LEMMA DataOf == \A c, data, old, other : Event(c, data, old).data = Event(c, data, other).data
  BY DEF Event

LEMMA NamesOf ==
  \A c, i : EventAt(c, i).database = c.database /\ EventAt(c, i).table = c.table
  BY DEF EventAt, Event

LEMMA OldOf == \A c, data, old, other : Event(c, data, old).old = Event(c, other, old).old
  BY DEF Event

\* Every row is in one event, with what it is now, and an update with what it was.
LEMMA RowsOfChange ==
  ASSUME NEW c, Len(c.rows) \in Nat, DOMAIN c.rows = 1 .. Len(c.rows)
  PROVE  /\ [i \in DOMAIN OnRow(c) |-> OnRow(c)[i].data]
              = [i \in DOMAIN NewRows(c) |-> Event(c, rowToMap(NewRows(c)[i], c.columns), NoOld).data]
         /\ c.action = "update" =>
              \A i \in DOMAIN OnRow(c) :
                2 * i <= Len(c.rows) =>
                  OnRow(c)[i].old = Event(c, NoOld, rowToMap(c.rows[2 * i - 1], c.columns)).old
<1>1. PICK n \in Nat : n = Len(c.rows)
  OBVIOUS
<1>2. PICK m \in Nat : m = Left(c, 1)
  BY OnRowMakes
<1>3. PICK events : events = OnRow(c)
  OBVIOUS
<1>4. /\ DOMAIN events = 1 .. m
      /\ \A k \in 1 .. m : events[k] = EventAt(c, RowAt(c, 1, k))
  BY <1>2, <1>3, OnRowMakes
<1>5. PICK new : new = NewRows(c)
  OBVIOUS
<1>6. ASSUME DOMAIN new = 1 .. m,
             \A k \in 1 .. m : events[k].data = Event(c, rowToMap(new[k], c.columns), NoOld).data
      PROVE  [i \in DOMAIN events |-> events[i].data]
               = [i \in DOMAIN new |-> Event(c, rowToMap(new[i], c.columns), NoOld).data]
  BY <1>4, <1>6
<1>7. CASE c.action = "update"
  <2>1. m = (n + 1) \div 2
    <3>1. \A x \in Nat : x + 2 - 1 = x + 1
      OBVIOUS
    <3> QED
      BY <1>1, <1>2, <1>7, <3>1 DEF Left
  <2>2. \A k \in 1 .. m : /\ 2 * k - 1 \in 1 .. n
                          /\ 2 * k - 1 + 1 = 2 * k
                          /\ 1 + 2 * k - 2 = 2 * k - 1
    BY <2>1
  <2>3. /\ DOMAIN new = 1 .. m
        /\ \A k \in 1 .. m : new[k] = c.rows[IF 2 * k <= n THEN 2 * k ELSE 2 * k - 1]
    BY <1>1, <1>5, <1>7, <2>1 DEF NewRows
  <2>4. ASSUME NEW k \in 1 .. m
        PROVE  events[k] = IF 2 * k <= n
                           THEN Event(c, rowToMap(c.rows[2 * k], c.columns),
                                      rowToMap(c.rows[2 * k - 1], c.columns))
                           ELSE Event(c, rowToMap(c.rows[2 * k - 1], c.columns), NoOld)
    <3>1. RowAt(c, 1, k) = 2 * k - 1
      BY <1>7, <2>2 DEF RowAt
    <3>2. Paired(c, 2 * k - 1) <=> 2 * k <= n
      BY <1>1, <1>7, <2>2 DEF Paired
    <3>3. events[k] = EventAt(c, 2 * k - 1)
      BY <1>4, <3>1
    <3>4. 2 * k - 1 + 1 = 2 * k
      BY <2>2
    <3> QED
      BY <3>2, <3>3, <3>4 DEF EventAt
  <2>5. \A k \in 1 .. m : events[k].data = Event(c, rowToMap(new[k], c.columns), NoOld).data
    <3> SUFFICES ASSUME NEW k \in 1 .. m
                 PROVE  events[k].data = Event(c, rowToMap(new[k], c.columns), NoOld).data
      OBVIOUS
    <3>1. CASE 2 * k <= n
      BY <2>3, <2>4, <3>1, DataOf
    <3>2. CASE ~(2 * k <= n)
      BY <2>3, <2>4, <3>2
    <3> QED
      BY <3>1, <3>2
  <2>6. \A k \in 1 .. m :
          2 * k <= n => events[k].old = Event(c, NoOld, rowToMap(c.rows[2 * k - 1], c.columns)).old
    BY <2>4, OldOf
  <2> QED
    BY <1>1, <1>3, <1>4, <1>5, <1>6, <2>3, <2>5, <2>6
<1>8. CASE c.action # "update"
  <2>1. m = n
    BY <1>1, <1>2, <1>8 DEF Left
  <2>2. new = c.rows
    BY <1>5, <1>8 DEF NewRows
  <2>3. ASSUME NEW k \in 1 .. m
        PROVE  events[k] = Event(c, rowToMap(new[k], c.columns), NoOld)
    <3>1. RowAt(c, 1, k) = k
      BY <1>8 DEF RowAt
    <3> QED
      BY <1>4, <1>8, <2>2, <3>1 DEF EventAt, Paired
  <2> QED
    BY <1>1, <1>3, <1>5, <1>6, <1>8, <2>1, <2>2, <2>3
<1> QED
  BY <1>7, <1>8

-----------------------------------------------------------------------------
(* The events of all changes.                                              *)

\* f has, for every k, the first k sequences joined.
Joins(f, seqs, n) ==
  f = [i \in 1 .. n |-> IF i = 1 THEN seqs[i] ELSE f[i - 1] \o seqs[i]]

LEMMA FlattenJoins ==
  \A seqs : Len(seqs) # 0 =>
    FlattenSeq(seqs) = (CHOOSE f : Joins(f, seqs, Len(seqs)))[Len(seqs)]
  BY DEF FlattenSeq, Joins

\* There is such a function for the first sequences, so there is one for one more.
LEMMA JoinsExist ==
  ASSUME NEW S, NEW seqs \in Seq(Seq(S)), NEW n \in Nat, n <= Len(seqs)
  PROVE  \E f \in [1 .. n -> Seq(S)] : Joins(f, seqs, n)
<1> DEFINE Has(m) == \E f \in [1 .. m -> Seq(S)] : Joins(f, seqs, m)
           Bad == {m \in 0 .. Len(seqs) : ~Has(m)}
<1>1. Has(0)
  <2>1. PICK f : f = [i \in 1 .. 0 |-> << >>]
    OBVIOUS
  <2>2. 1 .. 0 = {}
    OBVIOUS
  <2>3. f \in [1 .. 0 -> Seq(S)] /\ Joins(f, seqs, 0)
    BY <2>1, <2>2 DEF Joins
  <2> QED
    BY <2>3
<1>2. ASSUME NEW m \in Nat, m + 1 <= Len(seqs), Has(m) PROVE Has(m + 1)
  <2>1. PICK f \in [1 .. m -> Seq(S)] : Joins(f, seqs, m)
    BY <1>2
  <2>2. PICK x : x = IF m + 1 = 1 THEN seqs[m + 1] ELSE f[m] \o seqs[m + 1]
    OBVIOUS
  <2>3. x \in Seq(S)
    <3>1. seqs[m + 1] \in Seq(S)
      BY <1>2
    <3>2. m + 1 # 1 => m \in 1 .. m
      OBVIOUS
    <3>3. m + 1 # 1 => f[m] \in Seq(S)
      BY <3>2
    <3> QED
      BY <2>2, <3>1, <3>3
  <2>4. PICK g : g = [i \in 1 .. m + 1 |-> IF i = m + 1 THEN x ELSE f[i]]
    OBVIOUS
  <2>5. \A i \in 1 .. m + 1 : i = m + 1 \/ i \in 1 .. m
    OBVIOUS
  <2>6. g \in [1 .. m + 1 -> Seq(S)]
    BY <2>3, <2>4, <2>5
  <2>7. \A i \in 1 .. m : i \in 1 .. m + 1 /\ i # m + 1 /\ (i # 1 => i - 1 \in 1 .. m)
    OBVIOUS
  <2>8. \A i \in 1 .. m : g[i] = f[i]
    BY <2>4, <2>7
  <2>9. \A i \in 1 .. m : f[i] = IF i = 1 THEN seqs[i] ELSE f[i - 1] \o seqs[i]
    BY <2>1 DEF Joins
  <2>10. \A i \in 1 .. m + 1 : g[i] = IF i = 1 THEN seqs[i] ELSE g[i - 1] \o seqs[i]
    <3> SUFFICES ASSUME NEW i \in 1 .. m + 1
                 PROVE  g[i] = IF i = 1 THEN seqs[i] ELSE g[i - 1] \o seqs[i]
      OBVIOUS
    <3>1. CASE i = m + 1
      <4>1. g[i] = x /\ i - 1 = m
        BY <2>4, <3>1
      <4>2. i # 1 => m \in 1 .. m
        BY <3>1
      <4> QED
        BY <2>2, <2>8, <3>1, <4>1, <4>2
    <3>2. CASE i \in 1 .. m
      BY <2>7, <2>8, <2>9, <3>2
    <3> QED
      BY <2>5, <3>1, <3>2
  <2>11. Joins(g, seqs, m + 1)
    BY <2>4, <2>10 DEF Joins
  <2> QED
    BY <2>6, <2>11
<1> HIDE DEF Has
<1>3. Bad = {}
  <2> SUFFICES ASSUME Bad # {} PROVE FALSE
    OBVIOUS
  <2>1. PICK m \in Bad : \A k \in Bad : m <= k
    <3>1. Bad \in SUBSET Nat
      OBVIOUS
    <3> HIDE DEF Bad
    <3> QED
      BY <3>1, MinIs
  <2>2. m # 0
    BY <1>1, <2>1
  <2>3. m - 1 \in Nat /\ m - 1 \in 0 .. Len(seqs) /\ m - 1 + 1 = m /\ ~(m <= m - 1)
    BY <2>1, <2>2
  <2>4. Has(m - 1)
    BY <2>1, <2>3
  <2>5. Has(m)
    BY <1>2, <2>1, <2>3, <2>4
  <2> QED
    BY <2>1, <2>5
<1> QED
  BY <1>3, SMTT(30) DEF Has

LEMMA JoinsTypes ==
  ASSUME NEW S, NEW seqs \in Seq(Seq(S)), NEW f, Joins(f, seqs, Len(seqs)),
         NEW n \in 1 .. Len(seqs)
  PROVE  f[n] \in Seq(S)
<1> DEFINE Bad == {m \in 1 .. Len(seqs) : f[m] \notin Seq(S)}
<1>1. \A m \in 1 .. Len(seqs) : f[m] = IF m = 1 THEN seqs[m] ELSE f[m - 1] \o seqs[m]
  BY DEF Joins
<1>2. Bad = {}
  <2> SUFFICES ASSUME Bad # {} PROVE FALSE
    OBVIOUS
  <2>1. PICK m \in Bad : \A k \in Bad : m <= k
    <3>1. Bad \in SUBSET Nat
      OBVIOUS
    <3> HIDE DEF Bad
    <3> QED
      BY <3>1, MinIs
  <2>2. seqs[m] \in Seq(S)
    BY <2>1
  <2>3. m # 1 => m - 1 \in 1 .. Len(seqs) /\ ~(m <= m - 1)
    BY <2>1
  <2>4. m # 1 => f[m - 1] \in Seq(S)
    BY <2>1, <2>3
  <2>5. f[m] \in Seq(S)
    <3>1. \A a, b \in Seq(S) : a \o b \in Seq(S)
      OBVIOUS
    <3>2. f[m] = IF m = 1 THEN seqs[m] ELSE f[m - 1] \o seqs[m]
      BY <1>1, <2>1
    <3> QED
      BY <2>2, <2>4, <3>1, <3>2, Zenon
  <2> QED
    BY <2>1, <2>5
<1> QED
  BY <1>2

LEMMA FlattenIsSeq ==
  ASSUME NEW S, NEW seqs \in Seq(Seq(S))
  PROVE  FlattenSeq(seqs) \in Seq(S)
<1>1. CASE Len(seqs) = 0
  <2>1. FlattenSeq(seqs) = seqs /\ seqs = << >>
    BY <1>1 DEF FlattenSeq
  <2> QED
    BY <2>1
<1>2. CASE Len(seqs) # 0
  <2>1. Len(seqs) \in Nat /\ Len(seqs) \in 1 .. Len(seqs)
    BY <1>2
  <2>2. \E f : Joins(f, seqs, Len(seqs))
    <3>1. Len(seqs) <= Len(seqs)
      BY <2>1
    <3>2. \E f \in [1 .. Len(seqs) -> Seq(S)] : Joins(f, seqs, Len(seqs))
      BY <2>1, <3>1, JoinsExist
    <3> QED
      BY <3>2, Zenon
  <2>3. PICK f : f = CHOOSE g : Joins(g, seqs, Len(seqs))
    OBVIOUS
  <2>4. Joins(f, seqs, Len(seqs))
    BY <2>2, <2>3, Zenon
  <2> QED
    <3>1. f[Len(seqs)] \in Seq(S)
      BY <2>1, <2>4, JoinsTypes
    <3>2. FlattenSeq(seqs) = f[Len(seqs)]
      BY <1>2, <2>3, FlattenJoins, Zenon
    <3> QED
      BY <3>1, <3>2
<1> QED
  BY <1>1, <1>2

-----------------------------------------------------------------------------
(* The keys of the tables.                                                 *)

\* Two tables have one key only if they have one database and one name, when
\* one of them has no dot in either; the other may have any.  So a change, which
\* is looked up by the joined key, finds the tables that were declared, whose
\* names have no dots, and no others.
THEOREM KeysCorrect ==
  ASSUME NEW Letter,
         NEW database \in Seq(Letter), NEW name \in Seq(Letter),
         NEW database2 \in Seq(Letter), NEW name2 \in Seq(Letter),
         Dot \in Letter, ~HasDot(database), ~HasDot(name),
         tableKeyOf(database, name) = tableKeyOf(database2, name2)
  PROVE  database = database2 /\ name = name2
<1> DEFINE KeyIs(k, d, n) ==
             /\ Len(k) = Len(d) + 1 + Len(n)
             /\ \A i \in 1 .. Len(d) : k[i] = d[i]
             /\ k[Len(d) + 1] = Dot
             /\ \A i \in 1 .. Len(n) : k[Len(d) + 1 + i] = n[i]
<1>1. ASSUME NEW d \in Seq(Letter), NEW n \in Seq(Letter) PROVE KeyIs(tableKeyOf(d, n), d, n)
  <2>1. PICK p : p = d \o <<Dot>>
    OBVIOUS
  <2>2. <<Dot>> \in Seq(Letter) /\ Len(<<Dot>>) = 1 /\ <<Dot>>[1] = Dot
    OBVIOUS
  <2>3. /\ p \in Seq(Letter) /\ Len(p) = Len(d) + 1 /\ p[Len(d) + 1] = Dot
        /\ \A i \in 1 .. Len(d) : p[i] = d[i]
    BY <2>1, <2>2
  <2>4. tableKeyOf(d, n) = p \o n
    BY <2>1 DEF tableKeyOf
  <2>5. \A s \in Seq(Letter) :
          /\ Len(s \o n) = Len(s) + Len(n)
          /\ \A i \in 1 .. Len(s) : (s \o n)[i] = s[i]
          /\ \A i \in 1 .. Len(n) : (s \o n)[Len(s) + i] = n[i]
    OBVIOUS
  <2>6. Len(d) \in Nat /\ \A i \in 1 .. Len(d) : i \in 1 .. Len(d) + 1
    OBVIOUS
  <2>7. Len(d) + 1 \in 1 .. Len(p)
    BY <2>3, <2>6
  <2>8. PICK k : k = p \o n
    OBVIOUS
  <2>9. Len(k) = Len(d) + 1 + Len(n)
    BY <2>3, <2>5, <2>8
  <2>10. \A i \in 1 .. Len(d) : k[i] = d[i]
    BY <2>3, <2>5, <2>6, <2>8
  <2>11. k[Len(d) + 1] = Dot
    BY <2>3, <2>5, <2>7, <2>8
  <2>12. \A i \in 1 .. Len(n) : k[Len(d) + 1 + i] = n[i]
    BY <2>3, <2>5, <2>8
  <2> QED
    BY <2>4, <2>8, <2>9, <2>10, <2>11, <2>12
<1>2. PICK key : key = tableKeyOf(database, name)
  OBVIOUS
<1>3. KeyIs(key, database, name) /\ KeyIs(key, database2, name2)
  <2>1. key = tableKeyOf(database2, name2)
    BY <1>2
  <2> HIDE DEF KeyIs
  <2>2. KeyIs(tableKeyOf(database, name), database, name)
    BY <1>1
  <2>3. KeyIs(tableKeyOf(database2, name2), database2, name2)
    BY <1>1
  <2> QED
    BY <1>2, <2>1, <2>2, <2>3, Zenon
<1>4. Len(database) = Len(database2)
  <2>1. CASE Len(database2) < Len(database)
    <3>1. Len(database2) + 1 \in 1 .. Len(database)
      BY <2>1
    <3>2. database[Len(database2) + 1] = Dot
      BY <1>3, <3>1
    <3> QED
      BY <3>1, <3>2 DEF HasDot
  <2>2. CASE Len(database2) > Len(database)
    <3>1. PICK i : i = Len(database2) - Len(database)
      OBVIOUS
    <3>2. i \in 1 .. Len(name) /\ Len(database) + 1 + i = Len(database2) + 1
      BY <1>3, <2>2, <3>1
    <3>3. name[i] = Dot
      BY <1>3, <3>2
    <3> QED
      BY <3>2, <3>3 DEF HasDot
  <2> QED
    BY <2>1, <2>2
<1>5. database = database2
  <2>1. \A i \in 1 .. Len(database) : database[i] = database2[i]
    BY <1>3, <1>4
  <2> QED
    BY <1>4, <2>1
<1>6. Len(name) = Len(name2)
  BY <1>3, <1>4
<1>7. name = name2
  <2>1. \A i \in 1 .. Len(name) : name[i] = name2[i]
    BY <1>3, <1>4, <1>6
  <2> QED
    BY <1>6, <2>1, SMTT(30)
<1> QED
  BY <1>5, <1>7

-----------------------------------------------------------------------------
(* The inductive invariant.                                                *)

\* One Run consumes at a time, and the mark says so.
Exclusive ==
  /\ \A c \in Callers : calls[c].pc = "consume" => consuming
  /\ \A c, d \in Callers : calls[c].pc = "consume" /\ calls[d].pc = "consume" => c = d
  /\ consuming => \E c \in Callers : calls[c].pc = "consume"

\* A handler runs the tasks that find their row in the event it has, and those
\* that are through with it have run for it; one that has no event runs none.
HandHas(h) ==
  \A t \in Tasks :
    /\ hand[h] = 0 => ran[h][t] = "none"
    /\ hand[h] # 0 => /\ ran[h][t] # "none" <=> t \in keyed(hand[h])
                      /\ ran[h][t] = "ok" => <<hand[h], t>> \in succeeded

\* What is settled went through the tasks that find their row in it, and nothing
\* went through another one.
SettledKeyed ==
  /\ \A e \in settled : \A t \in keyed(e) : <<e, t>> \in succeeded
  /\ \A p \in succeeded : p[2] \in keyed(p[1])

\* A handler settles its event on what its own tasks did, so nothing has to be
\* said of other handlers that have the same event, or of the calls.
IInv ==
  /\ TypeOK
  /\ Len(published) \in Nat /\ Events = 1 .. Len(published)
  /\ built # "runner" =>
       /\ ~consuming /\ ~subscribed /\ settled = {} /\ succeeded = {}
       /\ \A c \in Callers : calls[c].pc = "idle"
       /\ \A h \in Handlers : hand[h] = 0
       /\ \A x \in Callers \cup Handlers : \A t \in Tasks : ran[x][t] = "none"
  /\ Exclusive
  /\ \A h \in Handlers : HandHas(h)
  /\ SettledKeyed

-----------------------------------------------------------------------------
(* What a step may do to the invariant.                                    *)

LEMMA SameConfig ==
  ASSUME UNCHANGED config
  PROVE  /\ Tasks' = Tasks /\ Events' = Events /\ index' = index
         /\ built' = built /\ watched' = watched /\ hasConsumer' = hasConsumer
         /\ published' = published
         /\ \A e : keyed(e)' = keyed(e)
<1>1. /\ tasks' = tasks /\ published' = published /\ watched' = watched
      /\ changes' = changes /\ built' = built /\ hasConsumer' = hasConsumer
  BY DEF config
<1>2. Tasks' = Tasks /\ Events' = Events
  BY <1>1 DEF Tasks, Events
<1>3. index' = index
  BY <1>1 DEF index
<1>4. \A e : keyed(e)' = keyed(e)
  BY <1>1, <1>2 DEF keyed, watchersFor
<1> QED
  BY <1>1, <1>2, <1>3, <1>4

\* The types of everything a step may change.
Types ==
  /\ consuming \in BOOLEAN /\ subscribed \in BOOLEAN /\ closed \in BOOLEAN
  /\ settled \subseteq Events
  /\ calls \in [Callers -> Call]
  /\ made \in 0 .. MaxCalls
  /\ hand \in [Handlers -> {0} \cup Events]
  /\ ran \in [Callers \cup Handlers -> [Tasks -> {"none", "running", "ok", "failed"}]]
  /\ succeeded \subseteq Events \X Tasks
  /\ failures \in 0 .. MaxFailures

\* What each part of the invariant needs of a step of the runner in use.
LEMMA Keeps ==
  ASSUME IInv, UNCHANGED config, built = "runner", Types',
         Exclusive', \A h \in Handlers : HandHas(h)', SettledKeyed'
  PROVE  IInv'
<1>1. /\ Tasks' = Tasks /\ Events' = Events /\ index' = index
      /\ built' = built /\ watched' = watched /\ hasConsumer' = hasConsumer
      /\ published' = published
  BY SameConfig
<1>2. TypeOK'
  BY <1>1 DEF Types, TypeOK, IInv
<1>3. (Len(published) \in Nat)' /\ (Events = 1 .. Len(published))'
  BY <1>1 DEF IInv
<1> QED
  BY <1>1, <1>2, <1>3 DEF IInv

LEMMA TypesNow == IInv => Types
  BY DEF IInv, TypeOK, Types

\* Handlers and events are as they were when nothing of them changes.
LEMMA HandlersKeep ==
  ASSUME IInv, UNCHANGED <<config, settled, hand, succeeded>>,
         \A h \in Handlers : ran'[h] = ran[h]
  PROVE  (\A h \in Handlers : HandHas(h)') /\ SettledKeyed'
<1>1. Tasks' = Tasks /\ \A e : keyed(e)' = keyed(e)
  BY SameConfig
<1>2. ASSUME NEW h \in Handlers PROVE HandHas(h)'
  <2>1. HandHas(h) /\ hand'[h] = hand[h] /\ ran'[h] = ran[h] /\ succeeded' = succeeded
    BY DEF IInv
  <2> QED
    BY <1>1, <2>1 DEF HandHas
<1>3. SettledKeyed'
  BY <1>1 DEF IInv, SettledKeyed
<1> QED
  BY <1>2, <1>3

\* The calls as a step of one of them leaves them.
LEMMA CalledAs ==
  ASSUME IInv, NEW c \in Callers, NEW pc \in {"idle", "consume", "wait"},
         NEW result \in {"none", "error"}, Called(c, pc, result)
  PROVE  /\ built = "runner" /\ calls[c].pc = "idle"
         /\ calls' \in [Callers -> Call] /\ made' \in 0 .. MaxCalls
         /\ calls'[c].pc = pc
         /\ \A d \in Callers : d # c => calls'[d] = calls[d]
<1>1. /\ built = "runner" /\ calls[c].pc = "idle" /\ made < MaxCalls /\ made' = made + 1
      /\ calls \in [Callers -> Call] /\ made \in 0 .. MaxCalls
  BY DEF Called, InUse, IInv, TypeOK
<1>2. PICK r : r = [Idle EXCEPT !.pc = pc, !.result = result]
  OBVIOUS
<1>3. r = [pc |-> pc, ctxDone |-> FALSE, result |-> result]
  BY <1>2 DEF Idle
<1>4. r \in Call /\ r.pc = pc
  BY <1>3 DEF Call
<1>5. calls' = [calls EXCEPT ![c] = r]
  BY <1>2 DEF Called
<1>6. made' \in 0 .. MaxCalls
  BY <1>1, OneMore
<1> QED
  BY <1>1, <1>4, <1>5, <1>6

LEMMA ReturnsAs ==
  ASSUME IInv, NEW c \in Callers, NEW result \in {"nil", "error"}, Returns(c, result)
  PROVE  /\ calls' \in [Callers -> Call] /\ made' = made
         /\ calls'[c].pc = "idle"
         /\ \A d \in Callers : d # c => calls'[d] = calls[d]
<1>1. calls \in [Callers -> Call]
  BY DEF IInv, TypeOK
<1>2. PICK r : r = [Idle EXCEPT !.result = result]
  OBVIOUS
<1>3. r = [pc |-> "idle", ctxDone |-> FALSE, result |-> result]
  BY <1>2 DEF Idle
<1>4. r \in Call /\ r.pc = "idle"
  BY <1>3 DEF Call
<1>5. calls' = [calls EXCEPT ![c] = r] /\ made' = made
  BY <1>2 DEF Returns
<1> QED
  BY <1>1, <1>4, <1>5

\* A call that does not consume before or after a step.
LEMMA AsideKeeps ==
  ASSUME IInv, NEW c \in Callers, calls[c].pc # "consume", calls'[c].pc # "consume",
         \A d \in Callers : d # c => calls'[d] = calls[d], UNCHANGED consuming
  PROVE  Exclusive'
<1>1. \A d \in Callers : calls'[d].pc = "consume" <=> calls[d].pc = "consume"
  OBVIOUS
<1> QED
  BY <1>1 DEF IInv, Exclusive

\* runEach of one goroutine starts or is through.
LEMMA StartsAs ==
  ASSUME IInv, NEW x \in Callers \cup Handlers, NEW ts \in SUBSET Tasks, Start(x, ts)
  PROVE  /\ ran' \in [Callers \cup Handlers -> [Tasks -> {"none", "running", "ok", "failed"}]]
         /\ \A t \in Tasks : ran'[x][t] = IF t \in ts THEN "running" ELSE "none"
         /\ \A y \in Callers \cup Handlers : y # x => ran'[y] = ran[y]
<1>1. PICK f : f = [t \in Tasks |-> IF t \in ts THEN "running" ELSE "none"]
  OBVIOUS
<1>2. f \in [Tasks -> {"none", "running", "ok", "failed"}]
  BY <1>1
<1>3. ran' = [ran EXCEPT ![x] = f]
  BY <1>1 DEF Start
<1>4. ran \in [Callers \cup Handlers -> [Tasks -> {"none", "running", "ok", "failed"}]]
  BY DEF IInv, TypeOK
<1>5. \A t \in Tasks : f[t] = IF t \in ts THEN "running" ELSE "none"
  BY <1>1
<1>6. ran'[x] = f
  BY <1>3, <1>4
<1> QED
  BY <1>2, <1>3, <1>4, <1>5, <1>6

LEMMA ThroughAs ==
  ASSUME IInv, NEW x \in Callers \cup Handlers, Through(x)
  PROVE  /\ ran' \in [Callers \cup Handlers -> [Tasks -> {"none", "running", "ok", "failed"}]]
         /\ \A t \in Tasks : ran'[x][t] = "none"
         /\ \A y \in Callers \cup Handlers : y # x => ran'[y] = ran[y]
<1>1. PICK f : f = [t \in Tasks |-> "none"]
  OBVIOUS
<1>2. f \in [Tasks -> {"none", "running", "ok", "failed"}]
  BY <1>1
<1>3. ran' = [ran EXCEPT ![x] = f]
  BY <1>1 DEF Through
<1>4. ran \in [Callers \cup Handlers -> [Tasks -> {"none", "running", "ok", "failed"}]]
  BY DEF IInv, TypeOK
<1>5. \A t \in Tasks : f[t] = "none"
  BY <1>1
<1>6. ran'[x] = f
  BY <1>3, <1>4
<1> QED
  BY <1>2, <1>3, <1>4, <1>5, <1>6

-----------------------------------------------------------------------------
(* The calls.                                                              *)

LEMMA RunKeeps ==
  ASSUME IInv, NEW c \in Callers, Run(c)
  PROVE  IInv'
<1>1. UNCHANGED <<config, closed, settled, hand, ran, succeeded, failures>>
  BY DEF Run
<1>2. Types /\ Tasks' = Tasks /\ Events' = Events
  BY <1>1, TypesNow, SameConfig
<1>3. (\A h \in Handlers : HandHas(h)') /\ SettledKeyed'
  BY <1>1, HandlersKeep
<1>4. CASE Called(c, "idle", "error") /\ UNCHANGED <<consuming, subscribed>>
  <2>1. /\ built = "runner" /\ calls[c].pc = "idle" /\ calls'[c].pc = "idle"
        /\ calls' \in [Callers -> Call] /\ made' \in 0 .. MaxCalls
        /\ \A d \in Callers : d # c => calls'[d] = calls[d]
    BY <1>4, CalledAs
  <2>2. Exclusive'
    BY <1>4, <2>1, AsideKeeps
  <2>3. Types'
    BY <1>1, <1>2, <1>4, <2>1 DEF Types, Call
  <2> QED
    BY <1>1, <1>3, <2>1, <2>2, <2>3, Keeps
<1>5. CASE Consumes(c)
  <2>1. /\ built = "runner" /\ calls'[c].pc = "consume"
        /\ calls' \in [Callers -> Call] /\ made' \in 0 .. MaxCalls
        /\ \A d \in Callers : d # c => calls'[d] = calls[d]
    BY <1>5, CalledAs DEF Consumes
  <2>2. ~consuming /\ consuming' = TRUE /\ subscribed' = TRUE
    BY <1>5 DEF Consumes
  <2>3. \A d \in Callers : calls'[d].pc = "consume" <=> d = c
    BY <2>1, <2>2 DEF IInv, Exclusive
  <2>4. Exclusive'
    BY <2>2, <2>3 DEF Exclusive
  <2>5. Types'
    BY <1>1, <1>2, <2>1, <2>2 DEF Types, Call
  <2> QED
    BY <1>1, <1>3, <2>1, <2>4, <2>5, Keeps
<1> QED
  BY <1>4, <1>5 DEF Run

\* Consume returns, for whichever reason.
LEMMA StopsConsuming ==
  ASSUME IInv, NEW c \in Callers, calls[c].pc = "consume",
         NEW result \in {"nil", "error"}, Returns(c, result), consuming' = FALSE,
         UNCHANGED <<config, consumer, ran, succeeded, failures>>
  PROVE  IInv'
<1>1. UNCHANGED <<config, subscribed, closed, settled, hand, ran, succeeded, failures>>
  BY DEF consumer
<1>2. Types /\ Tasks' = Tasks /\ Events' = Events
  BY TypesNow, SameConfig
<1>3. (\A h \in Handlers : HandHas(h)') /\ SettledKeyed'
  BY <1>1, HandlersKeep
<1>4. /\ calls' \in [Callers -> Call] /\ made' = made /\ calls'[c].pc = "idle"
      /\ \A d \in Callers : d # c => calls'[d] = calls[d]
  BY ReturnsAs
<1>5. \A d \in Callers : calls'[d].pc # "consume"
  BY <1>4 DEF IInv, Exclusive
<1>6. Exclusive'
  BY <1>5 DEF Exclusive
<1>7. Types'
  BY <1>1, <1>2, <1>4 DEF Types, Call
<1>8. built = "runner"
  BY DEF IInv
<1> QED
  BY <1>3, <1>6, <1>7, <1>8, Keeps

LEMMA ConsumeReturnsKeeps ==
  ASSUME IInv, NEW c \in Callers, ConsumeReturns(c) \/ ReadingFails(c)
  PROVE  IInv'
<1>1. PICK result \in {"nil", "error"} : Returns(c, result)
  BY DEF ConsumeReturns, ReadingFails
<1>2. /\ calls[c].pc = "consume" /\ consuming' = FALSE
      /\ UNCHANGED <<config, consumer, ran, succeeded, failures>>
  BY DEF ConsumeReturns, ReadingFails
<1> QED
  BY <1>1, <1>2, StopsConsuming

LEMMA RunTableKeeps ==
  ASSUME IInv, NEW c \in Callers, NEW table, RunTable(c, table)
  PROVE  IInv'
<1>1. UNCHANGED <<config, subscribed, closed, settled, hand, consuming, succeeded, failures>>
  BY DEF RunTable, consumer
<1>2. Types /\ Tasks' = Tasks /\ Events' = Events
  BY <1>1, TypesNow, SameConfig
<1>3. ASSUME NEW pc \in {"idle", "wait"}, NEW result \in {"none", "error"},
             Called(c, pc, result),
             ran' \in [Callers \cup Handlers -> [Tasks -> {"none", "running", "ok", "failed"}]],
             \A h \in Handlers : ran'[h] = ran[h]
      PROVE  IInv'
  <2>1. /\ built = "runner" /\ calls[c].pc = "idle" /\ calls'[c].pc = pc
        /\ calls' \in [Callers -> Call] /\ made' \in 0 .. MaxCalls
        /\ \A d \in Callers : d # c => calls'[d] = calls[d]
    BY <1>3, CalledAs
  <2>2. Exclusive'
    BY <1>1, <1>3, <2>1, AsideKeeps
  <2>3. (\A h \in Handlers : HandHas(h)') /\ SettledKeyed'
    BY <1>1, <1>3, HandlersKeep
  <2>4. Types'
    BY <1>1, <1>2, <1>3, <2>1 DEF Types, Call
  <2> QED
    BY <1>1, <2>1, <2>2, <2>3, <2>4, Keeps
<1>4. CASE Called(c, "idle", "error") /\ UNCHANGED ran
  BY <1>2, <1>3, <1>4 DEF Types
<1>5. CASE Called(c, "wait", "none") /\ Start(c, tasksOf(of(watched, table)))
  <2>1. PICK ts : ts = tasksOf(of(watched, table))
    OBVIOUS
  <2>2. ts \in SUBSET Tasks
    BY <2>1 DEF tasksOf
  <2>3. Start(c, ts) /\ c \in Callers \cup Handlers
    BY <1>5, <2>1
  <2>4. /\ ran' \in [Callers \cup Handlers -> [Tasks -> {"none", "running", "ok", "failed"}]]
        /\ \A y \in Callers \cup Handlers : y # c => ran'[y] = ran[y]
    BY <2>2, <2>3, StartsAs
  <2> QED
    BY <1>3, <1>5, <2>4, Apart
<1> QED
  BY <1>4, <1>5 DEF RunTable

LEMMA AskedReturnsKeeps ==
  ASSUME IInv, NEW c \in Callers, AskedReturns(c)
  PROVE  IInv'
<1>1. /\ UNCHANGED <<config, subscribed, closed, settled, hand, consuming, succeeded, failures>>
      /\ calls[c].pc = "wait" /\ Through(c)
  BY DEF AskedReturns, consumer
<1>2. Types /\ Tasks' = Tasks /\ Events' = Events
  BY <1>1, TypesNow, SameConfig
<1>3. /\ calls' \in [Callers -> Call] /\ made' = made /\ calls'[c].pc = "idle"
      /\ \A d \in Callers : d # c => calls'[d] = calls[d]
  <2>1. PICK result \in {"nil", "error"} : Returns(c, result)
    BY DEF AskedReturns
  <2> QED
    BY <2>1, ReturnsAs
<1>4. /\ ran' \in [Callers \cup Handlers -> [Tasks -> {"none", "running", "ok", "failed"}]]
      /\ \A y \in Callers \cup Handlers : y # c => ran'[y] = ran[y]
  BY <1>1, ThroughAs
<1>5. (\A h \in Handlers : HandHas(h)') /\ SettledKeyed'
  BY <1>1, <1>4, HandlersKeep, Apart
<1>6. Exclusive'
  BY <1>1, <1>3, AsideKeeps
<1>7. Types'
  BY <1>1, <1>2, <1>3, <1>4 DEF Types, Call
<1>8. built = "runner"
  BY <1>1 DEF IInv
<1> QED
  BY <1>1, <1>5, <1>6, <1>7, <1>8, Keeps

LEMMA CancelKeeps ==
  ASSUME IInv, NEW c \in Callers, Cancel(c)
  PROVE  IInv'
<1>1. /\ UNCHANGED <<config, subscribed, closed, settled, hand, consuming, made, ran, succeeded,
                     failures>>
      /\ calls[c].pc # "idle" /\ calls' = [calls EXCEPT ![c].ctxDone = TRUE]
  BY DEF Cancel, consumer
<1>2. Types /\ Tasks' = Tasks /\ Events' = Events
  BY <1>1, TypesNow, SameConfig
<1>3. (\A h \in Handlers : HandHas(h)') /\ SettledKeyed'
  BY <1>1, HandlersKeep
<1>4. calls' \in [Callers -> Call] /\ \A d \in Callers : calls'[d].pc = calls[d].pc
  BY <1>1, <1>2 DEF Types, Call
<1>5. Exclusive'
  BY <1>1, <1>4 DEF IInv, Exclusive
<1>6. Types'
  BY <1>1, <1>2, <1>4 DEF Types, Call
<1>7. built = "runner"
  BY <1>1 DEF IInv
<1> QED
  BY <1>1, <1>3, <1>5, <1>6, <1>7, Keeps

-----------------------------------------------------------------------------
(* The handler and the tasks.                                              *)

LEMMA HandleKeeps ==
  ASSUME IInv, NEW h \in Handlers, Handle(h)
  PROVE  IInv'
<1>1. /\ UNCHANGED <<config, consuming, subscribed, closed, calls, made, succeeded, failures>>
      /\ subscribed /\ hand[h] = 0
  BY DEF Handle
<1>2. Types /\ built = "runner" /\ Tasks' = Tasks /\ Events' = Events
      /\ \A e : keyed(e)' = keyed(e)
  BY <1>1, TypesNow, SameConfig DEF IInv
<1>3. Exclusive'
  BY <1>1 DEF IInv, Exclusive
<1>4. PICK e \in Events \ settled :
        \/ /\ watchersFor(e) = << >>
           /\ settled' = settled \cup {e}
           /\ UNCHANGED <<hand, ran>>
        \/ /\ watchersFor(e) # << >>
           /\ hand' = [hand EXCEPT ![h] = e]
           /\ Start(h, keyed(e))
           /\ UNCHANGED settled
  BY DEF Handle
<1>5. CASE watchersFor(e) = << >> /\ settled' = settled \cup {e} /\ UNCHANGED <<hand, ran>>
  <2>1. keyed(e) = {}
    BY <1>5 DEF keyed
  <2>2. SettledKeyed'
    BY <1>1, <1>2, <1>5, <2>1 DEF IInv, SettledKeyed
  <2>3. \A g \in Handlers : HandHas(g)'
    BY <1>1, <1>2, <1>5 DEF IInv, HandHas
  <2>4. Types'
    BY <1>1, <1>2, <1>4, <1>5 DEF Types, Call
  <2> QED
    BY <1>1, <1>2, <1>3, <2>2, <2>3, <2>4, Keeps
<1>6. CASE /\ hand' = [hand EXCEPT ![h] = e]
           /\ Start(h, keyed(e))
           /\ UNCHANGED settled
  <2>1. keyed(e) \in SUBSET Tasks
    BY DEF keyed
  <2>2. /\ ran' \in [Callers \cup Handlers -> [Tasks -> {"none", "running", "ok", "failed"}]]
        /\ \A t \in Tasks : ran'[h][t] = IF t \in keyed(e) THEN "running" ELSE "none"
        /\ \A y \in Callers \cup Handlers : y # h => ran'[y] = ran[y]
    <3>1. PICK ts : ts = keyed(e)
      OBVIOUS
    <3> QED
      BY <1>6, <2>1, <3>1, StartsAs
  <2>3. /\ hand' \in [Handlers -> {0} \cup Events] /\ hand'[h] = e
        /\ \A g \in Handlers : g # h => hand'[g] = hand[g]
    BY <1>2, <1>6 DEF Types
  <2>4. e # 0
    BY DEF IInv
  <2>5. HandHas(h)'
    BY <1>2, <2>1, <2>2, <2>3, <2>4 DEF HandHas
  <2>6. ASSUME NEW g \in Handlers, g # h PROVE HandHas(g)'
    <3>1. HandHas(g) /\ hand'[g] = hand[g] /\ ran'[g] = ran[g]
      BY <2>2, <2>3, <2>6 DEF IInv
    <3> QED
      BY <1>1, <1>2, <3>1 DEF HandHas
  <2>7. SettledKeyed'
    BY <1>1, <1>2, <1>6 DEF IInv, SettledKeyed
  <2>8. Types'
    BY <1>1, <1>2, <1>6, <2>2, <2>3 DEF Types, Call
  <2> QED
    BY <1>1, <1>2, <1>3, <2>5, <2>6, <2>7, <2>8, Keeps
<1> QED
  BY <1>4, <1>5, <1>6

\* A task that returns leaves its goroutine with how it ended.
LEMMA EndsAs ==
  ASSUME IInv, NEW x \in Callers \cup Handlers, NEW t \in Tasks, NEW how \in {"ok", "failed"},
         ran' = [ran EXCEPT ![x][t] = how]
  PROVE  /\ ran' \in [Callers \cup Handlers -> [Tasks -> {"none", "running", "ok", "failed"}]]
         /\ ran'[x][t] = how
         /\ \A o \in Tasks : o # t => ran'[x][o] = ran[x][o]
         /\ \A y \in Callers \cup Handlers : y # x => ran'[y] = ran[y]
  BY DEF IInv, TypeOK

LEMMA TaskReturnsKeeps ==
  ASSUME IInv, NEW x \in Callers \cup Handlers, NEW t \in Tasks, TaskReturns(x, t)
  PROVE  IInv'
<1>1. /\ UNCHANGED <<config, subscribed, closed, settled, hand, consuming, calls, made>>
      /\ ran[x][t] = "running"
  BY DEF TaskReturns, consumer
<1>2. Types /\ Tasks' = Tasks /\ Events' = Events /\ \A e : keyed(e)' = keyed(e)
  BY <1>1, TypesNow, SameConfig
<1>3. PICK how \in {"ok", "failed"} :
        /\ ran' = [ran EXCEPT ![x][t] = how]
        /\ failures' \in 0 .. MaxFailures
        /\ succeeded' = IF how = "ok" /\ x \in Handlers THEN succeeded \cup {<<hand[x], t>>}
                        ELSE succeeded
  <2>1. failures < MaxFailures => failures + 1 \in 0 .. MaxFailures
    BY <1>2 DEF Types
  <2> QED
    BY <1>2, <2>1 DEF TaskReturns, Types
<1>4. /\ ran' \in [Callers \cup Handlers -> [Tasks -> {"none", "running", "ok", "failed"}]]
      /\ ran'[x][t] = how
      /\ \A o \in Tasks : o # t => ran'[x][o] = ran[x][o]
      /\ \A y \in Callers \cup Handlers : y # x => ran'[y] = ran[y]
  BY <1>3, EndsAs
<1>5. x \in Handlers => hand[x] \in Events /\ t \in keyed(hand[x])
  BY <1>1, <1>2 DEF IInv, HandHas, Types
<1>6. ASSUME NEW h \in Handlers PROVE HandHas(h)'
  <2>1. HandHas(h) /\ hand'[h] = hand[h] /\ succeeded \subseteq succeeded'
    BY <1>1, <1>3 DEF IInv
  <2>2. CASE h = x
    <3> SUFFICES ASSUME NEW o \in Tasks
                 PROVE  /\ hand'[h] = 0 => ran'[h][o] = "none"
                        /\ hand'[h] # 0 => /\ ran'[h][o] # "none" <=> o \in keyed(hand[h])
                                           /\ ran'[h][o] = "ok" => <<hand[h], o>> \in succeeded'
      BY <1>2, <2>1 DEF HandHas
    <3>1. CASE o = t
      BY <1>3, <1>4, <1>5, <2>1, <2>2, <3>1 DEF IInv
    <3>2. CASE o # t
      BY <1>4, <2>1, <2>2, <3>2 DEF HandHas
    <3> QED
      BY <3>1, <3>2
  <2>3. CASE h # x
    BY <1>2, <1>4, <2>1, <2>3 DEF HandHas
  <2> QED
    BY <2>2, <2>3
<1>7. SettledKeyed'
  BY <1>1, <1>2, <1>3, <1>5 DEF IInv, SettledKeyed
<1>8. Exclusive'
  BY <1>1 DEF IInv, Exclusive
<1>9. Types'
  <2>1. succeeded' \subseteq Events \X Tasks
    BY <1>2, <1>3, <1>5 DEF Types
  <2> QED
    BY <1>1, <1>2, <1>3, <1>4, <2>1 DEF Types, Call
<1>10. built = "runner"
  BY <1>1 DEF IInv
<1> QED
  BY <1>1, <1>6, <1>7, <1>8, <1>9, <1>10, Keeps

LEMMA HandleReturnsKeeps ==
  ASSUME IInv, NEW h \in Handlers, HandleReturns(h)
  PROVE  IInv'
<1>1. /\ UNCHANGED <<config, consuming, subscribed, closed, calls, made, succeeded>>
      /\ hand[h] # 0 /\ Finished(h) /\ Through(h) /\ hand' = [hand EXCEPT ![h] = 0]
  BY DEF HandleReturns
<1>2. Types /\ built = "runner" /\ Tasks' = Tasks /\ Events' = Events
      /\ \A e : keyed(e)' = keyed(e)
  BY <1>1, TypesNow, SameConfig DEF IInv
<1>3. Exclusive'
  BY <1>1 DEF IInv, Exclusive
<1>4. /\ ran' \in [Callers \cup Handlers -> [Tasks -> {"none", "running", "ok", "failed"}]]
      /\ \A t \in Tasks : ran'[h][t] = "none"
      /\ \A y \in Callers \cup Handlers : y # h => ran'[y] = ran[y]
  BY <1>1, ThroughAs
<1>5. /\ hand' \in [Handlers -> {0} \cup Events] /\ hand'[h] = 0
      /\ \A g \in Handlers : g # h => hand'[g] = hand[g]
  BY <1>1, <1>2 DEF Types
<1>6. /\ failures' \in 0 .. MaxFailures
      /\ settled' = settled \/ (~Failed(h) /\ settled' = settled \cup {hand[h]})
  BY <1>2 DEF HandleReturns, Types
<1>7. HandHas(h)'
  BY <1>2, <1>4, <1>5 DEF HandHas
<1>8. ASSUME NEW g \in Handlers, g # h PROVE HandHas(g)'
  <2>1. HandHas(g) /\ hand'[g] = hand[g] /\ ran'[g] = ran[g]
    BY <1>4, <1>5, <1>8 DEF IInv
  <2> QED
    BY <1>1, <1>2, <2>1 DEF HandHas
<1>9. ~Failed(h) => \A t \in keyed(hand[h]) : <<hand[h], t>> \in succeeded
  <2> SUFFICES ASSUME ~Failed(h), NEW t \in keyed(hand[h]) PROVE <<hand[h], t>> \in succeeded
    OBVIOUS
  <2>1. t \in Tasks
    BY DEF keyed
  <2>2. HandHas(h) /\ ran[h][t] \in {"none", "running", "ok", "failed"}
    BY <1>2, <2>1 DEF IInv, Types
  <2>3. ran[h][t] \notin {"none", "running", "failed"}
    BY <1>1, <2>1, <2>2 DEF HandHas, Finished, Failed
  <2> QED
    BY <1>1, <2>1, <2>2, <2>3 DEF HandHas
<1>10. SettledKeyed'
  BY <1>1, <1>2, <1>6, <1>9 DEF IInv, SettledKeyed
<1>11. Types'
  <2>1. settled' \subseteq Events
    BY <1>1, <1>2, <1>6 DEF Types
  <2> QED
    BY <1>1, <1>2, <1>4, <1>5, <1>6, <2>1 DEF Types, Call
<1> QED
  BY <1>1, <1>2, <1>3, <1>7, <1>8, <1>10, <1>11, Keeps

-----------------------------------------------------------------------------
(* The start, NewRunner and Close.                                         *)

\* The changes of a configuration are a sequence, and so are the rows of each.
LEMMA GivenRows ==
  ASSUME NEW cf \in Configurations
  PROVE  /\ Len(cf.changes) \in Nat /\ DOMAIN cf.changes = 1 .. Len(cf.changes)
         /\ \A k \in DOMAIN cf.changes :
              /\ Len(cf.changes[k].rows) \in Nat
              /\ DOMAIN cf.changes[k].rows = 1 .. Len(cf.changes[k].rows)
<1>1. /\ cf.changes \in Seq(ToSet(cf.changes))
      /\ \A k \in DOMAIN cf.changes : cf.changes[k].rows \in Seq(ToSet(cf.changes[k].rows))
  BY RunnerAssumption DEF RunnerAssumption, Change
<1>2. \A S : \A s \in Seq(S) : Len(s) \in Nat /\ DOMAIN s = 1 .. Len(s)
  OBVIOUS
<1> QED
  BY <1>1, <1>2, Zenon

\* So what is published is one, of changes of tables that have names.
LEMMA PublishedIsSeq ==
  ASSUME NEW cf \in Configurations
  PROVE  /\ Len(EventsOf(cf.changes)) \in Nat
         /\ DOMAIN EventsOf(cf.changes) = 1 .. Len(EventsOf(cf.changes))
         /\ \A e \in DOMAIN EventsOf(cf.changes) :
              /\ EventsOf(cf.changes)[e].database \in Names
              /\ EventsOf(cf.changes)[e].table \in Names
<1>1. PICK n \in Nat : n = Len(cf.changes) /\ DOMAIN cf.changes = 1 .. n
  BY GivenRows
<1>2. PICK seqs : seqs = [k \in 1 .. n |-> OnRow(cf.changes[k])]
  OBVIOUS
<1>3. EventsOf(cf.changes) = FlattenSeq(seqs)
  BY <1>1, <1>2 DEF EventsOf
<1> DEFINE S == UNION {{seqs[k][i] : i \in DOMAIN seqs[k]} : k \in 1 .. n}
<1> DEFINE Named(event) == event.database \in Names /\ event.table \in Names
<1>4. ASSUME NEW k \in 1 .. n
      PROVE  seqs[k] \in Seq(S) /\ \A i \in DOMAIN seqs[k] : Named(seqs[k][i])
  <2>1. Len(cf.changes[k].rows) \in Nat
    BY <1>1, GivenRows
  <2>2. PICK m \in Nat :
          /\ \E f : seqs[k] = [i \in 1 .. m |-> f[i]]
          /\ \A i \in 1 .. m : Named(seqs[k][i])
    <3>1. PICK m \in Nat : m = Left(cf.changes[k], 1)
      BY <2>1, OnRowMakes
    <3>2. PICK f : f = [i \in 1 .. m |-> EventAt(cf.changes[k], RowAt(cf.changes[k], 1, i))]
      OBVIOUS
    <3>3. seqs[k] = f
      BY <1>2, <2>1, <3>1, <3>2, OnRowMakes
    <3>4. f = [i \in 1 .. m |-> f[i]]
      BY <3>2
    <3>5. cf.changes[k].database \in Names /\ cf.changes[k].table \in Names
      BY <1>1, RunnerAssumption DEF RunnerAssumption
    <3>6. \A i \in 1 .. m : Named(f[i])
      BY <3>2, <3>5, NamesOf
    <3> QED
      BY <3>3, <3>4, <3>6
  <2>3. DOMAIN seqs[k] = 1 .. m
    BY <2>2
  <2>4. \A i \in 1 .. m : seqs[k][i] \in S
    BY <2>3
  <2>5. seqs[k] = [i \in 1 .. m |-> seqs[k][i]]
    BY <2>2
  <2> HIDE DEF S, Named
  <2> QED
    BY <2>2, <2>3, <2>4, <2>5
<1>5. seqs \in Seq(Seq(S))
  <2> HIDE DEF S
  <2> QED
    BY <1>2, <1>4
<1>6. FlattenSeq(seqs) \in Seq(S)
  <2> HIDE DEF S
  <2> QED
    BY <1>5, FlattenIsSeq
<1>7. \A s \in Seq(S) : Len(s) \in Nat /\ DOMAIN s = 1 .. Len(s)
  <2> HIDE DEF S
  <2> QED
    OBVIOUS
<1>8. \A x \in S : Named(x)
  BY <1>4
<1>9. \A s \in Seq(S) : \A e \in 1 .. Len(s) : s[e] \in S
  <2> HIDE DEF S
  <2> QED
    OBVIOUS
<1> HIDE DEF S
<1> QED
  BY <1>3, <1>6, <1>7, <1>8, <1>9

LEMMA InitInv == Init => IInv
<1> SUFFICES ASSUME Init PROVE IInv
  OBVIOUS
<1>1. /\ watched = << >> /\ built = "none" /\ hasConsumer = FALSE /\ consuming = FALSE
      /\ subscribed = FALSE /\ closed = FALSE /\ settled = {} /\ made = 0
      /\ calls = [c \in Callers |-> Idle] /\ hand = [h \in Handlers |-> 0]
      /\ succeeded = {} /\ failures = 0
  BY DEF Init
<1>2. Len(published) \in Nat /\ Events = 1 .. Len(published)
  BY PublishedIsSeq DEF Init, Events
<1>3. PICK none : none = [t \in Tasks |-> "none"]
  OBVIOUS
<1>4. ran = [x \in Callers \cup Handlers |-> none]
  BY <1>3 DEF Init
<1>5. Idle \in Call /\ Idle.pc = "idle"
  BY DEF Idle, Call
<1>6. TypeOK
  <2>1. ran \in [Callers \cup Handlers -> [Tasks -> {"none", "running", "ok", "failed"}]]
    BY <1>3, <1>4
  <2>2. calls \in [Callers -> Call] /\ hand \in [Handlers -> {0} \cup Events]
    BY <1>1, <1>5
  <2>3. made \in 0 .. MaxCalls /\ failures \in 0 .. MaxFailures
    BY <1>1
  <2> QED
    BY <1>1, <2>1, <2>2, <2>3 DEF TypeOK
<1>7. \A c \in Callers : calls[c].pc = "idle"
  BY <1>1, <1>5
<1>8. Exclusive
  BY <1>1, <1>7 DEF Exclusive
<1>9. \A h \in Handlers : hand[h] = 0 /\ HandHas(h)
  BY <1>1, <1>3, <1>4 DEF HandHas
<1>10. SettledKeyed
  BY <1>1 DEF SettledKeyed
<1>11. \A x \in Callers \cup Handlers : \A t \in Tasks : ran[x][t] = "none"
  BY <1>3, <1>4
<1> QED
  BY <1>1, <1>2, <1>6, <1>7, <1>8, <1>9, <1>10, <1>11 DEF IInv

LEMMA NewRunnerKeeps ==
  ASSUME IInv, NewRunner
  PROVE  IInv'
<1>1. /\ built = "none" /\ built' \in {"failed", "runner"}
      /\ hasConsumer' \in BOOLEAN /\ closed' \in BOOLEAN
      /\ watched' \in {watched, index}
      /\ UNCHANGED <<tasks, changes, published, consuming, subscribed, settled, calls, made, hand,
                     ran, succeeded, failures>>
  BY DEF NewRunner, IInv, TypeOK
<1>2. Tasks' = Tasks /\ Events' = Events /\ index' = index
  BY <1>1 DEF Tasks, Events, index
<1>3. /\ ~consuming /\ ~subscribed /\ settled = {} /\ succeeded = {}
      /\ \A c \in Callers : calls[c].pc = "idle"
      /\ \A h \in Handlers : hand[h] = 0
      /\ \A x \in Callers \cup Handlers : \A t \in Tasks : ran[x][t] = "none"
  BY <1>1 DEF IInv
<1>4. TypeOK'
  BY <1>1, <1>2 DEF IInv, TypeOK, Call
<1>5. \A h \in Handlers : HandHas(h)'
  BY <1>1, <1>2, <1>3 DEF IInv, HandHas
<1>6. Exclusive'
  BY <1>1, <1>3 DEF Exclusive
<1>7. SettledKeyed'
  BY <1>1, <1>3 DEF SettledKeyed
<1>8. (Len(published) \in Nat)' /\ (Events = 1 .. Len(published))'
  BY <1>1, <1>2 DEF IInv
<1>9. /\ ~consuming' /\ ~subscribed' /\ settled' = {} /\ succeeded' = {}
      /\ \A c \in Callers : calls'[c].pc = "idle"
      /\ \A h \in Handlers : hand'[h] = 0
  BY <1>1, <1>3
<1>10. \A x \in Callers \cup Handlers : \A t \in Tasks' : ran'[x][t] = "none"
  BY <1>1, <1>2, <1>3
<1> QED
  BY <1>4, <1>5, <1>6, <1>7, <1>8, <1>9, <1>10 DEF IInv

LEMMA StutterKeeps ==
  ASSUME IInv, UNCHANGED <<config, consuming, subscribed, settled, calls, made, hand, ran,
                           succeeded, failures>>, closed' \in BOOLEAN
  PROVE  IInv'
<1>1. /\ Tasks' = Tasks /\ Events' = Events /\ index' = index
      /\ built' = built /\ watched' = watched /\ hasConsumer' = hasConsumer
      /\ published' = published
  BY SameConfig
<1>2. TypeOK'
  BY <1>1 DEF IInv, TypeOK, Call
<1>3. (\A h \in Handlers : HandHas(h)') /\ SettledKeyed'
  BY HandlersKeep
<1>4. Exclusive'
  BY DEF IInv, Exclusive
<1> QED
  BY <1>1, <1>2, <1>3, <1>4 DEF IInv

LEMMA NextKeeps == IInv /\ [Next]_vars => IInv'
<1> SUFFICES ASSUME IInv, [Next]_vars PROVE IInv'
  OBVIOUS
<1>1. ASSUME NEW c \in Callers, RunByPrimaryKey(c) \/ RunByTimeRange(c) PROVE IInv'
  BY <1>1, RunTableKeeps DEF RunByPrimaryKey, RunByTimeRange
<1>2. ASSUME NEW c \in Callers,
             ConsumeReturns(c) \/ ReadingFails(c) \/ AskedReturns(c) \/ Cancel(c) \/ Run(c)
      PROVE  IInv'
  BY <1>2, ConsumeReturnsKeeps, AskedReturnsKeeps, CancelKeeps, RunKeeps
<1>3. ASSUME NEW h \in Handlers, Handle(h) \/ HandleReturns(h) PROVE IInv'
  BY <1>3, HandleKeeps, HandleReturnsKeeps
<1>4. ASSUME NEW x \in Callers \cup Handlers, NEW t \in Tasks, TaskReturns(x, t) PROVE IInv'
  BY <1>4, TaskReturnsKeeps
<1>5. CASE Close
  <2>1. /\ UNCHANGED <<config, consuming, subscribed, settled, calls, made, hand, ran, succeeded,
                       failures>>
        /\ closed' \in BOOLEAN
    BY <1>5 DEF Close
  <2> QED
    BY <2>1, StutterKeeps
<1>6. CASE UNCHANGED vars
  <2>1. /\ UNCHANGED <<config, consuming, subscribed, settled, calls, made, hand, ran, succeeded,
                       failures>>
        /\ closed' \in BOOLEAN
    BY <1>6 DEF vars, consumer, IInv, TypeOK
  <2> QED
    BY <2>1, StutterKeeps
<1> QED
  BY <1>1, <1>2, <1>3, <1>4, <1>5, <1>6, NewRunnerKeeps DEF Next, Resting

-----------------------------------------------------------------------------
(* The theorems.                                                           *)

\* The invariant the other theorems rest on: types, that one Run consumes and the
\* mark says so, and what the tasks of each handler are through with, whichever
\* events the consumer hands out and in which order.
THEOREM Invariance == Spec => []IInv
  BY InitInv, NextKeeps, PTL DEF Spec

\* One Run at a time reads from the consumer, however many goroutines call it,
\* are refused, or come back because reading failed, a context is canceled or the
\* consumer closed.
THEOREM ExclusionCorrect == Spec => []OneRunConsumes
<1>1. IInv => OneRunConsumes
  BY DEF IInv, OneRunConsumes, Exclusive
<1> QED
  BY <1>1, Invariance, PTL

\* The changes stay what the configuration says they are.
Given == \E cf \in Configurations : changes = cf.changes

LEMMA ChangesStay == Spec => []Given
<1>1. Init => Given
  BY DEF Init, Given
<1>2. Given /\ [Next]_vars => Given'
  <2> SUFFICES ASSUME Given, [Next]_vars PROVE changes' = changes
    BY DEF Given
  <2> QED
    BY DEF Next, vars, config, Run, RunByPrimaryKey, RunByTimeRange, RunTable, ConsumeReturns,
           ReadingFails, Handle, HandleReturns, AskedReturns, Cancel, TaskReturns, NewRunner,
           Close, Resting
<1> QED
  BY <1>1, <1>2, PTL DEF Spec

\* Every row of the binlog is in exactly one event, in its order, whatever the
\* changes are: the loop of OnRow pairs the rows of an update.
THEOREM RowsCorrect == Spec => []OneEventPerRow
<1>1. Given => OneEventPerRow
  <2> SUFFICES ASSUME Given, NEW k \in DOMAIN changes
               PROVE  LET c == changes[k]
                          new == NewRows(c)
                          events == OnRow(c)
                      IN  /\ [i \in DOMAIN events |-> events[i].data]
                               = [i \in DOMAIN new |->
                                    Event(c, rowToMap(new[i], c.columns), NoOld).data]
                          /\ c.action = "update" =>
                               \A i \in DOMAIN events :
                                 2 * i <= Len(c.rows) =>
                                   events[i].old
                                     = Event(c, NoOld, rowToMap(c.rows[2 * i - 1], c.columns)).old
    BY DEF OneEventPerRow
  <2>1. Len(changes[k].rows) \in Nat /\ DOMAIN changes[k].rows = 1 .. Len(changes[k].rows)
    BY GivenRows DEF Given
  <2> QED
    BY <2>1, RowsOfChange
<1> QED
  BY <1>1, ChangesStay, PTL

-----------------------------------------------------------------------------
(* The key of a row.                                                       *)

\* What a watcher reads of a key that survives: a number is a float64.
As(d) == IF d[1] = "number" THEN Value("float", d[2]) ELSE Value("string", d[2])

\* A key as the database has it.
Denotation(d) == \/ d = <<"number", d[2]>> /\ d[2] \in -Exact .. Exact
                 \/ d = <<"text", d[2]>> /\ d[2] # "" /\ d[2] \notin DOMAIN Replaced

LEMMA Kinds ==
  /\ \A v : <<"number", v>>[1] = "number" /\ <<"number", v>>[2] = v
  /\ \A v : <<"text", v>>[1] = "text" /\ <<"text", v>>[2] = v
  /\ \A go, v : Value(go, v).go = go /\ Value(go, v).v = v
  BY DEF Value

\* Two keys are read as one value only if they are one key.
LEMMA AsIsInjective ==
  ASSUME NEW d, NEW e, Denotation(d), Denotation(e), As(d) = As(e)
  PROVE  d = e
<1>1. "number" # "text" /\ "float" # "string"
  OBVIOUS
<1>2. ASSUME NEW x, Denotation(x)
      PROVE  \/ x[1] = "number" /\ As(x) = Value("float", x[2]) /\ x = <<"number", x[2]>>
             \/ x[1] = "text" /\ As(x) = Value("string", x[2]) /\ x = <<"text", x[2]>>
  <2>1. x = <<"number", x[2]>> \/ x = <<"text", x[2]>>
    BY <1>2 DEF Denotation
  <2>2. <<"number", x[2]>>[1] = "number" /\ <<"text", x[2]>>[1] = "text"
    BY Kinds, Zenon
  <2>3. CASE x = <<"number", x[2]>>
    <3>1. x[1] = "number"
      BY <2>2, <2>3, Zenon
    <3> QED
      BY <2>3, <3>1, Zenon DEF As
  <2>4. CASE x = <<"text", x[2]>>
    <3>1. x[1] = "text"
      BY <2>2, <2>4, Zenon
    <3> QED
      BY <1>1, <2>4, <3>1, Zenon DEF As
  <2> QED
    BY <2>1, <2>3, <2>4, Zenon
<1>3. As(d).go = As(e).go /\ As(d).v = As(e).v
  OBVIOUS
<1>4. \A v : Value("float", v).go = "float" /\ Value("float", v).v = v
              /\ Value("string", v).go = "string" /\ Value("string", v).v = v
  BY Kinds
<1>5. d[1] = e[1] /\ d[2] = e[2]
  BY <1>1, <1>2, <1>3, <1>4
<1> QED
  BY <1>1, <1>2, <1>5

\* A value that names a row.
NamesRow(x) == x.go # "nil" /\ (x.go = "string" => x.v # "")

\* A value of a key column, converted and decoded, is what its key is read as.
LEMMA DecodedIsKey ==
  ASSUME NEW type \in {"number", "string"}, NEW raw, raw = Value(raw.go, raw.v),
         raw.go \in {"nil", "int", "bytes", "string"}, raw.go = "int" => raw.v \in Int,
         \A d \in Denoted(type, raw) : /\ type = "number" => d[1] = "number"
                                       /\ d[1] = "number" => d[2] \in -Exact .. Exact
                                       /\ d[1] = "text" => d[2] \notin DOMAIN Replaced
  PROVE  LET x == decoded(converted(type, raw))
         IN  \/ Denoted(type, raw) = {} /\ ~NamesRow(x)
             \/ \E d : Denoted(type, raw) = {d} /\ Denotation(d) /\ NamesRow(x) /\ x = As(d)
<1>0. RowEventsAssumption
  BY RowEventsAssumption
<1>1. \A n \in -Exact .. Exact : Rounded(n) = n
  BY DEF Rounded
<1>2. CASE raw.go = "nil"
  <2>1. Denoted(type, raw) = {}
    BY <1>2 DEF Denoted
  <2>2. converted(type, raw) = raw
    BY <1>2 DEF converted
  <2>3. decoded(raw) = raw
    BY <1>2 DEF decoded
  <2> QED
    BY <1>2, <2>1, <2>2, <2>3 DEF NamesRow
<1>3. CASE raw.go = "int"
  <2>1. Denoted(type, raw) = {<<"number", raw.v>>}
    BY <1>3 DEF Denoted
  <2>2. raw.v \in -Exact .. Exact
    BY <2>1, Kinds
  <2>3. converted(type, raw) = raw
    BY <1>3 DEF converted
  <2>4. decoded(raw) = Value("float", raw.v)
    BY <1>1, <1>3, <2>2 DEF decoded
  <2>5. Denotation(<<"number", raw.v>>) /\ As(<<"number", raw.v>>) = Value("float", raw.v)
    BY <2>2, Kinds DEF Denotation, As
  <2>6. NamesRow(Value("float", raw.v))
    BY DEF NamesRow, Value
  <2> QED
    BY <2>1, <2>3, <2>4, <2>5, <2>6, Zenon
<1>4. CASE raw.go = "bytes" \/ raw.go = "string"
  <2>1. CASE raw.v = ""
    <3>1. raw.v \notin DOMAIN Number /\ raw.v \notin DOMAIN Replaced
      BY <1>0, <2>1 DEF RowEventsAssumption
    <3>2. Denoted(type, raw) = {}
      BY <1>4, <2>1, <3>1 DEF Denoted
    <3>3. converted(type, raw) = raw \/ converted(type, raw) = Value("string", "")
      BY <1>4, <2>1, <3>1 DEF converted
    <3>4. decoded(Value("string", "")) = Value("string", "")
      BY <2>1, <3>1 DEF decoded, Value
    <3>5. decoded(raw) = Value("string", "")
      BY <1>4, <2>1, <3>1 DEF decoded, Value
    <3>6. ~NamesRow(Value("string", ""))
      BY DEF NamesRow, Value
    <3> QED
      BY <3>2, <3>3, <3>4, <3>5, <3>6
  <2>2. CASE raw.v # "" /\ type = "number" /\ raw.go = "bytes" /\ raw.v \in DOMAIN Number
    <3>1. Denoted(type, raw) = {<<"number", Number[raw.v]>>}
      BY <2>2 DEF Denoted
    <3>2. Number[raw.v] \in -Exact .. Exact
      BY <3>1, Kinds
    <3>3. converted(type, raw) = Value("int", Number[raw.v])
      BY <2>2 DEF converted
    <3>4. decoded(Value("int", Number[raw.v])) = Value("float", Number[raw.v])
      BY <1>1, <3>2 DEF decoded, Value
    <3>5. Denotation(<<"number", Number[raw.v]>>)
           /\ As(<<"number", Number[raw.v]>>) = Value("float", Number[raw.v])
      BY <3>2, Kinds DEF Denotation, As
    <3>6. NamesRow(Value("float", Number[raw.v]))
      BY DEF NamesRow, Value
    <3> QED
      BY <3>1, <3>3, <3>4, <3>5, <3>6, Zenon
  <2>3. CASE raw.v # "" /\ ~(type = "number" /\ raw.go = "bytes" /\ raw.v \in DOMAIN Number)
    <3>1. Denoted(type, raw) = {<<"text", raw.v>>}
      BY <1>4, <2>3 DEF Denoted
    <3>2. type = "string" /\ raw.v \notin DOMAIN Replaced
      BY <3>1, Kinds
    <3>3. converted(type, raw) = Value("string", raw.v)
      BY <1>4, <3>2 DEF converted
    <3>4. decoded(Value("string", raw.v)) = Value("string", raw.v)
      BY <3>2 DEF decoded, Value
    <3>5. Denotation(<<"text", raw.v>>) /\ As(<<"text", raw.v>>) = Value("string", raw.v)
      BY <2>3, <3>2, Kinds DEF Denotation, As
    <3>6. NamesRow(Value("string", raw.v))
      BY <2>3 DEF NamesRow, Value
    <3> QED
      BY <3>1, <3>3, <3>4, <3>5, <3>6, Zenon
  <2> QED
    BY <2>1, <2>2, <2>3
<1> QED
  BY <1>2, <1>3, <1>4

\* Of a change, a watcher reads nothing where the database has no key, and the
\* one value a key is read as where it has one.
LEMMA ReadIsKey ==
  ASSUME NEW w, NEW r, r[1] \in DOMAIN changes, Change(changes[r[1]]),
         r[2] \in DOMAIN changes[r[1]].rows, Survives(w, r)
  PROVE  \/ Read(w, r) = {} /\ Key(w, r) = {}
         \/ \E d : /\ Denotation(d) /\ Key(w, r) = {d}
                   /\ Read(w, r) = {As(d)}
<1> DEFINE k == r[1]
           i == r[2]
<1>1. PICK row : row = changes[k].rows[i]
  OBVIOUS
<1>2. PICK columns : columns = changes[k].columns
  OBVIOUS
<1>3. PICK name : name = keyColumn(w)
  OBVIOUS
<1>4. row \in ToSet(changes[k].rows)
  BY <1>1 DEF ToSet
<1>5. /\ Len(row) \in Nat /\ DOMAIN row = 1 .. Len(row)
      /\ Len(columns) \in Nat /\ DOMAIN columns = 1 .. Len(columns)
  <2>1. \A S : \A s \in Seq(S) : Len(s) \in Nat /\ DOMAIN s = 1 .. Len(s)
    OBVIOUS
  <2>2. row \in Seq(ToSet(row)) /\ columns \in Seq(ToSet(columns))
    BY <1>2, <1>4 DEF Change
  <2> QED
    BY <2>1, <2>2
<1>6. \A j \in DOMAIN row \cap DOMAIN columns :
        /\ row[j] = Value(row[j].go, row[j].v)
        /\ row[j].go = "int" => row[j].v \in Int
        /\ columns[j].type \in {"number", "string"} => row[j].go \in {"nil", "int", "bytes", "string"}
  BY <1>2, <1>4, Zenon DEF Change
<1>7. \A j, l \in DOMAIN columns : columns[j].name = columns[l].name => j = l
  BY <1>2, Zenon DEF Change
<1>8. PICK data : data = rowToMap(row, columns)
  OBVIOUS
<1>9. PICK given : given = [n \in DOMAIN data |-> decoded(data[n])]
  OBVIOUS
<1>10. DOMAIN data = {columns[j].name : j \in DOMAIN columns}
  BY <1>8 DEF rowToMap
<1>11. Read(w, r) = mainPkVal(w, given)
  <2>1. Event(changes[k], data, NoOld).data = given
    BY <1>9 DEF Event
  <2> QED
    BY <1>1, <1>2, <1>8, <2>1 DEF Read
<1>12. Key(w, r) =
         UNION {Denoted(columns[j].type, row[j]) :
                  j \in {j \in DOMAIN row \cap DOMAIN columns : columns[j].name = name}}
  BY <1>1, <1>2, <1>3, Zenon DEF Key
<1>13. mainPkVal(w, given) =
         {given[c] : c \in {c \in {name} \cap DOMAIN given : NamesRow(given[c])}}
  BY <1>3, Zenon DEF mainPkVal, NamesRow
<1>14. CASE \A j \in DOMAIN columns : columns[j].name # name
  <2>1. name \notin DOMAIN given
    BY <1>9, <1>10, <1>14
  <2>2. mainPkVal(w, given) = {}
    BY <1>13, <2>1
  <2>3. Key(w, r) = {}
    BY <1>12, <1>14
  <2> QED
    BY <1>11, <2>2, <2>3
<1>15. CASE \E j \in DOMAIN columns : columns[j].name = name
  <2>1. PICK j \in DOMAIN columns : columns[j].name = name
    BY <1>15
  <2>2. (CHOOSE l \in DOMAIN columns : columns[l].name = name) = j
    BY <1>7, <2>1
  <2>3. name \in DOMAIN data
    BY <1>10, <2>1
  <2>4. data[name] = IF j > Len(row) THEN Null ELSE converted(columns[j].type, row[j])
    <3> DEFINE at(n) == CHOOSE l \in DOMAIN columns : columns[l].name = n
    <3>1. data = [n \in {columns[l].name : l \in DOMAIN columns} |->
                    IF at(n) > Len(row) THEN Null ELSE converted(columns[at(n)].type, row[at(n)])]
      BY <1>8, Zenon DEF rowToMap
    <3>2. at(name) = j
      BY <2>2
    <3> HIDE DEF at
    <3> QED
      BY <1>10, <2>3, <3>1, <3>2
  <2>5. name \in DOMAIN given /\ given[name] = decoded(data[name])
    BY <1>9, <2>3
  <2>6. mainPkVal(w, given) = IF NamesRow(given[name]) THEN {given[name]} ELSE {}
    BY <1>13, <2>5
  <2>7. CASE j > Len(row)
    <3>1. given[name] = Null
      <4>1. decoded(Null) = Null
        BY DEF decoded, Null, Value
      <4> QED
        BY <2>4, <2>5, <2>7, <4>1
    <3>2. ~NamesRow(Null)
      BY DEF NamesRow, Null, Value
    <3>3. j \notin DOMAIN row
      BY <1>5, <2>7
    <3>4. Key(w, r) = {}
      BY <1>7, <1>12, <2>1, <3>3
    <3> QED
      BY <1>11, <2>6, <3>1, <3>2, <3>4
  <2>8. CASE ~(j > Len(row))
    <3>1. j \in DOMAIN row
      BY <1>5, <2>1, <2>8
    <3>2. Key(w, r) = Denoted(columns[j].type, row[j])
      <4>1. {l \in DOMAIN row \cap DOMAIN columns : columns[l].name = name} = {j}
        BY <1>7, <2>1, <3>1
      <4>2. Key(w, r) = UNION {Denoted(columns[l].type, row[l]) : l \in {j}}
        BY <1>12, <4>1, Zenon
      <4> QED
        BY <4>2
    <3>3. /\ columns[j].type \in {"number", "string"}
          /\ \A d \in Denoted(columns[j].type, row[j]) :
               /\ columns[j].type = "number" => d[1] = "number"
               /\ d[1] = "number" => d[2] \in -Exact .. Exact
               /\ d[1] = "text" => d[2] \notin DOMAIN Replaced
      BY <1>2, <1>3, <2>1, <3>2, Zenon DEF Survives
    <3>4. /\ row[j] = Value(row[j].go, row[j].v)
          /\ row[j].go \in {"nil", "int", "bytes", "string"}
          /\ row[j].go = "int" => row[j].v \in Int
      BY <1>6, <2>1, <3>1, <3>3
    <3>5. given[name] = decoded(converted(columns[j].type, row[j]))
      BY <2>4, <2>5, <2>8
    <3>6. LET x == decoded(converted(columns[j].type, row[j]))
          IN  \/ Denoted(columns[j].type, row[j]) = {} /\ ~NamesRow(x)
              \/ \E d : Denoted(columns[j].type, row[j]) = {d} /\ Denotation(d) /\ NamesRow(x) /\ x = As(d)
      BY <3>3, <3>4, DecodedIsKey
    <3>7. \/ Key(w, r) = {} /\ ~NamesRow(given[name])
          \/ \E d : Key(w, r) = {d} /\ Denotation(d) /\ NamesRow(given[name]) /\ given[name] = As(d)
      BY <3>2, <3>5, <3>6, Zenon
    <3> QED
      BY <1>11, <2>6, <3>7
  <2> QED
    BY <2>7, <2>8
<1> QED
  BY <1>14, <1>15

\* The changes of a configuration are those of tables of MySQL.
LEMMA GivenChanges ==
  ASSUME Given, NEW k \in DOMAIN changes
  PROVE  Change(changes[k])
  BY RunnerAssumption DEF Given, RunnerAssumption

\* Two changes name the same row of the main table exactly when they are about
\* the same row, and none exactly when the key column is empty, whichever types
\* of Go their keys were read as: a key is exact in a float64, and JSON makes no
\* two texts of UTF-8 one.
THEOREM KeysApartCorrect == Spec => []KeysTellRowsApart
<1>1. Given => KeysTellRowsApart
  <2> SUFFICES ASSUME Given, NEW w \in ToSet(index),
                      NEW r \in RowsFor(w), NEW q \in RowsFor(w), Survives(w, r), Survives(w, q)
               PROVE  /\ Read(w, r) = {} <=> Key(w, r) = {}
                      /\ Read(w, r) = Read(w, q) <=> Key(w, r) = Key(w, q)
    BY DEF KeysTellRowsApart
  <2>1. \A p \in RowsFor(w) : Survives(w, p) =>
           \/ Read(w, p) = {} /\ Key(w, p) = {}
           \/ \E d : Denotation(d) /\ Key(w, p) = {d} /\ Read(w, p) = {As(d)}
    <3> SUFFICES ASSUME NEW p \in RowsFor(w), Survives(w, p)
                 PROVE  \/ Read(w, p) = {} /\ Key(w, p) = {}
                        \/ \E d : Denotation(d) /\ Key(w, p) = {d} /\ Read(w, p) = {As(d)}
      OBVIOUS
    <3>1. PICK k \in DOMAIN changes : \E i \in DOMAIN changes[k].rows : p = <<k, i>>
      BY Zenon DEF RowsFor
    <3>2. p[1] \in DOMAIN changes /\ p[2] \in DOMAIN changes[p[1]].rows
      BY <3>1
    <3>3. Change(changes[p[1]])
      BY <3>2, GivenChanges
    <3> QED
      BY <3>2, <3>3, ReadIsKey
  <2>2. CASE Read(w, r) = {} /\ Key(w, r) = {}
    BY <2>1, <2>2
  <2>3. CASE Read(w, q) = {} /\ Key(w, q) = {}
    BY <2>1, <2>3
  <2>4. CASE /\ \E d : Denotation(d) /\ Key(w, r) = {d} /\ Read(w, r) = {As(d)}
             /\ \E d : Denotation(d) /\ Key(w, q) = {d} /\ Read(w, q) = {As(d)}
    BY <2>4, AsIsInjective
  <2> QED
    BY <2>1, <2>2, <2>3, <2>4
<1> QED
  BY <1>1, ChangesStay, PTL

-----------------------------------------------------------------------------
(* Where the elements of joined sequences come from.                       *)

\* The k-th element of q is the pos[k]-th of the nth[k]-th of the first n
\* sequences: each in one place, and in their order.
Places(q, seqs, n, nth, pos) ==
  /\ \A k \in 1 .. Len(q) :
       /\ nth[k] \in 1 .. n /\ pos[k] \in 1 .. Len(seqs[nth[k]])
       /\ q[k] = seqs[nth[k]][pos[k]]
  /\ \A k, l \in 1 .. Len(q) :
       k < l => nth[k] < nth[l] \/ (nth[k] = nth[l] /\ pos[k] < pos[l])
  /\ \A i \in 1 .. n : \A j \in 1 .. Len(seqs[i]) :
       \E k \in 1 .. Len(q) : nth[k] = i /\ pos[k] = j

\* Joining two sequences, element by element.
LEMMA JoinTwo ==
  ASSUME NEW S, NEW q \in Seq(S), NEW s \in Seq(S)
  PROVE  /\ q \o s \in Seq(S) /\ Len(q \o s) = Len(q) + Len(s)
         /\ Len(q) \in Nat /\ Len(s) \in Nat
         /\ \A k \in 1 .. Len(q) : (q \o s)[k] = q[k]
         /\ \A k \in 1 .. Len(s) : (q \o s)[Len(q) + k] = s[k]
  OBVIOUS

\* The places of the joined sequence, when the n-th one is joined to the others.
LEMMA PlacesStep ==
  ASSUME NEW S, NEW seqs \in Seq(Seq(S)), NEW n \in 1 .. Len(seqs),
         NEW q \in Seq(S), NEW nth, NEW pos, Places(q, seqs, n - 1, nth, pos)
  PROVE  \E nth2, pos2 : Places(q \o seqs[n], seqs, n, nth2, pos2)
<1>1. PICK s \in Seq(S) : s = seqs[n]
  OBVIOUS
<1>2. PICK L \in Nat : L = Len(q)
  OBVIOUS
<1>3. PICK r : r = q \o s
  OBVIOUS
<1>4. /\ Len(r) = L + Len(s) /\ Len(s) \in Nat
      /\ \A k \in 1 .. L : r[k] = q[k]
      /\ \A k \in 1 .. Len(s) : r[L + k] = s[k]
  BY <1>2, <1>3, JoinTwo, SMTT(30)
<1>5. PICK nth2 : nth2 = [k \in 1 .. Len(r) |-> IF k <= L THEN nth[k] ELSE n]
  OBVIOUS
<1>6. PICK pos2 : pos2 = [k \in 1 .. Len(r) |-> IF k <= L THEN pos[k] ELSE k - L]
  OBVIOUS
<1>7. \A k \in 1 .. Len(r) : k \in 1 .. L \/ (~(k <= L) /\ k - L \in 1 .. Len(s) /\ L + (k - L) = k)
  BY <1>4
<1>8. \A k \in 1 .. L : k <= L /\ k \in 1 .. Len(r)
  BY <1>4
<1>9. \A k \in 1 .. L : nth2[k] = nth[k] /\ pos2[k] = pos[k]
  BY <1>5, <1>6, <1>8
<1>10. \A k \in 1 .. Len(r) : ~(k <= L) => nth2[k] = n /\ pos2[k] = k - L
  BY <1>5, <1>6
<1>11. /\ \A k \in 1 .. L : /\ nth[k] \in 1 .. n - 1 /\ pos[k] \in 1 .. Len(seqs[nth[k]])
                            /\ q[k] = seqs[nth[k]][pos[k]]
       /\ \A k, l \in 1 .. L :
            k < l => nth[k] < nth[l] \/ (nth[k] = nth[l] /\ pos[k] < pos[l])
       /\ \A i \in 1 .. n - 1 : \A j \in 1 .. Len(seqs[i]) :
            \E k \in 1 .. L : nth[k] = i /\ pos[k] = j
  BY <1>2 DEF Places
<1>12. /\ n \in Nat /\ n \in 1 .. n
       /\ \A i \in 1 .. n : i = n \/ i \in 1 .. n - 1
       /\ \A i \in 1 .. n - 1 : i \in 1 .. n /\ i < n
  OBVIOUS
<1>13. ASSUME NEW k \in 1 .. Len(r)
       PROVE  /\ nth2[k] \in 1 .. n /\ pos2[k] \in 1 .. Len(seqs[nth2[k]])
              /\ r[k] = seqs[nth2[k]][pos2[k]]
  <2>1. CASE k \in 1 .. L
    BY <1>4, <1>9, <1>11, <1>12, <2>1
  <2>2. CASE ~(k \in 1 .. L)
    <3>1. ~(k <= L) /\ k - L \in 1 .. Len(s) /\ L + (k - L) = k
      BY <1>7, <2>2
    <3>2. nth2[k] = n /\ pos2[k] = k - L
      BY <1>10, <3>1
    <3>3. r[L + (k - L)] = s[k - L]
      BY <1>4, <3>1
    <3>4. r[k] = s[k - L]
      BY <3>1, <3>3
    <3> QED
      BY <1>1, <1>12, <3>1, <3>2, <3>4
  <2> QED
    BY <2>1, <2>2
<1>14. ASSUME NEW k \in 1 .. Len(r), NEW l \in 1 .. Len(r), k < l
       PROVE  nth2[k] < nth2[l] \/ (nth2[k] = nth2[l] /\ pos2[k] < pos2[l])
  <2>1. CASE k \in 1 .. L /\ l \in 1 .. L
    BY <1>9, <1>11, <1>14, <2>1
  <2>2. CASE k \in 1 .. L /\ ~(l \in 1 .. L)
    <3>1. nth2[l] = n
      BY <1>7, <1>10, <2>2
    <3>2. nth2[k] \in 1 .. n - 1
      BY <1>9, <1>11, <2>2
    <3> QED
      BY <1>12, <3>1, <3>2
  <2>3. CASE ~(k \in 1 .. L)
    <3>1. ~(k <= L) /\ ~(l <= L) /\ k \in Nat /\ l \in Nat
      BY <1>2, <1>4, <1>7, <1>14, <2>3
    <3>2. nth2[k] = n /\ nth2[l] = n /\ pos2[k] = k - L /\ pos2[l] = l - L
      BY <1>10, <3>1
    <3>3. k - L < l - L
      BY <1>2, <1>14, <3>1
    <3> QED
      BY <3>2, <3>3
  <2> QED
    BY <2>1, <2>2, <2>3
<1>15. ASSUME NEW i \in 1 .. n, NEW j \in 1 .. Len(seqs[i])
       PROVE  \E k \in 1 .. Len(r) : nth2[k] = i /\ pos2[k] = j
  <2>1. CASE i = n
    <3>1. j \in 1 .. Len(s)
      BY <1>1, <2>1
    <3>2. L + j \in 1 .. Len(r) /\ ~(L + j <= L) /\ (L + j) - L = j
      BY <1>2, <1>4, <3>1
    <3> QED
      BY <1>10, <2>1, <3>2
  <2>2. CASE i \in 1 .. n - 1
    <3>1. PICK k \in 1 .. L : nth[k] = i /\ pos[k] = j
      BY <1>11, <2>2
    <3> QED
      BY <1>8, <1>9, <3>1
  <2> QED
    BY <1>12, <2>1, <2>2
<1>16. Places(r, seqs, n, nth2, pos2)
  BY <1>13, <1>14, <1>15 DEF Places
<1> QED
  BY <1>1, <1>3, <1>16

LEMMA FlattenPlaces ==
  ASSUME NEW S, NEW seqs \in Seq(Seq(S))
  PROVE  \E nth, pos : Places(FlattenSeq(seqs), seqs, Len(seqs), nth, pos)
<1> DEFINE n == Len(seqs)
           Found(q, m) == \E nth, pos : Places(q, seqs, m, nth, pos)
<1>1. n \in Nat
  OBVIOUS
<1>2. Found(<< >>, 0)
  <2>1. Len(<< >>) = 0 /\ 1 .. 0 = {}
    OBVIOUS
  <2> QED
    BY <2>1 DEF Places
<1>3. CASE n = 0
  <2>1. FlattenSeq(seqs) = seqs /\ seqs = << >>
    BY <1>3 DEF FlattenSeq
  <2> QED
    BY <1>2, <1>3, <2>1
<1>4. CASE n # 0
  <2>1. n \in 1 .. n /\ n <= n
    BY <1>1, <1>4
  <2>2. \E f : Joins(f, seqs, n)
    <3>1. \E f \in [1 .. n -> Seq(S)] : Joins(f, seqs, n)
      BY <1>1, <2>1, JoinsExist
    <3> QED
      BY <3>1, Zenon
  <2>3. PICK f : f = CHOOSE g : Joins(g, seqs, n)
    OBVIOUS
  <2>4. Joins(f, seqs, n)
    BY <2>2, <2>3, Zenon
  <2>5. /\ \A m \in 1 .. n : f[m] = IF m = 1 THEN seqs[m] ELSE f[m - 1] \o seqs[m]
        /\ \A m \in 1 .. n : f[m] \in Seq(S)
    BY <2>4, JoinsTypes DEF Joins
  <2> DEFINE Bad == {m \in 1 .. n : ~Found(f[m], m)}
  <2>6. Bad = {}
    <3> SUFFICES ASSUME Bad # {} PROVE FALSE
      OBVIOUS
    <3>1. PICK m \in Bad : \A k \in Bad : m <= k
      <4>1. Bad \in SUBSET Nat
        OBVIOUS
      <4> HIDE DEF Bad
      <4> QED
        BY <4>1, MinIs
    <3>2. PICK q \in Seq(S) : q \o seqs[m] = f[m] /\ Found(q, m - 1)
      <4>1. CASE m = 1
        <5>1. seqs[1] \in Seq(S) /\ m - 1 = 0 /\ f[1] = seqs[1]
          BY <2>5, <3>1, <4>1
        <5>2. << >> \in Seq(S) /\ \A s \in Seq(S) : << >> \o s = s
          OBVIOUS
        <5> QED
          BY <1>2, <4>1, <5>1, <5>2
      <4>2. CASE m # 1
        <5>1. m - 1 \in 1 .. n /\ ~(m <= m - 1)
          BY <3>1, <4>2
        <5>2. Found(f[m - 1], m - 1)
          BY <3>1, <5>1
        <5>3. f[m - 1] \in Seq(S) /\ f[m - 1] \o seqs[m] = f[m]
          BY <2>5, <3>1, <4>2, <5>1
        <5> QED
          BY <5>2, <5>3
      <4> QED
        BY <4>1, <4>2
    <3>3. m \in 1 .. Len(seqs) /\ ~Found(f[m], m)
      BY <3>1
    <3>4. PICK nth, pos : Places(q, seqs, m - 1, nth, pos)
      BY <3>2
    <3>5. \E nth2, pos2 : Places(q \o seqs[m], seqs, m, nth2, pos2)
      BY <3>3, <3>4, PlacesStep
    <3> QED
      BY <3>2, <3>3, <3>5
  <2>7. Found(f[n], n)
    BY <2>1, <2>6
  <2>8. FlattenSeq(seqs) = f[n]
    BY <1>4, <2>3, FlattenJoins, Zenon
  <2> QED
    BY <2>7, <2>8
<1> QED
  BY <1>3, <1>4

-----------------------------------------------------------------------------
(* The routing of a change.                                                *)

\* The k-th element of q is the from[k]-th of ws, and q has all that have the key.
Selects(q, ws, key, from) ==
  /\ \A k \in 1 .. Len(q) :
       from[k] \in 1 .. Len(ws) /\ q[k] = ws[from[k]] /\ keyOf(ws[from[k]]) = key
  /\ \A k, l \in 1 .. Len(q) : k < l => from[k] < from[l]
  /\ \A i \in 1 .. Len(ws) : keyOf(ws[i]) = key => \E k \in 1 .. Len(q) : from[k] = i

\* Of a sequence of watchers, of leaves those of the key, in their order.
LEMMA OfSelects ==
  ASSUME NEW S, NEW ws \in Seq(S), NEW key
  PROVE  of(ws, key) \in Seq(S) /\ \E from : Selects(of(ws, key), ws, key, from)
<1>1. PICK seqs : seqs = [k \in DOMAIN ws |-> IF keyOf(ws[k]) = key THEN <<ws[k]>> ELSE << >>]
  OBVIOUS
<1>2. /\ DOMAIN ws = 1 .. Len(ws) /\ Len(ws) \in Nat
      /\ \A k \in 1 .. Len(ws) : ws[k] \in S
  OBVIOUS
<1>3. /\ seqs \in Seq(Seq(S)) /\ Len(seqs) = Len(ws)
      /\ \A k \in 1 .. Len(ws) :
           /\ keyOf(ws[k]) = key => seqs[k] = <<ws[k]>>
           /\ keyOf(ws[k]) # key => seqs[k] = << >>
  <2>1. \A k \in 1 .. Len(ws) :
          /\ keyOf(ws[k]) = key => seqs[k] = <<ws[k]>>
          /\ keyOf(ws[k]) # key => seqs[k] = << >>
    BY <1>1, <1>2
  <2>2. \A x \in S : <<x>> \in Seq(S)
    OBVIOUS
  <2>3. << >> \in Seq(S)
    OBVIOUS
  <2>4. \A k \in 1 .. Len(ws) : seqs[k] \in Seq(S)
    BY <1>2, <2>1, <2>2, <2>3, Zenon
  <2>5. seqs \in [1 .. Len(ws) -> Seq(S)]
    BY <1>1, <1>2, <2>4
  <2> QED
    BY <1>2, <2>1, <2>5
<1>4. of(ws, key) = FlattenSeq(seqs)
  BY <1>1 DEF of
<1>5. PICK q : q = of(ws, key)
  OBVIOUS
<1>6. q \in Seq(S)
  BY <1>3, <1>4, <1>5, FlattenIsSeq
<1>7. PICK nth, pos : Places(q, seqs, Len(ws), nth, pos)
  BY <1>3, <1>4, <1>5, FlattenPlaces
<1>8. \A x : Len(<<x>>) = 1 /\ <<x>>[1] = x /\ Len(<< >>) = 0
  OBVIOUS
<1>9. \A j \in 1 .. 1 : j = 1
  OBVIOUS
<1>10. ASSUME NEW k \in 1 .. Len(q)
       PROVE  /\ nth[k] \in 1 .. Len(ws) /\ pos[k] = 1
              /\ q[k] = ws[nth[k]] /\ keyOf(ws[nth[k]]) = key
  <2>1. /\ nth[k] \in 1 .. Len(ws) /\ pos[k] \in 1 .. Len(seqs[nth[k]])
        /\ q[k] = seqs[nth[k]][pos[k]]
    BY <1>7 DEF Places
  <2>2. keyOf(ws[nth[k]]) = key
    <3> SUFFICES ASSUME keyOf(ws[nth[k]]) # key PROVE FALSE
      OBVIOUS
    <3>1. pos[k] \in 1 .. 0
      BY <1>3, <1>8, <2>1
    <3> QED
      BY <3>1
  <2>3. seqs[nth[k]] = <<ws[nth[k]]>>
    BY <1>3, <2>1, <2>2
  <2>4. pos[k] \in 1 .. 1
    BY <1>8, <2>1, <2>3
  <2> QED
    BY <1>8, <1>9, <2>1, <2>2, <2>3, <2>4
<1>11. \A k, l \in 1 .. Len(q) : k < l => nth[k] < nth[l]
  <2> SUFFICES ASSUME NEW k \in 1 .. Len(q), NEW l \in 1 .. Len(q), k < l
               PROVE  nth[k] < nth[l]
    OBVIOUS
  <2>1. nth[k] < nth[l] \/ (nth[k] = nth[l] /\ pos[k] < pos[l])
    BY <1>7 DEF Places
  <2>2. pos[k] = 1 /\ pos[l] = 1
    BY <1>10
  <2> QED
    BY <2>1, <2>2
<1>12. ASSUME NEW i \in 1 .. Len(ws), keyOf(ws[i]) = key
       PROVE  \E k \in 1 .. Len(q) : nth[k] = i
  <2>1. seqs[i] = <<ws[i]>>
    BY <1>3, <1>12
  <2>2. 1 \in 1 .. Len(seqs[i])
    BY <1>8, <2>1
  <2> QED
    BY <1>7, <2>2 DEF Places
<1>13. Selects(q, ws, key, nth)
  BY <1>10, <1>11, <1>12 DEF Selects
<1> QED
  BY <1>5, <1>6, <1>13

\* The letters of all names.
Letters == (UNION {ToSet(name) : name \in Names}) \cup {Dot}

LEMMA NamesTypes == \A name \in Names : name \in Seq(Letters)
<1> SUFFICES ASSUME NEW name \in Names PROVE name \in Seq(Letters)
  OBVIOUS
<1>1. name \in Seq(ToSet(name))
  BY WatchersAssumption DEF WatchersAssumption
<1>2. ToSet(name) \subseteq Letters
  BY DEF Letters
<1>3. PICK T : T = ToSet(name)
  OBVIOUS
<1>4. PICK L : L = Letters
  OBVIOUS
<1>5. name \in Seq(T) /\ T \subseteq L
  BY <1>1, <1>2, <1>3, <1>4
<1>6. /\ Len(name) \in Nat /\ name \in [1 .. Len(name) -> T]
  BY <1>5
<1>7. name \in [1 .. Len(name) -> L]
  BY <1>5, <1>6
<1>8. name \in Seq(L)
  BY <1>6, <1>7
<1> QED
  BY <1>4, <1>8

\* What the tasks of a configuration are.
TasksOK ==
  /\ DOMAIN tasks = 1 .. Len(tasks) /\ Len(tasks) \in Nat
  /\ \A i \in 1 .. Len(tasks) : tasks[i].Main \in Table /\ tasks[i].Sub \in Seq(Table)

Watcher == [task : Nat, table : Table, main : BOOLEAN]

\* The watchers of a task, its main table first and then the others.
LEMMA WatchersOf ==
  ASSUME NEW t, t.Main \in Table, t.Sub \in Seq(Table), NEW i \in Nat
  PROVE  /\ watchersOf(t, i) \in Seq(Watcher)
         /\ Len(watchersOf(t, i)) = Len(t.Sub) + 1 /\ Len(t.Sub) \in Nat
         /\ watchersOf(t, i)[1] = [task |-> i, table |-> t.Main, main |-> TRUE]
         /\ \A k \in 1 .. Len(t.Sub) :
              watchersOf(t, i)[1 + k] = [task |-> i, table |-> t.Sub[k], main |-> FALSE]
<1>1. PICK w : w = [task |-> i, table |-> t.Main, main |-> TRUE]
  OBVIOUS
<1>2. PICK q : q = [k \in 1 .. Len(t.Sub) |-> [task |-> i, table |-> t.Sub[k], main |-> FALSE]]
  OBVIOUS
<1>3. w \in Watcher
  BY <1>1 DEF Watcher
<1>4. /\ Len(t.Sub) \in Nat
      /\ \A k \in 1 .. Len(t.Sub) : /\ q[k] = [task |-> i, table |-> t.Sub[k], main |-> FALSE]
                                    /\ q[k] \in Watcher
  BY <1>2 DEF Watcher
<1>5. q \in Seq(Watcher) /\ Len(q) = Len(t.Sub)
  <2>1. q \in [1 .. Len(t.Sub) -> Watcher]
    BY <1>2, <1>4
  <2> HIDE DEF Watcher
  <2> QED
    BY <1>4, <2>1
<1>6. watchersOf(t, i) = <<w>> \o q
  BY <1>1, <1>2 DEF watchersOf
<1>7. <<w>> \in Seq(Watcher) /\ Len(<<w>>) = 1 /\ <<w>>[1] = w
  BY <1>3
<1>8. PICK v : v = <<w>>
  OBVIOUS
<1>9. PICK r : r = v \o q
  OBVIOUS
<1>10. /\ r \in Seq(Watcher) /\ Len(r) = 1 + Len(q)
       /\ \A k \in 1 .. 1 : r[k] = v[k]
       /\ \A k \in 1 .. Len(q) : r[1 + k] = q[k]
  BY <1>5, <1>7, <1>8, <1>9, JoinTwo
<1>11. 1 \in 1 .. 1 /\ 1 + Len(t.Sub) = Len(t.Sub) + 1
  BY <1>4
<1>12. r = watchersOf(t, i)
  BY <1>6, <1>8, <1>9
<1>13. r[1] = w
  BY <1>7, <1>8, <1>10, <1>11
<1> QED
  BY <1>1, <1>4, <1>5, <1>10, <1>11, <1>12, <1>13

\* Where a watcher of the index comes from: the pos[k]-th of the nth[k]-th task.
Indexed(nth, pos) ==
  /\ \A k \in 1 .. Len(index) :
       /\ nth[k] \in 1 .. Len(tasks)
       /\ pos[k] \in 1 .. Len(watchersOf(tasks[nth[k]], nth[k]))
       /\ index[k] = watchersOf(tasks[nth[k]], nth[k])[pos[k]]
  /\ \A k, l \in 1 .. Len(index) :
       k < l => nth[k] < nth[l] \/ (nth[k] = nth[l] /\ pos[k] < pos[l])
  /\ \A i \in 1 .. Len(tasks) : \A j \in 1 .. Len(watchersOf(tasks[i], i)) :
       \E k \in 1 .. Len(index) : nth[k] = i /\ pos[k] = j

LEMMA IndexPlaces ==
  ASSUME TasksOK
  PROVE  index \in Seq(Watcher) /\ \E nth, pos : Indexed(nth, pos)
<1>1. PICK seqs : seqs = [i \in DOMAIN tasks |-> watchersOf(tasks[i], i)]
  OBVIOUS
<1>2. /\ DOMAIN tasks = 1 .. Len(tasks) /\ Len(tasks) \in Nat
      /\ \A i \in 1 .. Len(tasks) :
           seqs[i] = watchersOf(tasks[i], i) /\ seqs[i] \in Seq(Watcher)
  <2>1. DOMAIN tasks = 1 .. Len(tasks) /\ Len(tasks) \in Nat
    BY DEF TasksOK
  <2>2. ASSUME NEW i \in 1 .. Len(tasks)
        PROVE  seqs[i] = watchersOf(tasks[i], i) /\ seqs[i] \in Seq(Watcher)
    <3>1. tasks[i].Main \in Table /\ tasks[i].Sub \in Seq(Table) /\ i \in Nat
      BY DEF TasksOK
    <3>2. seqs[i] = watchersOf(tasks[i], i)
      BY <1>1, <2>1
    <3>3. watchersOf(tasks[i], i) \in Seq(Watcher)
      BY <3>1, WatchersOf
    <3> QED
      BY <3>2, <3>3
  <2> QED
    BY <2>1, <2>2
<1>3. seqs \in Seq(Seq(Watcher)) /\ Len(seqs) = Len(tasks)
  <2>1. seqs \in [1 .. Len(tasks) -> Seq(Watcher)]
    BY <1>1, <1>2
  <2> QED
    BY <1>2, <2>1
<1>4. index = FlattenSeq(seqs)
  BY <1>1 DEF index
<1>5. index \in Seq(Watcher)
  BY <1>3, <1>4, FlattenIsSeq
<1>6. PICK nth, pos : Places(index, seqs, Len(tasks), nth, pos)
  BY <1>3, <1>4, FlattenPlaces
<1>7. ASSUME NEW k \in 1 .. Len(index)
      PROVE  /\ nth[k] \in 1 .. Len(tasks)
             /\ pos[k] \in 1 .. Len(watchersOf(tasks[nth[k]], nth[k]))
             /\ index[k] = watchersOf(tasks[nth[k]], nth[k])[pos[k]]
  <2>1. /\ nth[k] \in 1 .. Len(tasks) /\ pos[k] \in 1 .. Len(seqs[nth[k]])
        /\ index[k] = seqs[nth[k]][pos[k]]
    BY <1>6 DEF Places
  <2>2. seqs[nth[k]] = watchersOf(tasks[nth[k]], nth[k])
    BY <1>2, <2>1
  <2> QED
    BY <2>1, <2>2
<1>8. ASSUME NEW i \in 1 .. Len(tasks), NEW j \in 1 .. Len(watchersOf(tasks[i], i))
      PROVE  \E k \in 1 .. Len(index) : nth[k] = i /\ pos[k] = j
  <2>1. seqs[i] = watchersOf(tasks[i], i)
    BY <1>2
  <2>2. j \in 1 .. Len(seqs[i])
    BY <2>1
  <2> QED
    BY <1>6, <2>2 DEF Places
<1>9. \A k, l \in 1 .. Len(index) :
        k < l => nth[k] < nth[l] \/ (nth[k] = nth[l] /\ pos[k] < pos[l])
  BY <1>6 DEF Places
<1>10. Indexed(nth, pos)
  BY <1>7, <1>8, <1>9 DEF Indexed
<1> QED
  BY <1>5, <1>10

\* The fields of a watcher.
LEMMA Fields ==
  ASSUME NEW i, NEW d, NEW m, NEW w, w = [task |-> i, table |-> d, main |-> m]
  PROVE  w.task = i /\ w.table = d /\ w.main = m
  OBVIOUS

\* A watcher of a valid task: its table is declared by the task, has names
\* without dots, and names the column the watcher reads.
LEMMA WatcherIsFor ==
  ASSUME NEW t, t.Main \in Table, t.Sub \in Seq(Table), validTask(t), NEW i \in Nat,
         NEW j \in 1 .. Len(watchersOf(t, i))
  PROVE  LET w == watchersOf(t, i)[j]
         IN  /\ w.task = i /\ w.table \in Tables(t) /\ w.table \in Table
             /\ ~HasDot(w.table.Database) /\ ~HasDot(w.table.Name)
             /\ keyColumn(w) \in Columns
             /\ \A k \in 1 .. Len(watchersOf(t, i)) :
                  keyOf(watchersOf(t, i)[k]) = keyOf(w) => k = j
<1>1. /\ Len(watchersOf(t, i)) = Len(t.Sub) + 1 /\ Len(t.Sub) \in Nat
      /\ Len(watchersOf(t, 1)) = Len(t.Sub) + 1 /\ watchersOf(t, 1) \in Seq(Watcher)
      /\ watchersOf(t, i) \in Seq(Watcher)
  BY WatchersOf
<1>2. ASSUME NEW k \in 1 .. Len(t.Sub) + 1
      PROVE  LET w == watchersOf(t, i)[k]
                 v == watchersOf(t, 1)[k]
             IN  /\ w.task = i /\ w.table = v.table /\ w.main = v.main
                 /\ w.table \in Tables(t)
  <2>1. CASE k = 1
    <3>1. /\ watchersOf(t, i)[1] = [task |-> i, table |-> t.Main, main |-> TRUE]
          /\ watchersOf(t, 1)[1] = [task |-> 1, table |-> t.Main, main |-> TRUE]
      BY WatchersOf
    <3>2. t.Main \in Tables(t)
      BY DEF Tables
    <3>3. /\ watchersOf(t, i)[1].task = i /\ watchersOf(t, i)[1].table = t.Main
          /\ watchersOf(t, 1)[1].table = t.Main
      BY <3>1, Fields
    <3>4. watchersOf(t, i)[1].main = TRUE /\ watchersOf(t, 1)[1].main = TRUE
      BY <3>1, Fields
    <3> QED
      BY <2>1, <3>2, <3>3, <3>4, Zenon
  <2>2. CASE k # 1
    <3>1. PICK m \in 1 .. Len(t.Sub) : k = 1 + m
      <4>1. k - 1 \in 1 .. Len(t.Sub) /\ k = 1 + (k - 1)
        BY <1>1, <2>2
      <4> QED
        BY <4>1
    <3>2. /\ watchersOf(t, i)[1 + m] = [task |-> i, table |-> t.Sub[m], main |-> FALSE]
          /\ watchersOf(t, 1)[1 + m] = [task |-> 1, table |-> t.Sub[m], main |-> FALSE]
      BY WatchersOf
    <3>3. t.Sub[m] \in Tables(t)
      <4>1. m \in DOMAIN t.Sub
        OBVIOUS
      <4> QED
        BY <4>1 DEF Tables, ToSet
    <3>4. /\ watchersOf(t, i)[1 + m].task = i /\ watchersOf(t, i)[1 + m].table = t.Sub[m]
          /\ watchersOf(t, 1)[1 + m].table = t.Sub[m]
          /\ watchersOf(t, i)[1 + m].main = FALSE /\ watchersOf(t, 1)[1 + m].main = FALSE
      BY <3>2, Fields
    <3> QED
      BY <3>1, <3>3, <3>4, Zenon
  <2> QED
    BY <2>1, <2>2
<1>3. DOMAIN watchersOf(t, 1) = 1 .. Len(t.Sub) + 1
  BY <1>1
<1>4. /\ \A k \in 1 .. Len(t.Sub) + 1 :
           validTable(watchersOf(t, 1)[k].table, watchersOf(t, 1)[k].main)
      /\ \A k, l \in 1 .. Len(t.Sub) + 1 :
           k # l => keyOf(watchersOf(t, 1)[k]) # keyOf(watchersOf(t, 1)[l])
  BY <1>3 DEF validTask
<1>5. PICK w : w = watchersOf(t, i)[j]
  OBVIOUS
<1>6. w \in Watcher /\ w.table \in Table /\ w.main \in BOOLEAN
  <2>1. w \in Watcher
    BY <1>1, <1>5
  <2> QED
    BY <2>1 DEF Watcher
<1>7. validTable(w.table, w.main) /\ w.task = i /\ w.table \in Tables(t)
  BY <1>1, <1>2, <1>4, <1>5
<1>8. ~HasDot(w.table.Database) /\ ~HasDot(w.table.Name)
  BY <1>7 DEF validTable
<1>9. keyColumn(w) \in Columns
  BY <1>6, <1>7 DEF validTable, keyColumn, Table
<1>10. \A k \in 1 .. Len(t.Sub) + 1 :
         keyOf(watchersOf(t, i)[k]) = keyOf(watchersOf(t, 1)[k])
  BY <1>2 DEF keyOf
<1>11. \A k \in 1 .. Len(watchersOf(t, i)) :
         keyOf(watchersOf(t, i)[k]) = keyOf(watchersOf(t, i)[j]) => k = j
  BY <1>1, <1>4, <1>10
<1> QED
  BY <1>5, <1>6, <1>7, <1>8, <1>9, <1>11

\* Every table a task declares has a watcher.
LEMMA TableHasWatcher ==
  ASSUME NEW t, t.Main \in Table, t.Sub \in Seq(Table), NEW i \in Nat, NEW d \in Tables(t)
  PROVE  \E j \in 1 .. Len(watchersOf(t, i)) : watchersOf(t, i)[j].table = d
<1>1. /\ Len(watchersOf(t, i)) = Len(t.Sub) + 1 /\ Len(t.Sub) \in Nat
      /\ watchersOf(t, i)[1] = [task |-> i, table |-> t.Main, main |-> TRUE]
      /\ \A k \in 1 .. Len(t.Sub) :
           watchersOf(t, i)[1 + k] = [task |-> i, table |-> t.Sub[k], main |-> FALSE]
  BY WatchersOf
<1>2. CASE d = t.Main
  <2>1. 1 \in 1 .. Len(watchersOf(t, i))
    BY <1>1
  <2> QED
    BY <1>1, <1>2, <2>1
<1>3. CASE d # t.Main
  <2>1. PICK k \in 1 .. Len(t.Sub) : d = t.Sub[k]
    BY <1>3 DEF Tables, ToSet
  <2>2. 1 + k \in 1 .. Len(watchersOf(t, i))
    BY <1>1
  <2>3. watchersOf(t, i)[1 + k].table = d
    <3>1. watchersOf(t, i)[1 + k] = [task |-> i, table |-> t.Sub[k], main |-> FALSE]
      BY <1>1
    <3> QED
      BY <2>1, <3>1, Fields
  <2> QED
    BY <2>2, <2>3
<1> QED
  BY <1>2, <1>3

\* What the index has at one of its places.
LEMMA IndexedIs ==
  ASSUME TasksOK, ~rejected, NEW nth, NEW pos, Indexed(nth, pos), NEW h \in 1 .. Len(index)
  PROVE  /\ nth[h] \in 1 .. Len(tasks) /\ index[h].task = nth[h]
         /\ pos[h] \in 1 .. Len(watchersOf(tasks[nth[h]], nth[h]))
         /\ index[h] = watchersOf(tasks[nth[h]], nth[h])[pos[h]]
         /\ index[h].table \in Tables(tasks[nth[h]]) /\ index[h].table \in Table
         /\ ~HasDot(index[h].table.Database) /\ ~HasDot(index[h].table.Name)
         /\ \A k \in 1 .. Len(watchersOf(tasks[nth[h]], nth[h])) :
              keyOf(watchersOf(tasks[nth[h]], nth[h])[k]) = keyOf(index[h]) => k = pos[h]
<1>1. /\ nth[h] \in 1 .. Len(tasks)
      /\ pos[h] \in 1 .. Len(watchersOf(tasks[nth[h]], nth[h]))
      /\ index[h] = watchersOf(tasks[nth[h]], nth[h])[pos[h]]
  BY DEF Indexed
<1>2. /\ tasks[nth[h]].Main \in Table /\ tasks[nth[h]].Sub \in Seq(Table)
      /\ validTask(tasks[nth[h]]) /\ nth[h] \in Nat
  BY <1>1 DEF TasksOK, rejected
<1> QED
  BY <1>1, <1>2, WatcherIsFor

\* A table whose names have no dots shares its key with no other.
LEMMA OneTable ==
  ASSUME NEW d \in Table, ~HasDot(d.Database), ~HasDot(d.Name),
         NEW database \in Names, NEW name \in Names,
         tableKeyOf(d.Database, d.Name) = tableKeyOf(database, name)
  PROVE  d.Database = database /\ d.Name = name
<1>1. d.Database \in Names /\ d.Name \in Names
  BY DEF Table
<1>2. Dot \in Letters
  BY DEF Letters
<1> QED
  BY <1>1, <1>2, NamesTypes, KeysCorrect

\* A change goes to the tasks that declared its table, once each and in order.
LEMMA Routes ==
  ASSUME TasksOK, ~rejected, NEW database \in Names, NEW name \in Names
  PROVE  LET to == RoutedTo(database, name)
         IN  /\ ToSet(to) = {i \in DOMAIN tasks : IsFor(tasks[i], database, name)}
             /\ \A k, l \in DOMAIN to : k < l => to[k] < to[l]
<1>1. PICK key : key = tableKeyOf(database, name)
  OBVIOUS
<1>2. /\ DOMAIN tasks = 1 .. Len(tasks) /\ Len(tasks) \in Nat
      /\ \A i \in 1 .. Len(tasks) :
           /\ tasks[i].Main \in Table /\ tasks[i].Sub \in Seq(Table)
           /\ validTask(tasks[i]) /\ i \in Nat
  BY DEF TasksOK, rejected
<1>3. index \in Seq(Watcher)
  BY IndexPlaces
<1>4. PICK nth, pos : Indexed(nth, pos)
  BY IndexPlaces
<1>5. PICK ws : ws = of(index, key)
  OBVIOUS
<1>6. ws \in Seq(Watcher)
  BY <1>3, <1>5, OfSelects
<1>7. PICK from : Selects(ws, index, key, from)
  BY <1>3, <1>5, OfSelects
<1>8. PICK to : to = RoutedTo(database, name)
  OBVIOUS
<1>9. DOMAIN to = 1 .. Len(ws) /\ \A k \in 1 .. Len(ws) : to[k] = ws[k].task
  BY <1>1, <1>5, <1>6, <1>8 DEF RoutedTo
<1>10. ASSUME NEW h \in 1 .. Len(index)
       PROVE  /\ nth[h] \in 1 .. Len(tasks) /\ index[h].task = nth[h]
              /\ pos[h] \in 1 .. Len(watchersOf(tasks[nth[h]], nth[h]))
              /\ index[h] = watchersOf(tasks[nth[h]], nth[h])[pos[h]]
              /\ index[h].table \in Tables(tasks[nth[h]]) /\ index[h].table \in Table
              /\ ~HasDot(index[h].table.Database) /\ ~HasDot(index[h].table.Name)
              /\ \A k \in 1 .. Len(watchersOf(tasks[nth[h]], nth[h])) :
                   keyOf(watchersOf(tasks[nth[h]], nth[h])[k]) = keyOf(index[h]) => k = pos[h]
  BY <1>4, IndexedIs
<1>11. ASSUME NEW k \in DOMAIN to, NEW l \in DOMAIN to, k < l PROVE to[k] < to[l]
  <2>1. /\ from[k] \in 1 .. Len(index) /\ from[l] \in 1 .. Len(index) /\ from[k] < from[l]
        /\ keyOf(index[from[k]]) = key /\ keyOf(index[from[l]]) = key
        /\ to[k] = index[from[k]].task /\ to[l] = index[from[l]].task
    BY <1>7, <1>9, <1>11 DEF Selects
  <2>2. PICK a \in 1 .. Len(index) : a = from[k]
    BY <2>1
  <2>3. PICK b \in 1 .. Len(index) : b = from[l]
    BY <2>1
  <2>4. nth[a] < nth[b] \/ (nth[a] = nth[b] /\ pos[a] < pos[b])
    BY <1>4, <2>1, <2>2, <2>3 DEF Indexed
  <2>5. to[k] = nth[a] /\ to[l] = nth[b]
    BY <1>10, <2>1, <2>2, <2>3
  <2>6. nth[a] = nth[b] => pos[a] = pos[b]
    <3> SUFFICES ASSUME nth[a] = nth[b] PROVE pos[a] = pos[b]
      OBVIOUS
    <3>1. PICK q : q = watchersOf(tasks[nth[b]], nth[b])
      OBVIOUS
    <3>2. /\ pos[a] \in 1 .. Len(q) /\ index[a] = q[pos[a]] /\ index[b] = q[pos[b]]
          /\ \A k2 \in 1 .. Len(q) : keyOf(q[k2]) = keyOf(index[b]) => k2 = pos[b]
      BY <1>10, <3>1
    <3>3. keyOf(index[a]) = keyOf(index[b])
      BY <2>1, <2>2, <2>3
    <3> QED
      BY <3>2, <3>3
  <2>7. \A b2 \in 1 .. Len(index) : pos[b2] \in Nat
    <3>1. \A n : \A p \in 1 .. n : p \in Int
      OBVIOUS
    <3>2. \A n \in Nat : \A p \in 1 .. n : p \in Nat
      OBVIOUS
    <3> SUFFICES ASSUME NEW b2 \in 1 .. Len(index) PROVE pos[b2] \in Nat
      OBVIOUS
    <3>3. Len(watchersOf(tasks[nth[b2]], nth[b2])) \in Nat
      BY <1>2, <1>10, WatchersOf
    <3> QED
      BY <1>10, <3>2, <3>3
  <2>8. ~(pos[a] < pos[a])
    BY <2>7
  <2> QED
    BY <2>4, <2>5, <2>6, <2>8
<1>12. ASSUME NEW k \in DOMAIN to
       PROVE  to[k] \in DOMAIN tasks /\ IsFor(tasks[to[k]], database, name)
  <2>1. /\ from[k] \in 1 .. Len(index) /\ keyOf(index[from[k]]) = key
        /\ to[k] = index[from[k]].task
    BY <1>7, <1>9 DEF Selects
  <2>2. PICK d : d = index[from[k]].table
    OBVIOUS
  <2>3. /\ to[k] \in 1 .. Len(tasks) /\ d \in Tables(tasks[to[k]]) /\ d \in Table
        /\ ~HasDot(d.Database) /\ ~HasDot(d.Name)
    BY <1>10, <2>1, <2>2
  <2>4. tableKeyOf(d.Database, d.Name) = tableKeyOf(database, name)
    BY <1>1, <2>1, <2>2 DEF keyOf
  <2>5. d.Database = database /\ d.Name = name
    BY <2>3, <2>4, OneTable
  <2> QED
    BY <1>2, <2>3, <2>5 DEF IsFor
<1>13. ASSUME NEW i \in DOMAIN tasks, IsFor(tasks[i], database, name)
       PROVE  \E k \in DOMAIN to : to[k] = i
  <2>1. PICK d \in Tables(tasks[i]) : d.Database = database /\ d.Name = name
    BY <1>13 DEF IsFor
  <2>2. PICK j \in 1 .. Len(watchersOf(tasks[i], i)) : watchersOf(tasks[i], i)[j].table = d
    BY <1>2, TableHasWatcher
  <2>3. PICK h \in 1 .. Len(index) : nth[h] = i /\ pos[h] = j
    <3>1. i \in 1 .. Len(tasks)
      BY <1>2
    <3> QED
      BY <1>4, <3>1 DEF Indexed
  <2>4. index[h].table = d /\ index[h].task = i
    BY <1>10, <2>2, <2>3
  <2>5. keyOf(index[h]) = key
    BY <1>1, <2>1, <2>4 DEF keyOf
  <2>6. PICK k \in 1 .. Len(ws) : from[k] = h
    BY <1>7, <2>5 DEF Selects
  <2> QED
    BY <1>7, <1>9, <2>4, <2>6 DEF Selects
<1>14. ToSet(to) = {i \in DOMAIN tasks : IsFor(tasks[i], database, name)}
  BY <1>12, <1>13 DEF ToSet
<1> QED
  BY <1>8, <1>11, <1>14

\* A watcher finds the row of the main table in a change with all columns.
LEMMA ReadsARow ==
  ASSUME TasksOK, ~rejected, NEW w \in ToSet(index)
  PROVE  mainPkVal(w, [c \in Columns |-> Value("float", 1)]) # {}
<1>1. PICK nth, pos : Indexed(nth, pos)
  BY IndexPlaces
<1>2. index \in Seq(Watcher)
  BY IndexPlaces
<1>3. PICK h \in 1 .. Len(index) : w = index[h]
  BY <1>2 DEF ToSet
<1>4. /\ nth[h] \in 1 .. Len(tasks)
      /\ pos[h] \in 1 .. Len(watchersOf(tasks[nth[h]], nth[h]))
      /\ w = watchersOf(tasks[nth[h]], nth[h])[pos[h]]
  BY <1>1, <1>3 DEF Indexed
<1>5. /\ tasks[nth[h]].Main \in Table /\ tasks[nth[h]].Sub \in Seq(Table)
      /\ validTask(tasks[nth[h]]) /\ nth[h] \in Nat
  BY <1>4 DEF TasksOK, rejected
<1>6. keyColumn(w) \in Columns
  BY <1>4, <1>5, WatcherIsFor
<1>7. PICK data : data = [c \in Columns |-> Value("float", 1)]
  OBVIOUS
<1>8. keyColumn(w) \in DOMAIN data /\ data[keyColumn(w)].go = "float"
  BY <1>6, <1>7 DEF Value
<1>9. data[keyColumn(w)] \in mainPkVal(w, data)
  BY <1>8 DEF mainPkVal
<1> QED
  BY <1>7, <1>9

\* A watcher of a task reads the column the task declares for its table, and
\* every declaration has a watcher.
LEMMA WatcherDeclares ==
  ASSUME NEW t, t.Main \in Table, t.Sub \in Seq(Table), NEW i \in Nat
  PROVE  /\ \A j \in 1 .. Len(watchersOf(t, i)) :
              LET w == watchersOf(t, i)[j]
              IN  <<w.table, keyColumn(w)>> \in Declared(t)
         /\ \A d \in Declared(t) : \E j \in 1 .. Len(watchersOf(t, i)) :
              LET w == watchersOf(t, i)[j]
              IN  w.task = i /\ w.table = d[1] /\ keyColumn(w) = d[2]
<1>1. /\ Len(watchersOf(t, i)) = Len(t.Sub) + 1 /\ Len(t.Sub) \in Nat
      /\ watchersOf(t, i)[1] = [task |-> i, table |-> t.Main, main |-> TRUE]
      /\ \A k \in 1 .. Len(t.Sub) :
           watchersOf(t, i)[1 + k] = [task |-> i, table |-> t.Sub[k], main |-> FALSE]
  BY WatchersOf
<1>2. LET w == watchersOf(t, i)[1]
      IN  w.task = i /\ w.table = t.Main /\ keyColumn(w) = t.Main.PrimaryKey
  <2>1. PICK w : w = watchersOf(t, i)[1]
    OBVIOUS
  <2>2. w.task = i /\ w.table = t.Main /\ w.main = TRUE
    BY <1>1, <2>1, Fields
  <2> QED
    BY <2>1, <2>2 DEF keyColumn
<1>3. ASSUME NEW k \in 1 .. Len(t.Sub)
      PROVE  LET w == watchersOf(t, i)[1 + k]
             IN  w.task = i /\ w.table = t.Sub[k] /\ keyColumn(w) = t.Sub[k].RefColumn
  <2>1. PICK w : w = watchersOf(t, i)[1 + k]
    OBVIOUS
  <2>2. w = [task |-> i, table |-> t.Sub[k], main |-> FALSE]
    BY <1>1, <2>1
  <2>3. w.task = i /\ w.table = t.Sub[k] /\ w.main = FALSE
    BY <2>2, Fields
  <2> QED
    BY <2>1, <2>3 DEF keyColumn
<1>4. Declared(t) = {<<t.Main, t.Main.PrimaryKey>>}
                      \cup {<<t.Sub[k], t.Sub[k].RefColumn>> : k \in 1 .. Len(t.Sub)}
  <2>1. ToSet(t.Sub) = {t.Sub[k] : k \in 1 .. Len(t.Sub)}
    BY DEF ToSet
  <2> QED
    BY <2>1, Zenon DEF Declared
<1>5. ASSUME NEW j \in 1 .. Len(watchersOf(t, i))
      PROVE  LET w == watchersOf(t, i)[j]
             IN  <<w.table, keyColumn(w)>> \in Declared(t)
  <2>1. j = 1 \/ \E k \in 1 .. Len(t.Sub) : j = 1 + k
    <3>1. j # 1 => j - 1 \in 1 .. Len(t.Sub) /\ j = 1 + (j - 1)
      BY <1>1
    <3> QED
      BY <3>1
  <2>2. CASE j = 1
    BY <1>2, <1>4, <2>2
  <2>3. CASE \E k \in 1 .. Len(t.Sub) : j = 1 + k
    BY <1>3, <1>4, <2>3
  <2> QED
    BY <2>1, <2>2, <2>3
<1>6. ASSUME NEW d \in Declared(t)
      PROVE  \E j \in 1 .. Len(watchersOf(t, i)) :
               LET w == watchersOf(t, i)[j]
               IN  w.task = i /\ w.table = d[1] /\ keyColumn(w) = d[2]
  <2>1. 1 \in 1 .. Len(watchersOf(t, i)) /\ \A k \in 1 .. Len(t.Sub) : 1 + k \in 1 .. Len(watchersOf(t, i))
    BY <1>1
  <2>2. CASE d = <<t.Main, t.Main.PrimaryKey>>
    BY <1>2, <2>1, <2>2
  <2>3. CASE \E k \in 1 .. Len(t.Sub) : d = <<t.Sub[k], t.Sub[k].RefColumn>>
    BY <1>3, <2>1, <2>3
  <2> QED
    BY <1>4, <2>2, <2>3
<1> QED
  BY <1>5, <1>6

\* A watcher finds a row in an event when its column holds a key.
LEMMA FindsKey ==
  ASSUME NEW w, NEW data
  PROVE  mainPkVal(w, data) # {} <=>
           keyColumn(w) \in DOMAIN data /\ NamesRow(data[keyColumn(w)])
<1>1. PICK name : name = keyColumn(w)
  OBVIOUS
<1>2. mainPkVal(w, data) = {data[c] : c \in {c \in {name} \cap DOMAIN data : NamesRow(data[c])}}
  BY <1>1, Zenon DEF mainPkVal, NamesRow
<1> QED
  BY <1>1, <1>2

\* The tasks that find their row in an event are those it is meant for.
LEMMA KeyedIsMeant ==
  ASSUME TasksOK, ~rejected, watched = index, NEW e,
         published[e].database \in Names, published[e].table \in Names, NEW t \in Tasks
  PROVE  t \in keyed(e) <=> MeantFor(tasks[t], published[e])
<1>1. PICK event : event = published[e]
  OBVIOUS
<1>2. PICK key : key = tableKeyOf(event.database, event.table)
  OBVIOUS
<1>3. PICK ws : ws = of(index, key)
  OBVIOUS
<1>4. index \in Seq(Watcher)
  BY IndexPlaces
<1>5. PICK nth, pos : Indexed(nth, pos)
  BY IndexPlaces
<1>6. ws \in Seq(Watcher)
  BY <1>3, <1>4, OfSelects
<1>7. PICK from : Selects(ws, index, key, from)
  BY <1>3, <1>4, OfSelects
<1>8. t \in keyed(e) <=>
        \E k \in 1 .. Len(ws) : /\ ws[k].task = t
                                /\ keyColumn(ws[k]) \in DOMAIN event.data
                                /\ NamesRow(event.data[keyColumn(ws[k])])
  <2>1. watchersFor(e) = ws
    BY <1>1, <1>2, <1>3 DEF watchersFor
  <2>2. DOMAIN ws = 1 .. Len(ws)
    BY <1>6
  <2>3. t \in keyed(e) <=> \E k \in DOMAIN ws : ws[k].task = t /\ mainPkVal(ws[k], event.data) # {}
    BY <1>1, <2>1 DEF keyed
  <2> QED
    BY <2>2, <2>3, FindsKey
<1>9. MeantFor(tasks[t], event) <=>
        \E d \in Declared(tasks[t]) :
          /\ d[1].Database = event.database /\ d[1].Name = event.table
          /\ d[2] \in DOMAIN event.data /\ NamesRow(event.data[d[2]])
  BY Zenon DEF MeantFor, NamesRow
<1>10. /\ t \in 1 .. Len(tasks) /\ t \in Nat
       /\ tasks[t].Main \in Table /\ tasks[t].Sub \in Seq(Table)
  BY DEF Tasks, TasksOK
<1>11. ASSUME NEW k \in 1 .. Len(ws), ws[k].task = t,
              keyColumn(ws[k]) \in DOMAIN event.data, NamesRow(event.data[keyColumn(ws[k])])
       PROVE  MeantFor(tasks[t], event)
  <2>1. PICK h \in 1 .. Len(index) : h = from[k] /\ ws[k] = index[h] /\ keyOf(index[h]) = key
    BY <1>7 DEF Selects
  <2>2. /\ nth[h] = t /\ index[h].table \in Table
        /\ pos[h] \in 1 .. Len(watchersOf(tasks[t], t))
        /\ index[h] = watchersOf(tasks[t], t)[pos[h]]
        /\ ~HasDot(index[h].table.Database) /\ ~HasDot(index[h].table.Name)
    <3>1. /\ index[h].task = nth[h] /\ index[h].table \in Table
          /\ pos[h] \in 1 .. Len(watchersOf(tasks[nth[h]], nth[h]))
          /\ index[h] = watchersOf(tasks[nth[h]], nth[h])[pos[h]]
          /\ ~HasDot(index[h].table.Database) /\ ~HasDot(index[h].table.Name)
      BY <1>5, <2>1, IndexedIs
    <3>2. nth[h] = t
      BY <1>11, <2>1, <3>1
    <3> QED
      BY <3>1, <3>2
  <2>3. <<index[h].table, keyColumn(index[h])>> \in Declared(tasks[t])
    BY <1>10, <2>2, WatcherDeclares
  <2>4. index[h].table.Database = event.database /\ index[h].table.Name = event.table
    BY <1>1, <1>2, <2>1, <2>2, OneTable DEF keyOf
  <2> QED
    BY <1>9, <1>11, <2>1, <2>3, <2>4
<1>12. ASSUME NEW d \in Declared(tasks[t]), d[1].Database = event.database, d[1].Name = event.table
       PROVE  \E k \in 1 .. Len(ws) : ws[k].task = t /\ keyColumn(ws[k]) = d[2]
  <2>1. PICK j \in 1 .. Len(watchersOf(tasks[t], t)) :
          LET w == watchersOf(tasks[t], t)[j]
          IN  w.task = t /\ w.table = d[1] /\ keyColumn(w) = d[2]
    BY <1>10, WatcherDeclares
  <2>2. PICK h \in 1 .. Len(index) : nth[h] = t /\ pos[h] = j
    BY <1>5, <1>10 DEF Indexed
  <2>3. index[h] = watchersOf(tasks[t], t)[j]
    BY <1>5, <2>2 DEF Indexed
  <2>4. keyOf(index[h]) = key
    BY <1>2, <1>12, <2>1, <2>3 DEF keyOf
  <2>5. PICK k \in 1 .. Len(ws) : from[k] = h
    BY <1>7, <2>4 DEF Selects
  <2> QED
    BY <1>7, <2>1, <2>3, <2>5 DEF Selects
<1> QED
  BY <1>1, <1>8, <1>9, <1>11, <1>12

\* What the configuration is, and what was made of it.
ConfigOK ==
  /\ TasksOK
  /\ \A e \in Events : published[e].database \in Names /\ published[e].table \in Names
  /\ built = "runner" => watched = index /\ ~rejected

LEMMA ConfigStays == Spec => []ConfigOK
<1>1. Init => ConfigOK
  <2> SUFFICES ASSUME NEW cf \in Configurations, tasks = cf.tasks,
                      published = EventsOf(cf.changes), built = "none"
               PROVE  ConfigOK
    BY DEF Init
  <2>1. cf.tasks \in Seq(ToSet(cf.tasks))
    BY RunnerAssumption DEF RunnerAssumption
  <2>2. \A i \in DOMAIN cf.tasks : cf.tasks[i].Main \in Table /\ cf.tasks[i].Sub \in Seq(Table)
    BY RunnerAssumption DEF RunnerAssumption
  <2>3. PICK T : T = ToSet(cf.tasks)
    OBVIOUS
  <2>4. DOMAIN tasks = 1 .. Len(tasks) /\ Len(tasks) \in Nat
    BY <2>1, <2>3
  <2>5. TasksOK
    BY <2>2, <2>4 DEF TasksOK
  <2> QED
    BY <2>5, PublishedIsSeq DEF ConfigOK, Events
<1>2. ConfigOK /\ [Next]_vars => ConfigOK'
  <2> SUFFICES ASSUME ConfigOK, [Next]_vars PROVE ConfigOK'
    OBVIOUS
  <2>1. CASE UNCHANGED config
    BY <2>1 DEF ConfigOK, TasksOK, Events, config, index, rejected
  <2>2. CASE NewRunner
    <3>1. /\ UNCHANGED <<tasks, published>>
          /\ built' = "runner" => ~rejected /\ watched' = index
      BY <2>2 DEF NewRunner
    <3> QED
      BY <3>1 DEF ConfigOK, TasksOK, Events, index, rejected
  <2> QED
    BY <2>1, <2>2 DEF Next, vars, Run, RunByPrimaryKey, RunByTimeRange, RunTable, ConsumeReturns,
           ReadingFails, Handle, HandleReturns, AskedReturns, Cancel, TaskReturns, Close, Resting
<1> QED
  BY <1>1, <1>2, PTL DEF Spec

\* A change reaches exactly the tasks that declared its table, each of them once
\* and in the order of the configuration, and names the row for each of them,
\* for any tasks and any names: the index and its lookup by the joined key.
THEOREM RoutedCorrect == Spec => []RoutedExactly
<1>1. ConfigOK => RoutedExactly
  BY Routes, ReadsARow DEF ConfigOK, RoutedExactly
<1> QED
  BY <1>1, ConfigStays, PTL

\* An event that is let go of went through every task whose author means it to
\* run for it, and a task ran for no other event, whatever failed, was canceled
\* or ran at the same time: what NewRunner made of the declarations, the lookup
\* by the joined key, the column it reads and the wait for all tasks together.
THEOREM SettledCorrect == Spec => []SettledForEveryTask
<1>1. IInv /\ ConfigOK => SettledForEveryTask
  <2> SUFFICES ASSUME IInv, ConfigOK PROVE SettledForEveryTask
    OBVIOUS
  <2>1. CASE built # "runner"
    BY <2>1 DEF IInv, SettledForEveryTask
  <2>2. CASE built = "runner"
    <3>1. \A e \in Events : \A t \in Tasks : t \in keyed(e) <=> MeantFor(tasks[t], published[e])
      BY <2>2, KeyedIsMeant DEF ConfigOK
    <3>2. settled \subseteq Events /\ succeeded \subseteq Events \X Tasks /\ SettledKeyed
      BY DEF IInv, TypeOK
    <3>3. \A e \in settled : \A t \in Tasks :
            MeantFor(tasks[t], published[e]) => <<e, t>> \in succeeded
      BY <3>1, <3>2 DEF SettledKeyed
    <3>4. \A p \in succeeded : MeantFor(tasks[p[2]], published[p[1]])
      BY <3>1, <3>2 DEF SettledKeyed
    <3> QED
      BY <3>3, <3>4 DEF SettledForEveryTask
  <2> QED
    BY <2>1, <2>2
<1> QED
  BY <1>1, Invariance, ConfigStays, PTL

==============================================================================
