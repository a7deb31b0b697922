---------------------------- MODULE Cost_proofs ----------------------------
(***************************************************************************)
(* RunningHours is right for a log of any length: the proof is by          *)
(* induction over the events, which are a recursive function's argument.   *)
(*                                                                         *)
(* The induction theorems of the library take a predicate as a parameter.  *)
(* Induction below takes a set instead, and rests on the fact that every   *)
(* set of natural numbers has a least element.  From it follow that the    *)
(* two recursive functions of Cost exist and that one more row means one   *)
(* more turn of the loop.                                                  *)
(***************************************************************************)
EXTENDS Cost, Integers, WellFoundedInduction, SequenceTheorems, TLAPS

-----------------------------------------------------------------------------
(* Induction and recursion *)

(* A set of natural numbers that is not empty has a least element. *)
LEMMA LeastNumber ==
  ASSUME NEW S, S \subseteq Nat, S # {}
  PROVE  \E x \in S : \A y \in S : x <= y
<1> DEFINE R == {ss \in Nat \X Nat : ss[1] < ss[2]}
<1>1. IsWellFoundedOn(R, Nat)
  BY NatLessThanWellFounded DEF OpToRel
<1>2. \E x \in S : \A y \in S : ~(<<y, x>> \in R)
  <2> HIDE DEF R
  <2>. QED BY <1>1, WFMin
<1>3. PICK x \in S : \A y \in S : ~(<<y, x>> \in R)
  BY <1>2
<1>4. \A y \in S : ~(y < x)
  BY <1>3
<1>. QED BY <1>4

(* A set that has 0 and, with every number below n, the next has them all. *)
LEMMA Induction ==
  ASSUME NEW n \in Nat, NEW S, 0 \in S, \A i \in 1 .. n : i - 1 \in S => i \in S
  PROVE  \A i \in 0 .. n : i \in S
<1> DEFINE B == {i \in 0 .. n : i \notin S}
<1> SUFFICES ASSUME B # {} PROVE FALSE
  OBVIOUS
<1>1. PICK x \in B : \A y \in B : x <= y
  <2>1. B \subseteq Nat
    OBVIOUS
  <2> HIDE DEF B
  <2>. QED BY <2>1, LeastNumber
<1>2. x \in 1 .. n /\ x - 1 \in 0 .. n
  OBVIOUS
<1>3. x - 1 \in S
  BY <1>1, <1>2
<1>. QED BY <1>2, <1>3

(* f is computed from c in n turns, of which D[i] is the i-th. *)
Computed(f, c, D, n) == f[0] = c /\ \A i \in 1 .. n : f[i] = D[i][f[i - 1]]

(* What is computed in n turns exists. *)
LEMMA Recursion ==
  ASSUME NEW n \in Nat, NEW V, NEW c \in V, NEW D \in [1 .. n -> [V -> V]]
  PROVE  \E f \in [0 .. n -> V] : Computed(f, c, D, n)
<1> DEFINE Turns(f, m) == f[0] = c /\ \A i \in 1 .. m : f[i] = D[i][f[i - 1]]
           S == {m \in 0 .. n : \E f \in [0 .. m -> V] : Turns(f, m)}
<1>1. 0 \in S
  <2> DEFINE z == [i \in 0 .. 0 |-> c]
  <2>1. z \in [0 .. 0 -> V] /\ z[0] = c
    OBVIOUS
  <2> HIDE DEF z
  <2>2. Turns(z, 0)
    BY <2>1
  <2>3. \E f \in [0 .. 0 -> V] : Turns(f, 0)
    BY <2>1, <2>2
  <2> HIDE DEF Turns
  <2>. QED BY <2>3
<1>2. ASSUME NEW m \in 1 .. n, m - 1 \in S
      PROVE  m \in S
  <2>1. PICK f \in [0 .. m - 1 -> V] : Turns(f, m - 1)
    BY <1>2
  <2> DEFINE d == D[m][f[m - 1]]
             g == [i \in 0 .. m |-> IF i = m THEN d ELSE f[i]]
  <2>2. d \in V
    OBVIOUS
  <2> HIDE DEF d
  <2>3. g \in [0 .. m -> V] /\ g[0] = c /\ g[m] = d
    BY <2>1, <2>2
  <2>4. \A i \in 0 .. m - 1 : g[i] = f[i]
    OBVIOUS
  <2>5. ASSUME NEW i \in 1 .. m PROVE g[i] = D[i][g[i - 1]]
    <3>1. i - 1 \in 0 .. m - 1
      OBVIOUS
    <3>2. CASE i = m
      BY <2>3, <2>4, <3>1, <3>2 DEF d
    <3>3. CASE i # m
      <4>1. i \in 1 .. m - 1
        BY <3>3
      <4>. QED BY <2>1, <2>4, <3>1, <4>1
    <3>. QED BY <3>2, <3>3
  <2> HIDE DEF g
  <2>6. Turns(g, m)
    BY <2>3, <2>5
  <2>7. \E h \in [0 .. m -> V] : Turns(h, m)
    BY <2>3, <2>6
  <2> HIDE DEF Turns
  <2>. QED BY <2>7
<1>3. n \in S
  <2> HIDE DEF S
  <2>1. \A i \in 0 .. n : i \in S
    BY <1>1, <1>2, Induction
  <2>. QED BY <2>1
<1>. QED BY <1>3 DEF Computed

InStep(f, g, n) ==
  f[0] = g[0] /\ \A i \in 1 .. n : f[i - 1] = g[i - 1] => f[i] = g[i]

Agree(f, g, n) == \A i \in 0 .. n : f[i] = g[i]

(* Two computations with the same start and the same turns agree. *)
LEMMA SameTurns ==
  ASSUME NEW n \in Nat, NEW f, NEW g, InStep(f, g, n)
  PROVE  Agree(f, g, n)
<1> DEFINE S == {i \in 0 .. n : f[i] = g[i]}
<1>1. 0 \in S /\ \A i \in 1 .. n : i - 1 \in S => i \in S
  BY DEF InStep
<1>2. \A i \in 0 .. n : i \in S
  <2> HIDE DEF S
  <2>. QED BY <1>1, Induction
<1>. QED BY <1>2 DEF Agree


-----------------------------------------------------------------------------
(* The rows of the month *)

Month(rows, t) == RowsSince(rows, t)[Len(rows)]

(* RowsSince is what its definition says. *)
LEMMA RowsSinceTurns ==
  ASSUME NEW rows \in Seq(ScaleEvent), NEW t \in Nat
  PROVE  /\ RowsSince(rows, t) \in [0 .. Len(rows) -> Seq(ScaleEvent)]
         /\ RowsSince(rows, t)[0] = <<>>
         /\ \A i \in 1 .. Len(rows) :
              RowsSince(rows, t)[i] =
                IF rows[i].occurred_at >= t THEN Append(RowsSince(rows, t)[i - 1], rows[i])
                ELSE RowsSince(rows, t)[i - 1]
<1> DEFINE n == Len(rows)
           V == Seq(ScaleEvent)
           D == [i \in 1 .. n |->
                   [v \in V |-> IF rows[i].occurred_at >= t THEN Append(v, rows[i]) ELSE v]]
           Def(f) == [i \in 0 .. n |->
                        IF i = 0 THEN <<>>
                        ELSE IF rows[i].occurred_at >= t THEN Append(f[i - 1], rows[i])
                        ELSE f[i - 1]]
<1>1. n \in Nat /\ <<>> \in V /\ \A i \in 1 .. n : rows[i] \in ScaleEvent
  OBVIOUS
<1>2. D \in [1 .. n -> [V -> V]]
  BY <1>1
<1>3. \A v \in V, i \in 1 .. n :
        D[i][v] = IF rows[i].occurred_at >= t THEN Append(v, rows[i]) ELSE v
  BY <1>1
<1>4. PICK f \in [0 .. n -> V] :
        f[0] = <<>> /\ \A i \in 1 .. n : f[i] = D[i][f[i - 1]]
  <2> DEFINE c == <<>>
  <2>1. c \in V /\ n \in Nat
    BY <1>1
  <2> HIDE DEF n, V, D, c
  <2>2. \E f \in [0 .. n -> V] : Computed(f, c, D, n)
    BY <1>2, <2>1, Recursion
  <2>. QED BY <2>2 DEF c, Computed
<1> HIDE DEF D, V
<1>5. f = Def(f)
  <2>1. ASSUME NEW i \in 0 .. n PROVE f[i] = Def(f)[i]
    <3>1. CASE i = 0
      BY <1>1, <1>4, <3>1
    <3>2. CASE i # 0
      <4>1. i \in 1 .. n /\ i - 1 \in 0 .. n
        BY <1>1, <3>2
      <4>2. f[i - 1] \in V
        BY <4>1
      <4>. QED BY <1>3, <1>4, <4>1, <4>2
    <3>. QED BY <3>1, <3>2
  <2>. QED BY <2>1
<1> DEFINE g == RowsSince(rows, t)
<1>6. g = Def(g)
  BY <1>5, Zenon DEF RowsSince
<1> HIDE DEF g
<1>7. DOMAIN g = 0 .. n /\ g[0] = <<>>
  BY <1>1, <1>6
<1>8. ASSUME NEW i \in 1 .. n
      PROVE  g[i] = IF rows[i].occurred_at >= t THEN Append(g[i - 1], rows[i]) ELSE g[i - 1]
  <2>1. i \in 0 .. n /\ i # 0
    BY <1>1
  <2>. QED BY <1>6, <2>1
<1>9. \A i \in 0 .. n : g[i] \in V
  <2> DEFINE S == {i \in 0 .. n : g[i] \in V}
  <2>1. 0 \in S
    BY <1>1, <1>7
  <2>2. ASSUME NEW i \in 1 .. n, i - 1 \in S PROVE i \in S
    <3>1. g[i - 1] \in V /\ rows[i] \in ScaleEvent
      BY <1>1, <2>2
    <3>2. Append(g[i - 1], rows[i]) \in V
      BY <3>1 DEF V
    <3>3. g[i] \in V
      BY <1>8, <3>1, <3>2
    <3>. QED BY <1>1, <3>3
  <2>3. \A i \in 0 .. n : i \in S
    <3> HIDE DEF S
    <3>. QED BY <1>1, <2>1, <2>2, Induction
  <2>. QED BY <2>3
<1>10. g = [i \in 0 .. n |-> g[i]]
  BY <1>6, <1>7
<1>. QED BY <1>7, <1>8, <1>9, <1>10 DEF g, V


(* No row is from time t on: the list is empty. *)
LEMMA NoRowSince ==
  ASSUME NEW rows \in Seq(ScaleEvent), NEW t \in Nat,
         \A i \in 1 .. Len(rows) : rows[i].occurred_at < t
  PROVE  Month(rows, t) = <<>>
<1> DEFINE g == RowsSince(rows, t)
           S == {i \in 0 .. Len(rows) : g[i] = <<>>}
<1>0. Len(rows) \in Nat /\ \A i \in 1 .. Len(rows) : rows[i] \in ScaleEvent
  OBVIOUS
<1>1. Len(rows) \in Nat /\ \A i \in 1 .. Len(rows) : rows[i].occurred_at \in Nat
  BY <1>0, CostConstants DEF ScaleEvent
<1>2. 0 \in S
  BY <1>1, RowsSinceTurns
<1>3. ASSUME NEW i \in 1 .. Len(rows), i - 1 \in S PROVE i \in S
  <2>1. ~(rows[i].occurred_at >= t)
    BY <1>1
  <2>2. g[i] = g[i - 1]
    BY <2>1, RowsSinceTurns
  <2>. QED BY <1>1, <1>3, <2>2
<1>4. \A i \in 0 .. Len(rows) : i \in S
  <2> HIDE DEF S
  <2>. QED BY <1>1, <1>2, <1>3, Induction
<1>. QED BY <1>1, <1>4 DEF Month

(* One more row from time t on is one more in the list. *)
LEMMA AppendRow ==
  ASSUME NEW rows \in Seq(ScaleEvent), NEW t \in Nat, NEW e \in ScaleEvent,
         e.occurred_at >= t
  PROVE  Month(Append(rows, e), t) = Append(Month(rows, t), e)
<1> DEFINE n == Len(rows)
           all == Append(rows, e)
           f == RowsSince(rows, t)
           g == RowsSince(all, t)
<1>1. n \in Nat /\ all \in Seq(ScaleEvent) /\ Len(all) = n + 1 /\ all[n + 1] = e
  OBVIOUS
<1>2. \A i \in 1 .. n : all[i] = rows[i]
  OBVIOUS
<1> HIDE DEF all
<1>3. f[0] = <<>> /\ g[0] = <<>>
  BY <1>1, RowsSinceTurns
<1>4. ASSUME NEW i \in 1 .. n, f[i - 1] = g[i - 1] PROVE f[i] = g[i]
  <2>1. f[i] = IF rows[i].occurred_at >= t THEN Append(f[i - 1], rows[i]) ELSE f[i - 1]
    BY <1>1, RowsSinceTurns
  <2>2. i \in 1 .. Len(all)
    BY <1>1
  <2>3. g[i] = IF all[i].occurred_at >= t THEN Append(g[i - 1], all[i]) ELSE g[i - 1]
    BY <1>1, <2>2, RowsSinceTurns
  <2>. QED BY <1>2, <1>4, <2>1, <2>3
<1>5. \A i \in 0 .. n : f[i] = g[i]
  <2>1. n \in Nat /\ InStep(f, g, n)
    BY <1>1, <1>3, <1>4 DEF InStep
  <2> HIDE DEF n, f, g
  <2>2. Agree(f, g, n)
    BY <2>1, SameTurns
  <2>. QED BY <2>2 DEF Agree
<1>6. g[n + 1] = IF all[n + 1].occurred_at >= t THEN Append(g[n], all[n + 1]) ELSE g[n]
  <2>1. n + 1 \in 1 .. Len(all) /\ (n + 1) - 1 = n
    BY <1>1
  <2>. QED BY <1>1, <2>1, RowsSinceTurns
<1>7. g[n + 1] = Append(f[n], e)
  BY <1>1, <1>5, <1>6
<1>. QED BY <1>1, <1>7 DEF Month, all

-----------------------------------------------------------------------------
(* The loop of RunningHours *)

Run == [total : Int, runStart : Nat \cup {None}]

(* One turn of the loop. *)
LEMMA CountType ==
  ASSUME NEW r \in Run, NEW e \in ScaleEvent
  PROVE  Count(r, e) \in Run
<1>1. e.occurred_at \in Nat
  BY CostConstants DEF ScaleEvent
<1>2. r.total \in Int /\ r.runStart \in Nat \cup {None}
  BY DEF Run
<1>. QED BY <1>1, <1>2 DEF Count, Run

(* Loop is what its definition says. *)
LEMMA LoopTurns ==
  ASSUME NEW events \in Seq(ScaleEvent), NEW b \in Run
  PROVE  /\ Loop(b, events) \in [0 .. Len(events) -> Run]
         /\ Loop(b, events)[0] = b
         /\ \A i \in 1 .. Len(events) :
              Loop(b, events)[i] = Count(Loop(b, events)[i - 1], events[i])
<1> DEFINE n == Len(events)
           D == [i \in 1 .. n |-> [r \in Run |-> Count(r, events[i])]]
           Def(f) == [i \in 0 .. n |-> IF i = 0 THEN b ELSE Count(f[i - 1], events[i])]
<1>1. n \in Nat /\ \A i \in 1 .. n : events[i] \in ScaleEvent
  OBVIOUS
<1>2. D \in [1 .. n -> [Run -> Run]]
  BY <1>1, CountType
<1>3. \A r \in Run, i \in 1 .. n : D[i][r] = Count(r, events[i])
  OBVIOUS
<1>4. PICK f \in [0 .. n -> Run] :
        f[0] = b /\ \A i \in 1 .. n : f[i] = D[i][f[i - 1]]
  <2> DEFINE V == Run
  <2>1. n \in Nat /\ b \in V /\ D \in [1 .. n -> [V -> V]]
    BY <1>1, <1>2
  <2> HIDE DEF n, D, V
  <2>2. \E f \in [0 .. n -> V] : Computed(f, b, D, n)
    BY <2>1, Recursion
  <2>. QED BY <2>2 DEF V, Computed
<1> HIDE DEF D
<1>5. f = Def(f)
  <2>1. ASSUME NEW i \in 0 .. n PROVE f[i] = Def(f)[i]
    <3>1. CASE i = 0
      BY <1>1, <1>4, <3>1
    <3>2. CASE i # 0
      <4>1. i \in 1 .. n /\ i - 1 \in 0 .. n
        BY <1>1, <3>2
      <4>2. f[i - 1] \in Run
        BY <4>1
      <4>. QED BY <1>3, <1>4, <4>1, <4>2
    <3>. QED BY <3>1, <3>2
  <2>. QED BY <2>1
<1> DEFINE g == Loop(b, events)
<1>6. g = Def(g)
  BY <1>5, Zenon DEF Loop
<1> HIDE DEF g
<1>7. DOMAIN g = 0 .. n /\ g[0] = b
  BY <1>1, <1>6
<1>8. ASSUME NEW i \in 1 .. n
      PROVE  g[i] = Count(g[i - 1], events[i])
  <2>1. i \in 0 .. n /\ i # 0
    BY <1>1
  <2>. QED BY <1>6, <2>1
<1>9. \A i \in 0 .. n : g[i] \in Run
  <2> DEFINE S == {i \in 0 .. n : g[i] \in Run}
  <2>1. 0 \in S
    BY <1>1, <1>7
  <2>2. ASSUME NEW i \in 1 .. n, i - 1 \in S PROVE i \in S
    <3>1. g[i - 1] \in Run /\ events[i] \in ScaleEvent
      BY <1>1, <2>2
    <3>2. g[i] \in Run
      BY <1>8, <3>1, CountType
    <3>. QED BY <1>1, <3>2
  <2>3. \A i \in 0 .. n : i \in S
    <3> HIDE DEF S
    <3>. QED BY <1>1, <2>1, <2>2, Induction
  <2>. QED BY <2>3
<1>10. g = [i \in 0 .. n |-> g[i]]
  BY <1>6, <1>7
<1>. QED BY <1>7, <1>8, <1>9, <1>10 DEF g

(* One more event is one more turn. *)
LEMMA AppendTurn ==
  ASSUME NEW events \in Seq(ScaleEvent), NEW b \in Run, NEW e \in ScaleEvent
  PROVE  Loop(b, Append(events, e))[Len(events) + 1] = Count(Loop(b, events)[Len(events)], e)
<1> DEFINE n == Len(events)
           all == Append(events, e)
           f == Loop(b, events)
           g == Loop(b, all)
<1>1. n \in Nat /\ all \in Seq(ScaleEvent) /\ Len(all) = n + 1 /\ all[n + 1] = e
  OBVIOUS
<1>2. \A i \in 1 .. n : all[i] = events[i]
  OBVIOUS
<1> HIDE DEF all
<1>3. f[0] = b /\ g[0] = b
  BY <1>1, LoopTurns
<1>4. ASSUME NEW i \in 1 .. n, f[i - 1] = g[i - 1] PROVE f[i] = g[i]
  <2>1. f[i] = Count(f[i - 1], events[i])
    BY <1>1, LoopTurns
  <2>2. i \in 1 .. Len(all)
    BY <1>1
  <2>3. g[i] = Count(g[i - 1], all[i])
    BY <1>1, <2>2, LoopTurns
  <2>. QED BY <1>2, <1>4, <2>1, <2>3
<1>5. \A i \in 0 .. n : f[i] = g[i]
  <2>1. n \in Nat /\ InStep(f, g, n)
    BY <1>1, <1>3, <1>4 DEF InStep
  <2> HIDE DEF n, f, g
  <2>2. Agree(f, g, n)
    BY <2>1, SameTurns
  <2>. QED BY <2>2 DEF Agree
<1>6. g[n + 1] = Count(g[n], all[n + 1])
  <2>1. n + 1 \in 1 .. Len(all) /\ (n + 1) - 1 = n
    BY <1>1
  <2>. QED BY <1>1, <2>1, LoopTurns
<1>7. g[n + 1] = Count(f[n], e)
  BY <1>1, <1>5, <1>6
<1>. QED BY <1>1, <1>7 DEF all


-----------------------------------------------------------------------------
(* The invariant *)

(* What the loop makes of a month with events, whatever the flag says. *)
Account(events, start) == Loop(Begin(events, start, TRUE), events)[Len(events)]

(* No interval lies outside the month, and no two overlap. *)
Bounded(run, start, t) ==
  /\ run.total \in Nat
  /\ IF run.runStart = None THEN run.total <= t - start
     ELSE /\ run.runStart \in start .. t
          /\ run.total <= run.runStart - start

(* What the app has run so far, if every change was logged. *)
Exact(events, run) ==
  IF events = <<>> THEN truth = IF workload = "up" THEN now - periodStart ELSE 0
  ELSE (run.runStart # None <=> workload = "up") /\ truth = Charged(run, now)

Books(events, run) ==
  /\ events # <<>> => Bounded(run, periodStart, now)
  /\ ~missed /\ firstTells => Exact(events, run)

Inv == TypeOK /\ Books(ThisMonth, Account(ThisMonth, periodStart))

(* The start of the loop. *)
LEMMA BeginType ==
  ASSUME NEW events \in Seq(ScaleEvent), NEW start \in Nat, NEW flag \in BOOLEAN
  PROVE  /\ Begin(events, start, flag) \in Run
         /\ events # <<>> => Begin(events, start, flag) = Begin(events, start, TRUE)
BY DEF Begin, Run, RanBefore

(* The events of the month and their account are of their types. *)
LEMMA MonthType ==
  ASSUME NEW rows \in Seq(ScaleEvent), NEW start \in Nat
  PROVE  /\ Month(rows, start) \in Seq(ScaleEvent)
         /\ Account(Month(rows, start), start) \in Run
<1>1. Len(rows) \in 0 .. Len(rows)
  OBVIOUS
<1>2. Month(rows, start) \in Seq(ScaleEvent)
  BY <1>1, RowsSinceTurns DEF Month
<1> DEFINE events == Month(rows, start)
<1> HIDE DEF events
<1>3. Begin(events, start, TRUE) \in Run
  BY <1>2, BeginType DEF events
<1>4. Len(events) \in 0 .. Len(events)
  BY <1>2 DEF events
<1>5. Account(events, start) \in Run
  BY <1>2, <1>3, <1>4, LoopTurns DEF Account, events
<1>. QED BY <1>2, <1>5 DEF events

(* The account of one more event. *)
LEMMA NextAccount ==
  ASSUME NEW events \in Seq(ScaleEvent), NEW start \in Nat, NEW e \in ScaleEvent
  PROVE  Account(Append(events, e), start) =
           Count(IF events = <<>> THEN Begin(<<e>>, start, TRUE) ELSE Account(events, start), e)
<1> DEFINE all == Append(events, e)
           b == Begin(all, start, TRUE)
<1>1. all \in Seq(ScaleEvent) /\ Len(all) = Len(events) + 1
  OBVIOUS
<1>2. b \in Run
  <2> HIDE DEF all
  <2>. QED BY <1>1, BeginType
<1>3. Account(all, start) = Count(Loop(b, events)[Len(events)], e)
  <2> HIDE DEF b
  <2>1. Loop(b, Append(events, e))[Len(events) + 1] = Count(Loop(b, events)[Len(events)], e)
    BY <1>2, AppendTurn
  <2>. QED BY <1>1, <2>1 DEF Account, b
<1>4. CASE events = <<>>
  <2>1. all = <<e>> /\ Len(events) = 0
    BY <1>4
  <2>2. Loop(b, events)[0] = b
    <3> HIDE DEF b
    <3>. QED BY <1>2, LoopTurns
  <2>. QED BY <1>3, <1>4, <2>1, <2>2
<1>5. CASE events # <<>>
  <2>1. Head(all) = Head(events) /\ all # <<>>
    BY <1>5, HeadTailAppend
  <2>2. b = Begin(events, start, TRUE)
    BY <1>5, <2>1 DEF Begin, RanBefore
  <2>. QED BY <1>3, <1>5, <2>2 DEF Account
<1>. QED BY <1>4, <1>5


(* Inv holds at the start. *)
LEMMA InitInv == Init => Inv
<1> SUFFICES ASSUME Init PROVE Inv
  OBVIOUS
<1>0. log \in Seq(ScaleEvent) /\ Len(log) = 0 /\ periodStart = 0
  <2>1. <<>> \in Seq(ScaleEvent) /\ Len(<<>>) = 0
    OBVIOUS
  <2>. QED BY <2>1 DEF Init
<1>1. TypeOK
  <2>1. \A i \in 1 .. Len(log) : log[i].occurred_at <= now
    BY <1>0
  <2>2. /\ Len(log) <= MaxEvents /\ now \in 0 .. MaxTime
        /\ periodStart \in 0 .. now /\ truth \in 0 .. now
    BY <1>0, CostConstants DEF Init
  <2>3. /\ listed \in BOOLEAN /\ hibernated \in BOOLEAN /\ workload \in {"none", "up", "down"}
        /\ missed \in BOOLEAN /\ firstTells \in BOOLEAN
    BY DEF Init
  <2>. QED BY <1>0, <2>1, <2>2, <2>3 DEF TypeOK
<1>2. ThisMonth = <<>>
  <2>1. Month(log, periodStart) = <<>>
    <3>1. periodStart \in Nat /\ \A i \in 1 .. Len(log) : log[i].occurred_at < periodStart
      BY <1>0
    <3>2. log \in Seq(ScaleEvent)
      BY <1>0
    <3>. QED BY <3>1, <3>2, NoRowSince
  <2>. QED BY <2>1 DEF ThisMonth, ListScaleEventsSince, Month
<1>3. Exact(ThisMonth, Account(ThisMonth, periodStart))
  BY <1>2 DEF Exact, Init
<1>. QED BY <1>1, <1>2, <1>3 DEF Inv, Books

(* What TypeOK says of the month. *)
LEMMA MonthFacts ==
  ASSUME TypeOK
  PROVE  /\ log \in Seq(ScaleEvent)
         /\ now \in Nat /\ periodStart \in Nat /\ periodStart <= now /\ truth \in Nat
         /\ ThisMonth = Month(log, periodStart)
         /\ ThisMonth \in Seq(ScaleEvent)
         /\ Account(ThisMonth, periodStart) \in Run
<1>1. log \in Seq(ScaleEvent)
  BY DEF TypeOK
<1>2. now \in Nat /\ periodStart \in Nat /\ periodStart <= now /\ truth \in Nat
  BY CostConstants DEF TypeOK
<1>3. ThisMonth = Month(log, periodStart)
  BY DEF ThisMonth, ListScaleEventsSince, Month
<1>. QED BY <1>1, <1>2, <1>3, MonthType

(* The log and the month stay. *)
LEMMA SameMonth ==
  ASSUME UNCHANGED <<log, periodStart>>
  PROVE  ThisMonth' = ThisMonth
BY DEF ThisMonth, ListScaleEventsSince

(* A step that writes no event and lets no time pass: the workload stays   *)
(* as it is, or the change is missed.                                      *)
LEMMA SilentStep ==
  ASSUME Inv, TypeOK', UNCHANGED <<log, now, periodStart, truth, firstTells>>,
         missed' \/ (missed' = missed /\ (workload' = "up" <=> workload = "up"))
  PROVE  Inv'
<1>1. ThisMonth' = ThisMonth
  BY SameMonth
<1> DEFINE ev == ThisMonth
           run == Account(ev, periodStart)
<1>2. Account(ThisMonth, periodStart)' = run
  BY <1>1 DEF Account
<1>3. Books(ev, run)
  BY DEF Inv
<1>4. TypeOK
  BY DEF Inv
<1> HIDE DEF ev, run
<1>5. ev # <<>> => Bounded(run, periodStart', now')
  BY <1>3 DEF Books
<1>6. ASSUME ~missed', firstTells'
      PROVE  IF ev = <<>> THEN truth' = IF workload' = "up" THEN now' - periodStart' ELSE 0
             ELSE (run.runStart # None <=> workload' = "up") /\ truth' = Charged(run, now')
  BY <1>3, <1>6 DEF Books, Exact
<1>. QED BY <1>1, <1>2, <1>5, <1>6 DEF Inv, Books, Exact, ev

(* An event is written that says how the workload is now. *)
LEMMA LoggedStep ==
  ASSUME Inv, TypeOK', NEW event \in {"scale_to_0", "scale_to_1"}, RecordScaleEvent(event),
         UNCHANGED time, workload' = IF event = "scale_to_1" THEN "up" ELSE "down",
         event = "scale_to_0" => workload # "none"
  PROVE  Inv'
<1> DEFINE e == [event |-> event, occurred_at |-> now]
           ev == ThisMonth
           run == Account(ev, periodStart)
           old == IF ev = <<>> THEN Begin(<<e>>, periodStart, TRUE) ELSE run
           new == Count(old, e)
<1>1. TypeOK /\ Books(ev, run)
  BY DEF Inv
<1>2. /\ log \in Seq(ScaleEvent) /\ now \in Nat /\ periodStart \in Nat
      /\ periodStart <= now /\ truth \in Nat
      /\ ev = Month(log, periodStart) /\ ev \in Seq(ScaleEvent) /\ run \in Run
  BY <1>1, MonthFacts
<1>3. e \in ScaleEvent /\ e.event = event /\ e.occurred_at = now
  BY <1>1 DEF ScaleEvent, TypeOK
<1>4. log' = Append(log, e) /\ UNCHANGED <<now, periodStart, truth>>
  BY DEF RecordScaleEvent, time
<1>5. ThisMonth' = Append(ev, e)
  <2>1. Month(Append(log, e), periodStart) = Append(Month(log, periodStart), e)
    <3> HIDE DEF e
    <3>. QED BY <1>2, <1>3, AppendRow
  <2>. QED BY <1>2, <1>4, <2>1 DEF ThisMonth, ListScaleEventsSince, Month
<1>6. Account(ThisMonth, periodStart)' = new
  <2>1. Account(Append(ev, e), periodStart) = new
    <3> HIDE DEF e, ev
    <3>. QED BY <1>2, <1>3, NextAccount
  <2>2. Account(ThisMonth, periodStart)' = Account(Append(ev, e), periodStart)
    BY <1>4, <1>5 DEF Account
  <2>. QED BY <2>1, <2>2
<1>7. Append(ev, e) # <<>>
  <2> HIDE DEF e, ev
  <2>. QED BY <1>2, <1>3, AppendProperties
<1>8. old \in Run /\ Bounded(old, periodStart, now)
  <2>1. CASE ev = <<>>
    <3>1. old = [total |-> 0, runStart |-> IF event = "scale_to_0" THEN periodStart ELSE None]
      BY <2>1 DEF Begin, RanBefore
    <3> HIDE DEF old
    <3>. QED BY <1>2, <3>1 DEF Run, Bounded
  <2>2. CASE ev # <<>>
    BY <1>1, <1>2, <2>2 DEF Books
  <2>. QED BY <2>1, <2>2
<1>9. ASSUME ~missed', firstTells'
      PROVE  /\ truth = Charged(old, now)
             /\ ev # <<>> => (old.runStart # None <=> workload = "up")
  <2>1. ~missed /\ firstTells /\ (ev = <<>> => workload' # workload)
    BY <1>9 DEF RecordScaleEvent
  <2>2. Exact(ev, run)
    BY <1>1, <2>1 DEF Books
  <2>3. CASE ev = <<>>
    <3>1. old = [total |-> 0, runStart |-> IF event = "scale_to_0" THEN periodStart ELSE None]
      BY <2>3 DEF Begin, RanBefore
    <3>2. truth = IF workload = "up" THEN now - periodStart ELSE 0
      BY <2>2, <2>3 DEF Exact
    <3>3. workload \in {"none", "up", "down"}
      BY <1>1 DEF TypeOK
    <3>4. workload = "up" <=> event = "scale_to_0"
      BY <2>1, <2>3, <3>3
    <3> HIDE DEF old
    <3>. QED BY <1>2, <2>3, <3>1, <3>2, <3>4, CostConstants DEF Charged
  <2>4. CASE ev # <<>>
    BY <2>2, <2>4 DEF Exact
  <2>. QED BY <2>3, <2>4
<1> HIDE DEF e, ev, run, old
<1>10. /\ old.total \in Int /\ old.runStart \in Nat \cup {None}
       /\ None \notin Nat
  BY <1>8, CostConstants DEF Run
<1>11. CASE event = "scale_to_1"
  <2>1. new = IF old.runStart = None THEN [old EXCEPT !.runStart = now] ELSE old
    BY <1>3, <1>11 DEF Count
  <2>2. /\ new.total = old.total
        /\ new.runStart = IF old.runStart = None THEN now ELSE old.runStart
    BY <1>8, <2>1 DEF Run
  <2> HIDE DEF new
  <2>3. Bounded(new, periodStart, now)
    BY <1>2, <1>8, <1>10, <2>2 DEF Bounded
  <2>4. new.runStart # None /\ Charged(new, now) = Charged(old, now)
    BY <1>2, <1>10, <2>2 DEF Charged
  <2>. QED BY <1>4, <1>5, <1>6, <1>7, <1>9, <1>11, <2>3, <2>4 DEF Inv, Books, Exact
<1>12. CASE event = "scale_to_0"
  <2>1. new = IF old.runStart = None THEN old
              ELSE [total |-> old.total + (now - old.runStart), runStart |-> None]
    BY <1>3, <1>12 DEF Count
  <2>2. /\ new.total = Charged(old, now)
        /\ new.runStart = None
    BY <1>2, <1>10, <2>1 DEF Charged
  <2> HIDE DEF new
  <2>3. Bounded(new, periodStart, now)
    BY <1>2, <1>8, <1>10, <2>2 DEF Bounded, Charged
  <2>4. Charged(new, now) = Charged(old, now)
    BY <1>2, <1>10, <2>2 DEF Charged
  <2>. QED BY <1>4, <1>5, <1>6, <1>7, <1>9, <1>12, <2>2, <2>3, <2>4 DEF Inv, Books, Exact
<1>. QED BY <1>11, <1>12

(* The workload is scaled and the event written, or not. *)
LEMMA ScaledStep ==
  ASSUME Inv, TypeOK', NEW event \in {"scale_to_0", "scale_to_1"}, Written(event),
         UNCHANGED time, workload' = IF event = "scale_to_1" THEN "up" ELSE "down",
         event = "scale_to_0" => workload # "none"
  PROVE  Inv'
<1>1. CASE RecordScaleEvent(event)
  BY <1>1, LoggedStep
<1>2. CASE NoScaleEvent
  BY <1>2, SilentStep DEF NoScaleEvent, time
<1>. QED BY <1>1, <1>2 DEF Written

(* An hour passes. *)
LEMMA TickStep ==
  ASSUME Inv, TypeOK', Tick
  PROVE  Inv'
<1> DEFINE ev == ThisMonth
           run == Account(ev, periodStart)
<1>1. TypeOK /\ Books(ev, run)
  BY DEF Inv
<1>2. /\ now \in Nat /\ periodStart \in Nat /\ periodStart <= now /\ truth \in Nat
      /\ run \in Run /\ None \notin Nat
  BY <1>1, MonthFacts, CostConstants
<1>3. /\ now' = now + 1 /\ truth' = truth + (IF workload = "up" THEN 1 ELSE 0)
      /\ UNCHANGED <<workload, log, periodStart, missed, firstTells>>
  BY DEF Tick
<1>4. ThisMonth' = ev
  BY <1>3, SameMonth
<1>5. Account(ThisMonth, periodStart)' = run
  BY <1>3, <1>4 DEF Account
<1> HIDE DEF ev, run
<1>6. run.total \in Int /\ run.runStart \in Nat \cup {None}
  BY <1>2 DEF Run
<1>7. ev # <<>> => Bounded(run, periodStart', now')
  BY <1>1, <1>2, <1>3, <1>6 DEF Books, Bounded
<1>8. ASSUME ~missed', firstTells'
      PROVE  IF ev = <<>> THEN truth' = IF workload' = "up" THEN now' - periodStart' ELSE 0
             ELSE (run.runStart # None <=> workload' = "up") /\ truth' = Charged(run, now')
  BY <1>1, <1>2, <1>3, <1>6, <1>8 DEF Books, Exact, Charged
<1>. QED BY <1>4, <1>5, <1>7, <1>8 DEF Inv, Books, Exact

(* A new month begins without events. *)
LEMMA NewMonthStep ==
  ASSUME Inv, TypeOK', NewMonth
  PROVE  Inv'
<1>1. TypeOK
  BY DEF Inv
<1>2. log \in Seq(ScaleEvent) /\ now \in Nat
  BY <1>1, MonthFacts
<1>3. /\ now' = now + 1 /\ periodStart' = now + 1 /\ truth' = 0 /\ log' = log
  BY DEF NewMonth
<1>4. \A i \in 1 .. Len(log) : log[i].occurred_at < now + 1
  <2>1. \A i \in 1 .. Len(log) : log[i] \in ScaleEvent
    BY <1>2
  <2>2. \A i \in 1 .. Len(log) : log[i].occurred_at \in Nat
    BY <2>1, CostConstants DEF ScaleEvent
  <2>. QED BY <1>1, <1>2, <2>2 DEF TypeOK
<1>5. ThisMonth' = <<>>
  BY <1>2, <1>3, <1>4, NoRowSince DEF ThisMonth, ListScaleEventsSince, Month
<1>6. Exact(ThisMonth, Account(ThisMonth, periodStart))'
  BY <1>2, <1>3, <1>5 DEF Exact
<1>. QED BY <1>5, <1>6 DEF Inv, Books


(* Every step keeps the types: the log grows by rows of the present. *)
LEMMA NextTypeOK ==
  ASSUME TypeOK, Next
  PROVE  TypeOK'
<1>0. /\ log \in Seq(ScaleEvent) /\ now \in 0 .. MaxTime /\ Len(log) \in Nat
      /\ MaxTime \in Nat /\ MaxEvents \in Nat
      /\ periodStart \in 0 .. now /\ truth \in 0 .. now /\ Len(log) <= MaxEvents
  BY CostConstants DEF TypeOK
<1>1. ASSUME NEW event \in {"scale_to_0", "scale_to_1"}, RecordScaleEvent(event), now' = now
      PROVE  /\ log' \in Seq(ScaleEvent) /\ Len(log') <= MaxEvents
             /\ \A i \in 1 .. Len(log') : log'[i].occurred_at <= now'
             /\ missed' \in BOOLEAN /\ firstTells' \in BOOLEAN
  <2> DEFINE e == [event |-> event, occurred_at |-> now]
  <2>1. e \in ScaleEvent /\ e.occurred_at = now
    BY <1>0 DEF ScaleEvent
  <2>2. log' = Append(log, e) /\ Len(log) < MaxEvents
    BY <1>1 DEF RecordScaleEvent
  <2> HIDE DEF e
  <2>3. /\ log' \in Seq(ScaleEvent) /\ Len(log') = Len(log) + 1 /\ log'[Len(log) + 1] = e
        /\ \A i \in 1 .. Len(log) : log'[i] = log[i]
    BY <1>0, <2>1, <2>2, AppendProperties
  <2>4. \A i \in 1 .. Len(log') : log'[i].occurred_at <= now
    <3>1. \A i \in 1 .. Len(log) : log[i].occurred_at <= now
      BY DEF TypeOK
    <3>2. \A i \in 1 .. Len(log') : i \in 1 .. Len(log) \/ i = Len(log) + 1
      BY <1>0, <2>3
    <3>. QED BY <1>0, <2>1, <2>3, <3>1, <3>2
  <2>5. missed' \in BOOLEAN /\ firstTells' \in BOOLEAN
    BY <1>1 DEF RecordScaleEvent, TypeOK
  <2>. QED BY <1>0, <1>1, <2>2, <2>3, <2>4, <2>5
<1>2. ASSUME NEW event \in {"scale_to_0", "scale_to_1"}, Written(event), now' = now
      PROVE  /\ log' \in Seq(ScaleEvent) /\ Len(log') <= MaxEvents
             /\ \A i \in 1 .. Len(log') : log'[i].occurred_at <= now'
             /\ missed' \in BOOLEAN /\ firstTells' \in BOOLEAN
  BY <1>1, <1>2 DEF Written, NoScaleEvent, TypeOK
<1>3. CASE Register
  BY <1>3 DEF Register, TypeOK, time
<1>4. CASE DeploySucceeds
  BY <1>2, <1>4 DEF DeploySucceeds, TypeOK, time
<1>5. CASE DeployFails
  BY <1>5 DEF DeployFails, NoScaleEvent, TypeOK, time
<1>6. CASE Hibernate
  BY <1>2, <1>6 DEF Hibernate, SetHibernated, TypeOK, time
<1>7. CASE Wake
  BY <1>2, <1>7 DEF Wake, SetHibernated, TypeOK, time
<1>8. CASE ProxyWake
  BY <1>8 DEF ProxyWake, NoScaleEvent, SetHibernated, TypeOK, time
<1>9. CASE Delete
  BY <1>9 DEF Delete, NoScaleEvent, TypeOK, time
<1>10. CASE Tick \/ NewMonth
  <2>1. now' = now + 1 /\ now' \in 0 .. MaxTime /\ log' = log
    BY <1>0, <1>10 DEF Tick, NewMonth
  <2>2. periodStart' \in 0 .. now' /\ truth' \in 0 .. now'
    BY <1>0, <1>10 DEF Tick, NewMonth
  <2>3. \A i \in 1 .. Len(log) : log[i].occurred_at \in Nat /\ log[i].occurred_at <= now
    <3>1. \A i \in 1 .. Len(log) : log[i] \in ScaleEvent
      BY <1>0
    <3>. QED BY <1>0, <3>1 DEF ScaleEvent, TypeOK
  <2>4. \A i \in 1 .. Len(log') : log'[i].occurred_at <= now'
    BY <1>0, <2>1, <2>3
  <2>5. UNCHANGED <<listed, hibernated, workload>> /\ missed' \in BOOLEAN /\ firstTells' \in BOOLEAN
    BY <1>10 DEF Tick, NewMonth, TypeOK
  <2>. QED BY <2>1, <2>2, <2>4, <2>5 DEF TypeOK
<1>. QED BY <1>3, <1>4, <1>5, <1>6, <1>7, <1>8, <1>9, <1>10 DEF Next

(* Every step keeps the books. *)
LEMMA NextInv ==
  ASSUME Inv, [Next]_vars
  PROVE  Inv'
<1>1. CASE UNCHANGED vars
  <2>1. UNCHANGED <<listed, hibernated, workload, log, now, periodStart, truth, missed, firstTells>>
    BY <1>1 DEF vars
  <2>2. TypeOK'
    BY <2>1 DEF Inv, TypeOK
  <2>. QED BY <2>1, <2>2, SilentStep
<1>2. CASE Next
  <2>1. TypeOK'
    BY <1>2, NextTypeOK DEF Inv
  <2>2. CASE Register
    BY <2>1, <2>2, SilentStep DEF Register, time
  <2>3. CASE DeploySucceeds
    BY <2>1, <2>3, ScaledStep DEF DeploySucceeds
  <2>4. CASE DeployFails
    BY <2>1, <2>4, SilentStep DEF DeployFails, NoScaleEvent, time
  <2>5. CASE Hibernate
    BY <2>1, <2>5, ScaledStep DEF Hibernate
  <2>6. CASE Wake
    BY <2>1, <2>6, ScaledStep DEF Wake
  <2>7. CASE ProxyWake
    BY <2>1, <2>7, SilentStep DEF ProxyWake, NoScaleEvent, time
  <2>8. CASE Delete
    BY <2>1, <2>8, SilentStep DEF Delete, NoScaleEvent, time
  <2>9. CASE Tick
    BY <2>1, <2>9, TickStep
  <2>10. CASE NewMonth
    BY <2>1, <2>10, NewMonthStep
  <2>. QED BY <1>2, <2>2, <2>3, <2>4, <2>5, <2>6, <2>7, <2>8, <2>9, <2>10 DEF Next
<1>. QED BY <1>1, <1>2

-----------------------------------------------------------------------------
(* The theorems *)

(* The estimate in the terms of the invariant. *)
LEMMA EstimateOf ==
  ASSUME Inv
  PROVE  Estimate = Charged(IF ThisMonth = <<>>
                              THEN [total |-> 0, runStart |-> IF hibernated THEN None ELSE periodStart]
                              ELSE Account(ThisMonth, periodStart), now)
<1> DEFINE ev == ThisMonth
           b == Begin(ev, periodStart, hibernated)
<1>1. /\ ev \in Seq(ScaleEvent) /\ periodStart \in Nat /\ hibernated \in BOOLEAN
  BY MonthFacts DEF Inv, TypeOK
<1>2. Estimate = Charged(Loop(b, ev)[Len(ev)], now)
  BY DEF Estimate, RunningHours, BillingPeriodStart, ThisMonth
<1>3. b \in Run /\ (ev # <<>> => b = Begin(ev, periodStart, TRUE))
  <2> HIDE DEF ev
  <2>. QED BY <1>1, BeginType
<1>4. CASE ev # <<>>
  BY <1>2, <1>3, <1>4 DEF Account
<1>5. CASE ev = <<>>
  <2>1. Loop(b, ev)[0] = b
    <3> HIDE DEF b, ev
    <3>. QED BY <1>1, <1>3, LoopTurns
  <2>2. Len(ev) = 0
    BY <1>5
  <2>3. b = [total |-> 0, runStart |-> IF hibernated THEN None ELSE periodStart]
    BY <1>1, <1>5 DEF Begin, RanBefore
  <2>. QED BY <1>2, <1>5, <2>1, <2>2, <2>3
<1>. QED BY <1>4, <1>5

(* The invariant of the books. *)
THEOREM Invariance == Spec => []Inv
BY InitInv, NextInv, PTL DEF Spec

(* The log is in order: no event is dated ahead of the clock. *)
THEOREM TypeCorrect == Spec => []TypeOK
<1>1. Inv => TypeOK
  BY DEF Inv
<1>. QED BY <1>1, Invariance, PTL

(* cost.go, RunningHours: for a log of any length, with any events missing *)
(* and however months divide it, the charge is at most the time elapsed.   *)
THEOREM ChargeIsBounded == Spec => []NeverMoreThanElapsed
<1>1. Inv => NeverMoreThanElapsed
  <2> SUFFICES ASSUME Inv PROVE Estimate <= now - periodStart
    BY DEF NeverMoreThanElapsed
  <2>1. /\ now \in Nat /\ periodStart \in Nat /\ periodStart <= now /\ None \notin Nat
        /\ Books(ThisMonth, Account(ThisMonth, periodStart))
    BY MonthFacts, CostConstants DEF Inv
  <2>2. CASE ThisMonth = <<>>
    BY <2>1, <2>2, EstimateOf DEF Charged
  <2>3. CASE ThisMonth # <<>>
    <3> DEFINE run == Account(ThisMonth, periodStart)
    <3>1. Bounded(run, periodStart, now) /\ Estimate = Charged(run, now)
      BY <2>1, <2>3, EstimateOf DEF Books
    <3> HIDE DEF run
    <3>. QED BY <2>1, <3>1 DEF Bounded, Charged
  <2>. QED BY <2>2, <2>3
<1>. QED BY <1>1, Invariance, PTL

(* cost.go, RunningHours: for a log of any length the charge is the time   *)
(* in which the app ran, if the month's changes were all logged.           *)
THEOREM ChargeIsExact == Spec => []MonthExact
<1>1. Inv => MonthExact
  <2> SUFFICES ASSUME Inv, listed, ~missed, firstTells,
                      ThisMonth = <<>> => (hibernated <=> workload # "up")
               PROVE  Estimate = truth
    BY DEF MonthExact
  <2>1. /\ now \in Nat /\ periodStart \in Nat /\ None \notin Nat /\ hibernated \in BOOLEAN
        /\ Exact(ThisMonth, Account(ThisMonth, periodStart))
    BY MonthFacts, CostConstants DEF Inv, Books, TypeOK
  <2>2. CASE ThisMonth = <<>>
    BY <2>1, <2>2, EstimateOf DEF Charged, Exact
  <2>3. CASE ThisMonth # <<>>
    BY <2>1, <2>3, EstimateOf DEF Exact
  <2>. QED BY <2>2, <2>3
<1>. QED BY <1>1, Invariance, PTL
=============================================================================
