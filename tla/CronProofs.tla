------------------------------- MODULE CronProofs -------------------------------
(***************************************************************************)
(* Cron expressions, for any expressions, day and distance of the ticks:   *)
(* the fields select what they say, and the runs of an "@every" that the   *)
(* ticks can hit are at its distance.                                      *)
(*                                                                         *)
(* Steps is a loop, a function defined by recursion; that it is defined at *)
(* all is shown by exhibiting a solution of its equation, and that it is   *)
(* the one is shown by looking at the smallest number where it is not      *)
(* (Smallest, from the well-foundedness of < on the naturals).             *)
(***************************************************************************)
EXTENDS Cron, WellFoundedInduction, TLAPS

-----------------------------------------------------------------------------
(* Remainders, and what the loop of parseField collects.                   *)

LEMMA DivMod == 
    ASSUME NEW x \in Int, NEW n \in Nat \ {0} 
    PROVE  x \div n \in Int /\ x = n * (x \div n) + (x % n) /\ x % n \in 0..(n-1)
BY SMTT(30)

LEMMA ModIs ==
   ASSUME NEW q \in Int, NEW n \in Nat \ {0}, NEW r \in 0..(n-1), NEW x \in Int, x = n*q+r 
   PROVE x % n = r
BY SMTT(30)

LEMMA ModPlus ==
   ASSUME NEW x \in Int, NEW n \in Nat \ {0} PROVE (x + n) % n = x % n
<1>1. PICK q \in Int, r \in 0..(n-1) : x = n * q + r /\ r = x % n
  BY DivMod
<1>2. n * (q + 1) = n * q + n
  OBVIOUS
<1>3. x + n = n * (q + 1) + r
  BY <1>1, <1>2
<1>4. PICK Q \in Int : Q = q + 1
  OBVIOUS
<1>5. (x + n) % n = r
  <2>1. x + n = n * Q + r /\ x + n \in Int
    BY <1>1, <1>3, <1>4
  <2>2. \A y \in Int : y = n * Q + r => y % n = r
    BY ModIs
  <2>3. QED
    BY <2>1, <2>2
<1>6. QED
  BY <1>1, <1>5

(* Every set of numbers has a smallest. *)
LEMMA Smallest ==
    ASSUME NEW S, S \subseteq Nat, S # {}
    PROVE  \E n \in S : \A m \in S : n <= m
<1> DEFINE R == OpToRel(<, Nat)
<1>1. IsWellFoundedOn(R, Nat)
  BY NatLessThanWellFounded, Zenon
<1>2. PICK n \in S : \A m \in S : ~(<<m, n>> \in R)
  <2> HIDE DEF R
  <2> QED BY <1>1, WFMin
<1>3. \A m \in S : ~(m < n)
  BY <1>2, Zenon DEF OpToRel
<1>4. QED
  BY <1>3

Multiples(from, hi, n) == {v \in from..hi : (v - from) % n = 0}

(* What is above hi is none, and else the first and those that begin n after it *)
LEMMA MultiplesStep ==
    ASSUME NEW from \in Int, NEW hi \in Int, NEW n \in Nat \ {0}
    PROVE  /\ from > hi => Multiples(from, hi, n) = {}
           /\ from <= hi => Multiples(from, hi, n) = {from} \cup Multiples(from + n, hi, n)
<1>1. ASSUME from <= hi, NEW v \in from..hi
      PROVE  (v - from) % n = 0 <=> v = from \/ (v \in (from + n)..hi /\ (v - (from + n)) % n = 0)
  <2>1. CASE v < from + n
    <3>1. v - from \in 0..(n - 1) /\ v - from = n * 0 + (v - from) /\ v - from \in Int
      BY <2>1
    <3>2. (v - from) % n = v - from
      BY <3>1, ModIs
    <3>3. QED
      BY <2>1, <3>2
  <2>2. CASE v >= from + n
    <3>1. v - (from + n) \in Int /\ (v - (from + n)) + n = v - from
      OBVIOUS
    <3>2. (v - from) % n = (v - (from + n)) % n
      BY <3>1, ModPlus
    <3>3. v # from /\ v \in (from + n)..hi
      BY <2>2
    <3>4. QED
      BY <3>2, <3>3
  <2>3. QED
    BY <2>1, <2>2
<1>2. ASSUME from <= hi PROVE (from - from) % n = 0
  <2>1. 0 = n * 0 + 0 /\ 0 \in 0..(n - 1)
    OBVIOUS
  <2>2. QED
    BY <2>1, ModIs
<1>3. ASSUME from <= hi
      PROVE  \A v : v \in Multiples(from, hi, n) <=> v = from \/ v \in Multiples(from + n, hi, n)
  <2>1. from \in from..hi /\ (from + n)..hi \subseteq from..hi
    BY <1>3
  <2>2. QED
    BY <1>1, <1>2, <1>3, <2>1 DEF Multiples
<1>4. ASSUME from > hi PROVE from..hi = {}
  BY <1>4
<1>5. QED
  BY <1>3, <1>4 DEF Multiples

LEMMA StepsAreMultiples ==
    ASSUME NEW from \in Int, NEW hi \in Int, NEW n \in Nat \ {0}, from <= hi
    PROVE  Steps(from, hi, n) = Multiples(from, hi, n)
<1> DEFINE D == from..(hi + n)
           Up == CHOOSE Up : Up = [i \in D |-> IF i > hi THEN {} ELSE {i} \cup Up[i + n]]
           f == [i \in D |-> Multiples(i, hi, n)]
<1>1. f = [i \in D |-> IF i > hi THEN {} ELSE {i} \cup f[i + n]]
  <2>1. ASSUME NEW i \in D
        PROVE  f[i] = IF i > hi THEN {} ELSE {i} \cup f[i + n]
    <3>1. i \in Int /\ (i <= hi => i + n \in D)
      OBVIOUS
    <3>2. QED
      BY <3>1, MultiplesStep
  <2>2. QED
    BY <2>1
<1>2. Up = [i \in D |-> IF i > hi THEN {} ELSE {i} \cup Up[i + n]]
  <2> HIDE DEF f, D
  <2> QED BY <1>1
<1>3. \A i \in D : Up[i] = Multiples(i, hi, n)
  <2> DEFINE S == {k \in Nat : \E i \in D : k = hi + n - i /\ Up[i] # Multiples(i, hi, n)}
  <2>1. SUFFICES S = {}
    <3>1. \A i \in D : hi + n - i \in Nat
      OBVIOUS
    <3> HIDE DEF Up, D
    <3>2. QED
      BY <2>1, <3>1
  <2>2. SUFFICES ASSUME S # {} PROVE FALSE
    OBVIOUS
  <2>3. S \subseteq Nat
    OBVIOUS
  <2>4. PICK k \in S : \A m \in S : k <= m
    <3> HIDE DEF S
    <3> QED BY <2>2, <2>3, Smallest
  <2> HIDE DEF Up
  <2>5. PICK i \in D : k = hi + n - i /\ Up[i] # Multiples(i, hi, n)
    OBVIOUS
  <2>6. k \in Nat /\ i \in Int
    OBVIOUS
  <2>7. Up[i] = IF i > hi THEN {} ELSE {i} \cup Up[i + n]
    <3> HIDE DEF D
    <3> QED BY <1>2
  <2>8. i <= hi
    BY <2>5, <2>6, <2>7, MultiplesStep
  <2>9. i + n \in D /\ k - n = hi + n - (i + n) /\ k - n \in Nat /\ k - n < k
    BY <2>5, <2>6, <2>8
  <2>10. Up[i + n] = Multiples(i + n, hi, n)
    <3>1. k - n \notin S
      <4> HIDE DEF S
      <4> QED BY <2>4, <2>6, <2>9
    <3>2. QED
      BY <2>9, <3>1
  <2>11. QED
    BY <2>5, <2>6, <2>7, <2>8, <2>10, MultiplesStep
<1>4. Steps(from, hi, n) = Up[from]
  BY DEF Steps
<1>5. from \in D
  OBVIOUS
<1>6. QED
  <2> HIDE DEF Up, D
  <2> QED BY <1>3, <1>4, <1>5

LEMMA IsMultiple ==
    ASSUME NEW x \in Int, NEW n \in Nat \ {0}, x % n = 0
    PROVE  \E k \in Int : x = n * k
<1>1. PICK q \in Int, r \in 0..(n - 1) : x = n * q + r /\ r = x % n
  BY DivMod
<1>2. x = n * q
  BY <1>1
<1>3. QED
  BY <1>2

LEMMA PlusMultiple ==
    ASSUME NEW x \in Int, NEW n \in Nat \ {0}, NEW k \in Int
    PROVE  (n * k + x) % n = x % n
<1>1. PICK q \in Int, r \in 0..(n - 1) : x = n * q + r /\ r = x % n
  BY DivMod
<1>2. n * (k + q) = n * k + n * q
  OBVIOUS
<1>3. PICK Q \in Int : Q = k + q
  OBVIOUS
<1>4. n * k + x \in Int /\ n * k + x = n * Q + r
  BY <1>1, <1>2, <1>3
<1>5. \A y \in Int : y = n * Q + r => y % n = r
  BY ModIs
<1>6. QED
  BY <1>1, <1>4, <1>5

(* The remainder by n of the minute of the hour is that of the minute of   *)
(* the day, if n divides the hour.                                         *)
LEMMA ModOfHour ==
    ASSUME NEW t \in Nat, NEW n \in Nat \ {0}, 60 % n = 0
    PROVE  (t % 60) % n = t % n
<1>1. PICK k \in Int : 60 = n * k
  BY DivMod
<1>2. PICK q \in Int, r \in Int : t = 60 * q + r /\ r = t % 60
  OBVIOUS
<1>3. 60 * q = n * (k * q)
  BY <1>1
<1>4. PICK K \in Int : K = k * q
  OBVIOUS
<1>5. t = n * K + r
  BY <1>2, <1>3, <1>4
<1>6. (n * K + r) % n = r % n
  BY PlusMultiple
<1>7. QED
  BY <1>2, <1>5, <1>6

-----------------------------------------------------------------------------
(* What a field selects.                                                   *)

LEMMA FieldMeans ==
    ASSUME NEW f \in FieldText, NEW lo \in Int, NEW hi \in Int, lo <= hi,
           ParseField(f, lo, hi) # Invalid
    PROVE  ParseField(f, lo, hi) = {v \in lo..hi : Selects(f, lo, v)}
<1>1. CASE f.form = "star"
  BY <1>1 DEF ParseField, Selects
<1>2. CASE f.form = "step"
  <2>1. f.n \in Nat \ {0}
    BY <1>2 DEF ParseField, FieldText
  <2>2. ParseField(f, lo, hi) = Multiples(lo, hi, f.n)
    BY <1>2, <2>1, StepsAreMultiples DEF ParseField
  <2>3. QED
    BY <1>2, <2>2 DEF Multiples, Selects
<1>3. CASE f.form = "list"
  <2>1. ParseField(f, lo, hi) = f.of /\ f.of \subseteq lo..hi
    BY <1>3 DEF ParseField
  <2>2. \A v : Selects(f, lo, v) <=> v \in f.of
    BY <1>3 DEF Selects
  <2>3. QED
    BY <2>1, <2>2
<1>4. CASE f.form = "range"
  <2>1. f.from \in Int /\ f.to \in Int
    BY <1>4 DEF FieldText
  <2>2. ParseField(f, lo, hi) = f.from..f.to /\ f.from >= lo /\ f.to <= hi
    BY <1>4, <2>1 DEF ParseField
  <2>3. \A v : Selects(f, lo, v) <=> f.from <= v /\ v <= f.to
    BY <1>4 DEF Selects
  <2>4. QED
    BY <2>1, <2>2, <2>3
<1>5. QED
  BY <1>1, <1>2, <1>3, <1>4 DEF FieldText

LEMMA ExpressionMeans ==
    ASSUME expr \in Expr
    PROVE  FieldsMeanWhatTheySay
<1>1. SUFFICES ASSUME expr.form = "fields", Parses(expr)
               PROVE  /\ Minutes(expr) = {v \in 0..59 : Selects(expr.min, 0, v)}
                      /\ Hours(expr) = {v \in 0..23 : Selects(expr.hour, 0, v)}
                      /\ OtherFields(expr)[1] = {v \in 1..31 : Selects(expr.day, 1, v)}
  BY DEF FieldsMeanWhatTheySay
<1>2. expr.min \in FieldText /\ expr.hour \in FieldText /\ expr.day \in FieldText
  BY <1>1, ExprAssumption DEF Text
<1>3. Minutes(expr) = ParseField(expr.min, 0, 59) /\ Hours(expr) = ParseField(expr.hour, 0, 23)
  BY <1>1 DEF Minutes, Hours
<1>4. OtherFields(expr)[1] = ParseField(expr.day, 1, 31)
  BY <1>1 DEF OtherFields
<1>5. Minutes(expr) # Invalid /\ Hours(expr) # Invalid /\ OtherFields(expr)[1] # Invalid
  BY <1>1 DEF Parses
<1>6. Minutes(expr) = {v \in 0..59 : Selects(expr.min, 0, v)}
  BY <1>2, <1>3, <1>5, FieldMeans
<1>7. Hours(expr) = {v \in 0..23 : Selects(expr.hour, 0, v)}
  BY <1>2, <1>3, <1>5, FieldMeans
<1>8. OtherFields(expr)[1] = {v \in 1..31 : Selects(expr.day, 1, v)}
  BY <1>2, <1>4, <1>5, FieldMeans
<1>9. QED
  BY <1>6, <1>7, <1>8

-----------------------------------------------------------------------------
(* The day of a task.                                                      *)

LEMMA CronTyped == CronInit => CronTypeOK
  BY PeriodAssumption, DayAssumption DEF CronInit, CronTypeOK, Never

LEMMA CronStaysTyped == CronTypeOK /\ [Tick]_cronVars => CronTypeOK'
<1>1. ASSUME CronTypeOK, Tick PROVE CronTypeOK'
  <2>1. expr' \in Expr /\ clock' \in 0..(Day - 1) /\ clock \in Nat /\ clock' = clock + Period
    BY <1>1, PeriodAssumption, DayAssumption DEF Tick, CronTypeOK
  <2>2. last' \in {last, clock'}
    BY <1>1 DEF Tick
  <2>3. last' \in {Never} \cup 0..clock'
    BY <1>1, <2>1, <2>2, PeriodAssumption, DayAssumption DEF CronTypeOK
  <2>4. QED
    BY <2>1, <2>3 DEF CronTypeOK
<1>2. ASSUME CronTypeOK, UNCHANGED cronVars PROVE CronTypeOK'
  BY <1>2 DEF CronTypeOK, cronVars
<1>3. QED
  BY <1>1, <1>2

(* A run is noted at the time of its tick, and each field that parses      *)
(* selects what it says: the loops of parseField (cron.go:81) against what *)
(* "*/n", lists and ranges mean.                                           *)
THEOREM CronAlwaysSafe == CronSpec => []CronSafe
<1>1. CronTypeOK => CronSafe
  BY ExpressionMeans DEF CronTypeOK, CronSafe
<1>2. QED
  BY CronTyped, CronStaysTyped, <1>1, PTL DEF CronSpec

-----------------------------------------------------------------------------
(* The distance of runs.                                                   *)

(* An "@every" in minutes, its runs on minutes the ticks hit.              *)
Regular(e) == e.form = "everyMinutes" /\ e.n > 0 /\ 60 % e.n = 0 /\ e.n % Period = 0

(* After a run: it was on a multiple of n, and the ticks since have not    *)
(* come to the next.  The rest of the expression goes on to match.         *)
RunInv ==
    Regular(expr) /\ last # Never =>
        /\ Parses(expr)
        /\ Today.day \in 1..31 /\ Today.month \in 1..12 /\ Today.weekday \in 0..6
        /\ last % expr.n = 0
        /\ (clock - last) % Period = 0 /\ clock - last < expr.n

CronInv == CronTypeOK /\ RunInv

(* When such an expression is due.                                         *)
LEMMA RegularDue ==
    ASSUME expr \in Expr, Regular(expr), NEW t \in 0..(24 * 60 - 1)
    PROVE  Matches(expr, t) <=>
              /\ t % expr.n = 0
              /\ Today.day \in 1..31 /\ Today.month \in 1..12 /\ Today.weekday \in 0..6
<1>1. expr.n \in Nat \ {0} /\ expr.form = "everyMinutes"
  BY ExprAssumption DEF Regular, Text
<1>2. Minutes(expr) = Multiples(0, 59, expr.n)
  <2>1. \A m \in Nat \ {0} : Steps(0, 59, m) = Multiples(0, 59, m)
    BY StepsAreMultiples
  <2>2. Minutes(expr) = Steps(0, 59, expr.n)
    BY <1>1 DEF Minutes
  <2>3. QED
    BY <1>1, <2>1, <2>2
<1>3. Hours(expr) = 0..23 /\ OtherFields(expr) = <<1..31, 1..12, 0..6>>
  BY <1>1 DEF Hours, OtherFields
<1>4. t % 60 \in 0..59 /\ t \div 60 \in 0..23 /\ (t % 60) - 0 = t % 60
  OBVIOUS
<1>5. t % 60 \in Minutes(expr) <=> (t % 60) % expr.n = 0
  BY <1>2, <1>4 DEF Multiples
<1>6. (t % 60) % expr.n = t % expr.n
  BY <1>1, ModOfHour DEF Regular
<1>7. QED
  BY <1>3, <1>4, <1>5, <1>6 DEF Matches

(* Two multiples of p, the one below the other, are p apart.               *)
LEMMA NextMultiple ==
    ASSUME NEW p \in Nat \ {0}, NEW d \in Nat, NEW n \in Nat, d % p = 0, n % p = 0, d < n
    PROVE  d + p <= n
<1>1. PICK a \in Int : d = p * a
  BY IsMultiple
<1>2. PICK b \in Int : n = p * b
  BY IsMultiple
<1>3. a < b
  BY <1>1, <1>2
<1>4. p * (a + 1) <= p * b
  BY <1>3
<1>5. p * (a + 1) = p * a + p
  OBVIOUS
<1>6. QED
  BY <1>1, <1>2, <1>4, <1>5

(* From one run to the tick of the next, no tick is on a multiple of n.    *)
LEMMA NoRunBetween ==
    ASSUME NEW n \in Nat \ {0}, NEW l \in Nat, l % n = 0, NEW d \in 1..(n - 1)
    PROVE  (l + d) % n # 0
<1>1. PICK k \in Int : l = n * k
  BY IsMultiple
<1>2. (n * k + d) % n = d % n
  BY PlusMultiple
<1>3. d % n = d
  <2>1. d = n * 0 + d /\ d \in 0..(n - 1)
    OBVIOUS
  <2>2. QED
    BY <2>1, ModIs
<1>4. QED
  BY <1>1, <1>2, <1>3

LEMMA ModZero ==
    ASSUME NEW n \in Nat \ {0}
    PROVE  0 % n = 0
<1>1. 0 = n * 0 + 0 /\ 0 \in 0..(n - 1)
  OBVIOUS
<1>2. QED
  BY <1>1, ModIs

(* A tick after a run: it is not beyond the next multiple of n, which is   *)
(* the next run.                                                           *)
LEMMA TickAfterRun ==
    ASSUME CronInv, Tick, Regular(expr), last # Never
    PROVE  /\ clock' - last <= expr.n
           /\ (clock' - last) % Period = 0
           /\ IsDue(expr, last, clock') <=> clock' - last = expr.n
           /\ clock' - last = expr.n => clock' % expr.n = 0
<1> DEFINE n == expr.n
           d == clock - last
<1>1. /\ n \in Nat \ {0} /\ Period \in Nat \ {0} /\ expr \in Expr
      /\ last \in 0..clock /\ clock \in Nat /\ d \in Nat
      /\ clock' = clock + Period /\ clock' \in 0..(24 * 60 - 1)
      /\ n % Period = 0
  BY ExprAssumption, PeriodAssumption, DayAssumption DEF CronInv, CronTypeOK, Tick, Regular, Text
<1>2. d < n /\ d % Period = 0 /\ last % n = 0
  BY DEF CronInv, RunInv
<1>3. d + Period <= n /\ clock' - last = d + Period
  <2>1. clock' - last = d + Period
    BY <1>1
  <2> HIDE DEF d, n
  <2>2. d + Period <= n
    BY <1>1, <1>2, NextMultiple
  <2>3. QED
    BY <2>1, <2>2
<1>4. (d + Period) % Period = 0
  <2> HIDE DEF d
  <2>1. \A x \in Int : (x + Period) % Period = x % Period
    BY <1>1, ModPlus
  <2>2. d \in Int
    BY <1>1
  <2>3. (d + Period) % Period = d % Period
    BY <2>1, <2>2
  <2>4. QED
    BY <1>2, <2>3
<1>5. ASSUME d + Period = n PROVE clock' % n = 0
  <2>1. clock' = last + n
    BY <1>1, <1>5
  <2> HIDE DEF n
  <2>2. \A x \in Int : (x + n) % n = x % n
    BY <1>1, ModPlus
  <2>3. QED
    BY <1>1, <1>2, <2>1, <2>2
<1>6. ASSUME d + Period # n PROVE clock' % n # 0
  <2>1. clock' = last + (d + Period)
    BY <1>1
  <2> HIDE DEF n, d
  <2>2. d + Period \in 1..(n - 1)
    BY <1>1, <1>3, <1>6
  <2>3. \A e \in 1..(n - 1) : (last + e) % n # 0
    <3>1. last \in Nat
      BY <1>1
    <3>2. QED
      BY <1>1, <1>2, <3>1, NoRunBetween
  <2>4. QED
    BY <2>1, <2>2, <2>3
<1>7. Matches(expr, clock') <=> clock' % n = 0
  BY <1>1, RegularDue DEF CronInv, RunInv
<1>8. Parses(expr) /\ last # clock'
  BY <1>1 DEF CronInv, RunInv
<1>9. IsDue(expr, last, clock') <=> clock' % n = 0
  BY <1>7, <1>8 DEF IsDue
<1>10. QED
  BY <1>3, <1>4, <1>5, <1>6, <1>9

LEMMA CronInvInit == CronInit => CronInv
  BY CronTyped DEF CronInit, CronInv, RunInv

LEMMA CronInvNext == CronInv /\ [Tick]_cronVars => CronInv'
<1>1. ASSUME CronInv, Tick PROVE RunInv'
  <2>1. expr' = expr /\ clock' = clock + Period
    BY <1>1 DEF Tick
  <2>2. SUFFICES ASSUME Regular(expr), last' # Never
                 PROVE  /\ Parses(expr)
                        /\ Today.day \in 1..31 /\ Today.month \in 1..12 /\ Today.weekday \in 0..6
                        /\ last' % expr.n = 0
                        /\ (clock' - last') % Period = 0 /\ clock' - last' < expr.n
    BY <2>1 DEF RunInv, Regular, Parses, Minutes, Hours, OtherFields, ParseField
  <2>3. /\ expr.n \in Nat \ {0} /\ Period \in Nat \ {0} /\ expr \in Expr
        /\ clock' \in 0..(24 * 60 - 1)
    BY <1>1, <2>2, ExprAssumption, PeriodAssumption, DayAssumption
    DEF CronInv, CronTypeOK, Tick, Regular, Text
  <2>4. CASE IsDue(expr, last, clock')
    <3>1. last' = clock' /\ Parses(expr) /\ Matches(expr, clock')
      BY <1>1, <2>4 DEF Tick, IsDue
    <3>2. /\ clock' % expr.n = 0
          /\ Today.day \in 1..31 /\ Today.month \in 1..12 /\ Today.weekday \in 0..6
      BY <2>2, <2>3, <3>1, RegularDue
    <3>3. clock' - last' = 0
      <4>1. clock' \in Int /\ last' = clock'
        BY <2>3, <3>1
      <4>2. \A x \in Int : x - x = 0
        OBVIOUS
      <4>3. QED
        BY <4>1, <4>2
    <3>4. (clock' - last') % Period = 0
      BY <2>3, <3>3, ModZero
    <3>5. clock' - last' < expr.n
      BY <2>3, <3>3
    <3>6. last' % expr.n = 0
      BY <3>1, <3>2
    <3>7. QED
      BY <3>1, <3>2, <3>4, <3>5, <3>6
  <2>5. CASE ~IsDue(expr, last, clock')
    <3>1. last' = last /\ last # Never
      BY <1>1, <2>2, <2>5 DEF Tick
    <3>2. clock' - last # expr.n /\ clock' - last <= expr.n /\ (clock' - last) % Period = 0
      BY <1>1, <2>2, <2>5, <3>1, TickAfterRun
    <3>3. clock' - last < expr.n
      <4>1. clock' - last \in Int
        BY <1>1, <2>3, <3>1 DEF CronInv, CronTypeOK
      <4>2. QED
        BY <2>3, <3>2, <4>1
    <3>4. QED
      BY <1>1, <2>2, <3>1, <3>2, <3>3 DEF CronInv, RunInv
  <2>6. QED
    BY <2>4, <2>5
<1>2. ASSUME CronInv, UNCHANGED cronVars PROVE RunInv'
  BY <1>2 DEF CronInv, RunInv, cronVars, Regular, Parses, Minutes, Hours, OtherFields, ParseField
<1>3. QED
  BY <1>1, <1>2, CronStaysTyped DEF CronInv

(* An "@every" whose length divides the hour, and that the ticks can hit,  *)
(* runs at that distance and at no other (cron.go:154 parseEvery, under    *)
(* the ticker of daemon.go).                                               *)
THEOREM CronEveryRegular == CronSpec => EveryIsRegular
<1> DEFINE Distance ==
        LET n == expr.n
        IN  expr.form = "everyMinutes" /\ n > 0 /\ 60 % n = 0 /\ n % Period = 0
              /\ last # Never /\ last' # last => last' - last = n
<1>1. CronInv /\ [Tick]_cronVars => [Distance]_cronVars
  <2>1. ASSUME CronInv, Tick, Regular(expr), last # Never, last' # last
        PROVE  last' - last = expr.n
    <3>1. IsDue(expr, last, clock') /\ last' = clock'
      BY <2>1 DEF Tick
    <3>2. QED
      BY <2>1, <3>1, TickAfterRun
  <2>2. QED
    BY <2>1 DEF Regular
<1>2. QED
  BY CronInvInit, CronInvNext, <1>1, PTL DEF CronSpec, EveryIsRegular
=============================================================================
