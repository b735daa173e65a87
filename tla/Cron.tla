-------------------------------- MODULE Cron --------------------------------
(***************************************************************************)
(* Cron expressions (internal/kairos/cron.go) under the daemon's ticker:   *)
(* a day of one task, looked at every Period minutes.                      *)
(*                                                                         *)
(* A field of an expression is a record, its text parsed; an expression is *)
(* the five fields, or the minutes or hours of an "@every".  What a field  *)
(* selects is computed as parseField and parseEvery do, by a loop.         *)
(***************************************************************************)
EXTENDS Integers

CONSTANTS Expr,      \* the expressions tasks are given
          Period,    \* minutes between ticks: 2
          Day,       \* the length of the day looked at, in minutes: 24 * 60
          Today      \* [day, month, weekday]

ASSUME PeriodAssumption == Period \in 1..Day
ASSUME DayAssumption == Day \in 1..(24 * 60)

FieldText == [form : {"star"}] \cup [form : {"step"}, n : Int]
             \cup [form : {"list"}, of : SUBSET Int]
             \cup [form : {"range"}, from : Int, to : Int]
Text == [form : {"fields"}, min : FieldText, hour : FieldText, day : FieldText,
         month : FieldText, weekday : FieldText]
        \cup [form : {"everyMinutes", "everyHours"}, n : Int]

ASSUME ExprAssumption == Expr \subseteq Text

VARIABLES expr,    \* the task's CronExpr
          clock,   \* the minute of the day of the last tick
          last     \* LastRun, or Never

cronVars == <<expr, clock, last>>

Never == -1
Invalid == {-1}

-----------------------------------------------------------------------------
(* parseField.                                                              *)

(* Wrong: the last value is left out. *)
StepsBelow(from, hi, n) ==
    LET Up[i \in from..(hi + n)] == IF i >= hi THEN {} ELSE {i} \cup Up[i + n]
    IN  Up[from]

(* from, from + n, ... up to hi. *)
Steps(from, hi, n) ==
    LET Up[i \in from..(hi + n)] == IF i > hi THEN {} ELSE {i} \cup Up[i + n]
    IN  Up[from]

ParseField(f, lo, hi) ==
    CASE f.form = "star"  -> lo..hi
      [] f.form = "step"  -> IF f.n <= 0 THEN Invalid ELSE Steps(lo, hi, f.n)
      [] f.form = "list"  -> IF f.of \subseteq lo..hi THEN f.of ELSE Invalid
      [] f.form = "range" -> IF f.from < lo \/ f.to > hi \/ f.from > f.to THEN Invalid
                             ELSE f.from..f.to

Star == [form |-> "star"]
Step(n) == [form |-> "step", n |-> n]
Only(v) == [form |-> "list", of |-> {v}]
List(V) == [form |-> "list", of |-> V]
Interval(a, b) == [form |-> "range", from |-> a, to |-> b]

Fields(min, hour, day, month, weekday) ==
    [form |-> "fields", min |-> min, hour |-> hour, day |-> day, month |-> month,
     weekday |-> weekday]
Hourly == Fields(Only(0), Star, Star, Star, Star)
Daily == Fields(Only(0), Only(0), Star, Star, Star)
Weekly == Fields(Only(0), Only(0), Star, Star, Only(0))
Monthly == Fields(Only(0), Only(0), Only(1), Star, Star)
EveryMinutes(n) == [form |-> "everyMinutes", n |-> n]
EveryHours(n) == [form |-> "everyHours", n |-> n]

(* Wrong: the first run of an hour is n minutes into it. *)
MinutesFromN(e) ==
    CASE e.form = "fields"       -> ParseField(e.min, 0, 59)
      [] e.form = "everyMinutes" -> IF e.n <= 0 THEN Invalid ELSE Steps(e.n, 59, e.n)
      [] e.form = "everyHours"   -> {0}

(* ParseCron and parseEvery: the minutes and the hours selected. *)
Minutes(e) ==
    CASE e.form = "fields"       -> ParseField(e.min, 0, 59)
      [] e.form = "everyMinutes" -> IF e.n <= 0 THEN Invalid ELSE Steps(0, 59, e.n)
      [] e.form = "everyHours"   -> {0}

Hours(e) ==
    CASE e.form = "fields"       -> ParseField(e.hour, 0, 23)
      [] e.form = "everyMinutes" -> 0..23
      [] e.form = "everyHours"   -> IF e.n <= 0 THEN Invalid ELSE Steps(0, 23, e.n)

OtherFields(e) ==
    IF e.form = "fields"
    THEN <<ParseField(e.day, 1, 31), ParseField(e.month, 1, 12), ParseField(e.weekday, 0, 6)>>
    ELSE <<1..31, 1..12, 0..6>>

Parses(e) == /\ Minutes(e) # Invalid /\ Hours(e) # Invalid
             /\ \A i \in 1..3 : OtherFields(e)[i] # Invalid

Matches(e, t) ==
    /\ t % 60 \in Minutes(e) /\ t \div 60 \in Hours(e)
    /\ Today.day \in OtherFields(e)[1]
    /\ Today.month \in OtherFields(e)[2]
    /\ Today.weekday \in OtherFields(e)[3]

(* An expression that does not parse is never due. *)
IsDue(e, lastRun, now) == Parses(e) /\ Matches(e, now) /\ lastRun # now

-----------------------------------------------------------------------------

CronInit == expr \in Expr /\ clock \in 0..(Period - 1) /\ last = Never

(* Wrong: the run is noted for the tick to come. *)
TickAhead ==
    /\ clock + Period < Day
    /\ clock' = clock + Period
    /\ last' = IF IsDue(expr, last, clock') THEN clock' + Period ELSE last
    /\ UNCHANGED expr

Tick ==
    /\ clock + Period < Day
    /\ clock' = clock + Period
    /\ last' = IF IsDue(expr, last, clock') THEN clock' ELSE last
    /\ UNCHANGED expr

CronSpec == CronInit /\ [][Tick]_cronVars

-----------------------------------------------------------------------------
(* Properties.                                                              *)

CronTypeOK == expr \in Expr /\ clock \in 0..(Day - 1) /\ last \in {Never} \cup 0..clock

(* What a field means, said without a loop. *)
Selects(f, lo, v) ==
    CASE f.form = "star"  -> TRUE
      [] f.form = "step"  -> (v - lo) % f.n = 0
      [] f.form = "list"  -> v \in f.of
      [] f.form = "range" -> f.from <= v /\ v <= f.to

(* parseField selects what the field means, for minutes, hours and the days *)
(* of a month, which start at 1.                                            *)
FieldsMeanWhatTheySay ==
    expr.form = "fields" /\ Parses(expr) =>
        /\ Minutes(expr) = {v \in 0..59 : Selects(expr.min, 0, v)}
        /\ Hours(expr) = {v \in 0..23 : Selects(expr.hour, 0, v)}
        /\ OtherFields(expr)[1] = {v \in 1..31 : Selects(expr.day, 1, v)}

(* A run is noted at the time of its tick, and the fields it was due by     *)
(* mean what they say.                                                      *)
CronSafe == CronTypeOK /\ FieldsMeanWhatTheySay

(* An "@every" whose length divides the hour and the ticks of an even       *)
(* daemon hit runs at that distance, over the turn of each hour.            *)
EveryIsRegular ==
    [][LET n == expr.n
       IN  expr.form = "everyMinutes" /\ n > 0 /\ 60 % n = 0 /\ n % Period = 0
             /\ last # Never /\ last' # last => last' - last = n]_cronVars

(* README.md:52 offers "@every 5m": it runs every five minutes.             *)
EveryFiveMinutes ==
    [][expr = EveryMinutes(5) /\ last # Never /\ last' # last
          => last' - last = 5]_cronVars

(* daemon.go:30, "0 0 * * *" = midnight: a task runs at the minutes its     *)
(* expression names.                                                        *)
NoMinuteMissed ==
    [][\A t \in (clock + 1)..clock' : Matches(expr, t) => last' = t]_cronVars
=============================================================================
