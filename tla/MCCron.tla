------------------------------- MODULE MCCron -------------------------------
(***************************************************************************)
(* The expressions of cron_test.go and of the README, and others at the    *)
(* edges of their fields, over four hours of Monday, 6 April.              *)
(***************************************************************************)
EXTENDS Cron

MCToday == [day |-> 6, month |-> 4, weekday |-> 1]

MCMinutes == {Star, Only(0), Only(30), Only(59), Only(60), Step(1), Step(5), Step(7),
              Step(15), Step(59), Step(60), Step(0), List({0, 15, 30, 45}),
              Interval(1, 5), Interval(50, 59), Interval(5, 1)}
MCHours == {Star, Only(2), Step(2), Only(25)}
MCDays == {Star, Step(5), Interval(1, 31), Only(0)}

MCExpr ==
    {Fields(m, h, Star, Star, Star) : m \in MCMinutes, h \in MCHours}
        \cup {Fields(Only(30), Star, d, Star, w) : d \in MCDays, w \in {Star, Only(1), Only(0)}}
        \cup {Hourly, Daily, Weekly, Monthly}
        \cup {EveryMinutes(n) : n \in {0, 2, 5, 6, 7, 10, 30, 60, 90}}
        \cup {EveryHours(n) : n \in {1, 2, 24}}
=============================================================================
