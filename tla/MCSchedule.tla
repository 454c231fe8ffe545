----------------------------- MODULE MCSchedule -----------------------------
(* DailySchedule for every hour of the day in UTC and at both clock changes   *)
(* of Chicago (02:00 local) and Berlin (01:00 UTC), on the fifth day.         *)
EXTENDS DailySchedule

Zone(b, a, c) == {[hour |-> h, before |-> b, after |-> a, change |-> c] : h \in 0..23}

Spring == Zone(-6, -5, 104) \cup Zone(1, 2, 97)
Autumn == Zone(-5, -6, 103) \cup Zone(2, 1, 97)

\* The hours that cross midnight UTC when the clocks go forward.
Crossing ==
    {s \in Spring : (s.hour - s.before) \div 24 # (s.hour - s.after) \div 24}

Regular == (Zone(0, 0, 100) \cup Spring \cup Autumn) \ Crossing
=============================================================================
