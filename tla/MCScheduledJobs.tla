---------------------------- MODULE MCScheduledJobs ----------------------------
(***************************************************************************)
(* ScheduledJobs with weeks of three days of three hours, for TLC.  The     *)
(* clocks change once, on a date that has the schedule's time twice or not *)
(* at all.                                                                 *)
(***************************************************************************)
EXTENDS ScheduledJobs

Spring == [before |-> 0, after |-> 1, change |-> 3]
Autumn == [before |-> 1, after |-> 0, change |-> 3]

OnDates(frequency, weekday, time, zone) ==
    [kind |-> "calendar", frequency |-> frequency, weekday |-> weekday,
     time |-> time, zone |-> zone]

MCTimings == {
    [kind |-> "once", at |-> 4],
    [kind |-> "interval", at |-> 2, every |-> 2],
    OnDates("daily", 0, 0, Spring),
    OnDates("weekly", 1, 0, Spring),
    OnDates("weekdays", 0, 0, Autumn)}

\* The timings TLC uses are ones that the theorems are about.
ASSUME TimingsAreSteady == SteadyTimings
================================================================================
