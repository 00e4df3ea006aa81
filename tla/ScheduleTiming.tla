---------------------------- MODULE ScheduleTiming ----------------------------
(***************************************************************************)
(* When a schedule runs (shared/schedules/timing.ts): computeNextRun and   *)
(* computeLatestRun over instants, and what they ought to return.          *)
(*                                                                         *)
(* An instant is a number of units since an epoch at UTC midnight.  A time *)
(* zone is the offset before and after one change of the clocks, and the   *)
(* instant of the change; Intl.DateTimeFormat is that table.  A date is    *)
(* the number of its day.                                                  *)
(***************************************************************************)
EXTENDS Integers

CONSTANTS
    HourLen, DayLen,     \* units in an hour and in a day
    WeekLen, Weekend,    \* days in a week, and which are not weekdays
    Never                \* no instant: null

ASSUME TimingAssumption ==
    /\ HourLen \in Nat \ {0} /\ DayLen \in Nat \ {0} /\ WeekLen \in Nat \ {0}
    /\ Weekend \subseteq 0 .. WeekLen - 1
    /\ Never \notin Int

\* zoneOffset and zonedParts.
Offset(zone, at) == IF at < zone.change THEN zone.before ELSE zone.after
Local(zone, at) == at + Offset(zone, at)
DateOf(zone, at) == Local(zone, at) \div DayLen
TimeOf(zone, at) == Local(zone, at) % DayLen
WeekdayOf(zone, at) == DateOf(zone, at) % WeekLen

\* Mutant: one pass, with the offset at the naive instant.
OnePass(zone, date, time) ==
    LET naive == date * DayLen + time IN naive - Offset(zone, naive)

\* A wall clock time that the change skips is an hour later.
FromWallClock(zone, date, time) ==
    LET Pass(local) == local - Offset(zone, local - Offset(zone, local))
        naive == date * DayLen + time
    IN  IF TimeOf(zone, Pass(naive)) = time THEN Pass(naive) ELSE Pass(naive + HourLen)

\* The weekday rule of a calendar schedule.
Falls(t, weekday) ==
    /\ t.frequency = "weekdays" => weekday \notin Weekend
    /\ t.frequency = "weekly" => weekday = t.weekday

\* The code tries the dates of two weeks in order; of instants, that order is theirs.
Fitting(t, dates) ==
    {at \in {FromWallClock(t.zone, date, t.time) : date \in dates} :
        Falls(t, WeekdayOf(t.zone, at))}

Earliest(instants) ==
    IF instants = {} THEN Never
    ELSE CHOOSE at \in instants : \A other \in instants : at <= other

Last(instants) ==
    IF instants = {} THEN Never
    ELSE CHOOSE at \in instants : \A other \in instants : at >= other

NextDate(t, after) ==
    LET today == DateOf(t.zone, after) IN
    Earliest({at \in Fitting(t, today .. today + 2 * WeekLen) : at > after})

LatestDate(t, now) ==
    LET today == DateOf(t.zone, now) IN
    Last({at \in Fitting(t, today - 2 * WeekLen .. today) : at <= now})

\* computeNextRun: the first occurrence after an instant.
NextRun(t, after) ==
    IF t.kind = "calendar" THEN NextDate(t, after)
    ELSE IF t.at > after THEN t.at
    ELSE IF t.kind = "once" THEN Never
    ELSE t.at + ((after - t.at) \div t.every + 1) * t.every

\* computeLatestRun: the last occurrence not after an instant.
LatestRun(t, now) ==
    IF t.kind = "calendar" THEN LatestDate(t, now)
    ELSE IF t.at > now THEN Never
    ELSE IF t.kind = "once" THEN t.at
    ELSE t.at + ((now - t.at) \div t.every) * t.every

-----------------------------------------------------------------------------
\* The reference: which instants are an occurrence, without any search.

\* On a date, the instants that show the schedule's time, or that show it an hour
\* later if none does.
Instants(t, date) ==
    LET Showing(local) ==
            {at \in {local - t.zone.before, local - t.zone.after} : Local(t.zone, at) = local}
        local == date * DayLen + t.time
    IN  IF Showing(local) # {} THEN Showing(local) ELSE Showing(local + HourLen)

\* The occurrences near an instant, as sets: one of each set is to be taken.
Occurrences(t, near) ==
    CASE t.kind = "once"     -> {{t.at}}
      [] t.kind = "interval" -> {{at} : at \in {t.at} \union {a \in t.at .. near + t.every :
                                                              (a - t.at) % t.every = 0}}
      [] t.kind = "calendar" ->
            {Instants(t, date) : date \in {d \in DateOf(t.zone, near) - WeekLen - 1 ..
                                                 DateOf(t.zone, near) + WeekLen + 1 :
                                             Falls(t, d % WeekLen)}}

IsNext(t, after, next) ==
    LET all == Occurrences(t, after) IN
    /\ next = Never => \A o \in all : \E at \in o : at <= after
    /\ next # Never => /\ next > after
                       /\ \E o \in all : next \in o
                       /\ ~\E o \in all : \A at \in o : after < at /\ at < next

IsLatest(t, now, latest) ==
    LET all == Occurrences(t, now) IN
    /\ latest = Never => \A o \in all : \E at \in o : at > now
    /\ latest # Never => /\ latest <= now
                         /\ \E o \in all : latest \in o
                         /\ ~\E o \in all : \A at \in o : latest < at /\ at <= now

\* One of each: the occurrence after an occurrence is another one.
IsOnce(t, occurrence) ==
    \A o \in Occurrences(t, occurrence) :
        occurrence \in o => NextRun(t, occurrence) \notin o

-----------------------------------------------------------------------------
\* Where arithmetic and reference agree.

\* scheduleTimingSchema.
Simple(t) ==
    /\ t.kind \in {"once", "interval"} /\ t.at \in Int
    /\ t.kind = "interval" => t.every \in Nat \ {0}

Calendar(t) ==
    /\ t.kind = "calendar" /\ t.frequency \in {"daily", "weekly", "weekdays"}
    /\ t.time \in 0 .. DayLen - 1 /\ t.weekday \in 0 .. WeekLen - 1
    /\ t.frequency = "weekdays" => \E day \in 0 .. WeekLen - 1 : day \notin Weekend

\* Of the changes of clocks, those for which the code is right: forward by an hour at
\* most; what comes twice is of one date; and a time that is skipped exists an hour later
\* on its date.
Regular(t) ==
    LET z == t.zone IN
    /\ z.before \in Int /\ z.after \in Int /\ z.change \in Int /\ HourLen < DayLen
    /\ z.after <= z.before + HourLen
    /\ z.after < z.before =>
           (z.change + z.after) \div DayLen = (z.change + z.before - 1) \div DayLen
    /\ \A local \in z.change + z.before .. z.change + z.after - 1 :
           local % DayLen = t.time => t.time + HourLen < DayLen

Steady(t) == Simple(t) \/ (Calendar(t) /\ Regular(t))
===============================================================================
