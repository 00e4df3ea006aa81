SPECIFICATION FairSpec
CONSTANTS
    HourLen = 1
    DayLen = 3
    WeekLen = 3
    Weekend = {2}
    Timings <- MCTimings
    Editor = {ed1}
    MaxTime = 4
    MaxEdits = 2
    Never = never
    NoTiming = noTiming
CHECK_DEADLOCK FALSE
INVARIANTS TypeOK TimingMeetsReference CatchUpLosesNothing
PROPERTIES RunsAreOnSchedule RunLatestCatchesUp DueIsMaterialized
