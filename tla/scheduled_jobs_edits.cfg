SPECIFICATION Spec
CONSTANTS
    HourLen = 1
    DayLen = 3
    WeekLen = 3
    Weekend = {2}
    Timings <- MCTimings
    Editor = {ed1}
    MaxTime = 5
    MaxEdits = 3
    Never = never
    NoTiming = noTiming
CHECK_DEADLOCK FALSE
INVARIANT ActiveHasNext
