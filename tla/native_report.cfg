SPECIFICATION NativeFairSpec
CONSTANTS
    MaxMessages = 2
    Drainer = {d1}
    MaxLimits = 1
    MaxRetries = 0
    MaxReports = 2
CHECK_DEADLOCK FALSE
INVARIANTS NativeTypeOK VerdictIsTrue
PROPERTIES ReportSettles LaneMoves RevokedOutputCancelled
