SPECIFICATION FairSpec
CONSTANTS
  MaxAttempts = 2
  MaxQuestions = 0
  MaxFaults = 2
  Answerer = {a1}
CHECK_DEADLOCK FALSE
INVARIANT AttemptsAccounted
PROPERTIES
  OnlyNewestAttemptCompletes
  EveryOutcomeReported
  UnacceptedDispatchRetried
