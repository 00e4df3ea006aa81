SPECIFICATION FairSpec
CONSTANTS
  MaxAttempts = 2
  MaxQuestions = 0
  MaxFaults = 1
  Answerer = {a1}
CHECK_DEADLOCK FALSE
PROPERTY InterruptedDispatchRetried
