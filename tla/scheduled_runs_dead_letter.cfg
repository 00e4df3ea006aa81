SPECIFICATION Spec
CONSTANTS
  MaxAttempts = 2
  MaxQuestions = 1
  MaxFaults = 0
  Answerer = {a1}
CHECK_DEADLOCK FALSE
INVARIANT DeadLetterReportsExhaustion
