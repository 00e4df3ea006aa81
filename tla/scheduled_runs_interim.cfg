SPECIFICATION Spec
CONSTANTS
  MaxAttempts = 1
  MaxQuestions = 1
  MaxFaults = 0
  Answerer = {a1}
CHECK_DEADLOCK FALSE
PROPERTY InterimOutcomeDeferred
