SPECIFICATION Spec
CONSTANTS
  MaxAttempts = 1
  MaxQuestions = 2
  MaxFaults = 1
  Answerer = {a1}
CHECK_DEADLOCK FALSE
INVARIANTS
  TypeOK
  OpenReportIsCurrent
  DeliveredReportPosted
  ReportHasContent
PROPERTY OutcomeIsFinal
