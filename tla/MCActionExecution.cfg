SPECIFICATION FairSpec
CONSTANTS
  Kinds = {"sync", "async"}
  Guarantees = {"idempotent", "best_effort_at_most_once"}
  ExecuteRetries = 1
  StepRetries = 1
  Workers = {w1, w2}
  Strays <- MCStrays
  NoResult = NoResult
CHECK_DEADLOCK FALSE
INVARIANTS
  OutcomeIsTrue
PROPERTIES
  ResultIsFinal
  EndIsRecorded
