\* One call with three retries, cancelled at any point.
CONSTANTS
  Executions = {e1}
  RetryCount = 3
  Delays <- MCDelays
SPECIFICATION Spec
INVARIANTS
  TypeOK
  CancellationStopsRetrying
  LastFailureSurvives
  NoHammering
PROPERTIES
  KeepsPromise
CHECK_DEADLOCK FALSE
