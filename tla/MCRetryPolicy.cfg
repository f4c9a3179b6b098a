\* Two calls share one policy with three retries.
CONSTANTS
  Executions = {e1, e2}
  RetryCount = 3
  Delays <- MCDelays
SPECIFICATION Spec
INVARIANTS
  TypeOK
  NoHammering
PROPERTIES
  KeepsPromise
