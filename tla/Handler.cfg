\* Two requests, one after the other or at once, on a handler built with a policy.
CONSTANTS
  Requests = {r1, r2}
  RetryCount = 2
  Subscribed = TRUE
SPECIFICATION Spec
INVARIANTS
  NoDanglingClosure
  RetriedResponsesDisposed
  ReturnsLastResponse
CHECK_DEADLOCK FALSE
