\* Two requests in flight on a handler built with a policy.
CONSTANTS
  Requests = {r1, r2}
  RetryCount = 1
  Subscribed = TRUE
SPECIFICATION Spec
INVARIANTS
  ReturnedResponseUsable
CHECK_DEADLOCK FALSE
