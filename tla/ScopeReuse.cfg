\* Two scopes on one thread and one policy.
CONSTANTS
  Scopes = {s1, s2}
  Threads = {t1}
  Policies = {p1}
  RetryCount = 1
  Nobody = Nobody
SPECIFICATION Spec
INVARIANTS
  RetriesAsPrescribed
CHECK_DEADLOCK FALSE
