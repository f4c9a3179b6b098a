\* Three scopes: in turn, nested or on two threads; with one policy or two.
CONSTANTS
  s1 = s1
  s2 = s2
  s3 = s3
  t1 = t1
  t2 = t2
  p1 = p1
  p2 = p2
  Scopes = {s1, s2, s3}
  Threads = {t1, t2}
  Policies = {p1, p2}
  RetryCount = 1
  Nobody = Nobody
SPECIFICATION MCSpec
INVARIANTS
  FailedWorkNeverCommits
  SuccessIsDurable
  NoStrayTransaction
  OwnPolicyRetries
PROPERTIES
  Termination
CHECK_DEADLOCK FALSE
