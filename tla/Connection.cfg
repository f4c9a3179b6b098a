\* Two calls in a row under policies of one retry each.
CONSTANTS
  ConnectionRetries = 1
  CommandRetries = 1
  FailoverRetries = 1
  MaxCalls = 2
SPECIFICATION Spec
INVARIANTS
  TypeOK
  ExecutionBudget
  DialBudget
PROPERTIES
  Termination
  KeepsLease
CHECK_DEADLOCK FALSE
