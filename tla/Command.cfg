\* Three calls in a row, two command and two connection retries.
CONSTANTS
  CommandRetries = 2
  ConnectionRetries = 2
  MaxCalls = 3
SPECIFICATION Spec
INVARIANTS
  TypeOK
  RetriesOnAFreshConnection
  DialBudget
PROPERTIES
  KeepsLease
CHECK_DEADLOCK FALSE
