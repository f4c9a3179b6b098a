\* The three strategies over small arguments.
CONSTANTS
  Candidates <- MCCandidates
  Millisecond = 2
  IntMax = 127
SPECIFICATION Spec
INVARIANTS
  BudgetExact
  BackoffWithinBounds
PROPERTIES
  BackoffNeverShrinks
CHECK_DEADLOCK FALSE
