\* Three keys, and every order in which files and messages come.
SPECIFICATION Spec
CONSTANTS
  Queries <- MCQueries
  Long <- MCLong
  Unparsable = {"a~b"}
  Pages <- MCPages
  MaxKeys = 3
  MaxHandlers = 3
  None = None
INVARIANTS
  ResultsMatchQuery
  NoneTooEarly
PROPERTIES
  NeverGoesBack
  Settles
CHECK_DEADLOCK FALSE
