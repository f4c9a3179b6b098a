\* Three documents, one to three of them in any order.
SPECIFICATION Spec
CONSTANTS
  Alphabet <- MCAlphabet
  Fields <- MCFields
  QuerySeparators <- MCQuerySeparators
  DocRefs <- MCDocRefs
  Text <- MCText
  MaxDocuments = 3
  TokenSeparators <- MCTokenSeparators
  NonWord <- MCNonWord
  StopWords <- MCStopWords
  Queries <- MCQueries
  None = None
INVARIANTS
  TokenSetExact
  ParsedAsWritten
  SearchExact
  ScoresExact
CHECK_DEADLOCK FALSE
