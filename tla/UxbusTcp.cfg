SPECIFICATION Spec
CONSTANTS
  Total = 2
  IdMax = 3
  Kinds <- TwoKinds
  MaxRequests = 4
  Empty = Empty
  Torn = Torn
INVARIANTS AnswerMatches NoHeaderErrors AnswerIsNext
CHECK_DEADLOCK FALSE
