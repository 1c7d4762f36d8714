SPECIFICATION Spec
CONSTANTS
  Streams <- MCStreams
  HeaderLen = 2
  Guessed <- MCGuessed
  Cap = 2
  FeedbackCap = 1
  BufSize = 10
  MaxTries = 2
INVARIANTS TypeOK AnswersInOrder NoneLeftBehind ReportsInStep SameSizeStaysOpen
PROPERTY EndIsNoticed
CHECK_DEADLOCK FALSE
