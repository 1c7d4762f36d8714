SPECIFICATION Spec
CONSTANTS
  Pixels <- OnePixel
  MaxMsgs = 1
  Faults = {"early", "unsafe", "halt", "slow", "reject"}
INVARIANTS TypeOK LateMoveBound StopNotLatched
PROPERTY ReleasedOnlyWhenPutDown
CHECK_DEADLOCK FALSE
