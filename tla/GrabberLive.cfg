SPECIFICATION FairSpec
CONSTANTS
  Pixels <- EdgePixels
  MaxMsgs = 2
  Faults = {"unsafe", "reject", "call", "shutdown"}
INVARIANTS VerifyNeverFails LowerIsNoOp BottleKeptLevel WaitsAtHome
PROPERTIES PourEnds EveryMessagePours
CHECK_DEADLOCK FALSE
