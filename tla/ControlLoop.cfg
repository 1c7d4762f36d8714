SPECIFICATION LoopFairSpec
CONSTANTS
  Faults <- AllFaults
  MaxFaults = 4
  MaxGoals = 2
INVARIANT OldGoalBound
PROPERTY OldGoalDropped
CHECK_DEADLOCK FALSE
