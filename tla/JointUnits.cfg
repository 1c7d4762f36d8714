SPECIFICATION Spec
CONSTANTS
  Poses <- SafePoses
  Targets <- PourPoses
INVARIANT UnsafeIsStopped
CHECK_DEADLOCK FALSE
