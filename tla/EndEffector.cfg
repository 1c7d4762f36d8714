SPECIFICATION Spec
CONSTANTS
  Jobs = {"position", "status", "bio", "robotiq", "activate", "track", "origin", "server"}
  Lag <- MCLag
  Pace = 2
INVARIANTS ZeroIsDone ThreadEndsFirst
PROPERTY GoalEnds
CHECK_DEADLOCK FALSE
