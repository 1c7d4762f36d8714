SPECIFICATION Spec
CONSTANTS
  m1 = m1
  m2 = m2
  op = op
  Movers <- TwoMovers
  Operators <- OneOperator
  Threads = 3
  WaitParam = "true"
  Firmwares = {"old", "middle", "new"}
  Commands = {"joint"}
  Ops = {"start", "pause", "stop", "clean"}
  Faults = {"error", "lost"}
  EarlyRestart = FALSE
  IdlePolls = 3
  StartLag = 2
  MaxCmdnum = 1
  MaxMoves = 2
  MaxOps = 2
  MaxFaults = 1
SYMMETRY Symmetry
INVARIANTS WaitedMoveIsDone ErrorsAreReported
CHECK_DEADLOCK FALSE
