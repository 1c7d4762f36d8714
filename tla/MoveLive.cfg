SPECIFICATION FairSpec
CONSTANTS
  m1 = m1
  m2 = m2
  op = op
  Movers <- TwoMovers
  Operators <- OneOperator
  Threads = 3
  WaitParam = "true"
  Firmwares = {"new"}
  Commands = {"joint"}
  Ops = {"pause", "stop"}
  Faults = {"link"}
  EarlyRestart = FALSE
  IdlePolls = 2
  StartLag = 0
  MaxCmdnum = 1
  MaxMoves = 2
  MaxOps = 1
  MaxFaults = 1
INVARIANT TypeOK
PROPERTIES EveryMoveReturns StoppedIsNoticed
CHECK_DEADLOCK FALSE
