SPECIFICATION FairSpec
CONSTANTS
  c1 = c1
  c2 = c2
  Controllers <- TwoControllers
  ReportType = "normal"
  MaxReconnects = 2
  MaxStarts = 3
  MaxBreaks = 2
INVARIANTS OneController LockIsFreed
PROPERTY ReportsOrEnd
CHECK_DEADLOCK FALSE
