SPECIFICATION Spec
CONSTANTS
  w1 = w1
  w2 = w2
  p1 = p1
  p2 = p2
  Nothing = Nothing
  Workers = {w1, w2}
  ProcessOf <- MCProcessOf
  Pool <- MCPool
  Menu <- MCMenu
  MaxRequests = 3
  Shipped <- MCShipped
  Calibrations <- MCCalibrations
  Decisions <- MCDecisions
  MinRows = 2
  HistoryTicks = 4
  RollingTicks = 4
  NonPerson = {"unknown"}
INVARIANTS
  RowsTellEvents
  BusyRowsJudged
  EmptyDaysSkipped
  LevelFollowsVerdict
  RestartServesTrained
CHECK_DEADLOCK FALSE
