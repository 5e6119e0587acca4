SPECIFICATION Spec
CONSTANTS
  Procs = {p1, p2}
  Triggers = {"schedule"}
  Nobody = Nobody
  MaxLapses = 1
  MaxStops = 0
  MaxDay = 2
  MaxEvents = 2
  MaxViews = 0
  MaxFaults = 1
  Spiky = {1}
  Lookback = 2
  HistoryDays = 28
  MinDays = 1
SYMMETRY ProcSymmetry
INVARIANTS RunsBounded CleanRunIsFresh
CHECK_DEADLOCK FALSE
