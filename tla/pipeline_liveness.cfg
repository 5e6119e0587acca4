SPECIFICATION FairSpec
CONSTANTS
  Procs = {p1}
  Triggers = {"schedule", "manual"}
  Nobody = Nobody
  MaxLapses = 0
  MaxStops = 1
  MaxDay = 2
  MaxEvents = 2
  MaxViews = 1
  MaxFaults = 1
  Spiky = {1}
  Lookback = 1
  HistoryDays = 28
  MinDays = 1
INVARIANTS YardstickUnlessViewed
PROPERTY Settles
CHECK_DEADLOCK FALSE
