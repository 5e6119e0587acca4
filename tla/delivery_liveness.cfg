SPECIFICATION FairSpec
CONSTANTS
  Events <- TwoEvents
  FutureTyped <- SecondIsFutureTyped
  BatchSize = 1
  MaxRetries = 1
  Slots = {s1, s2}
  NoSlot = NoSlot
  MaxFaults = 2
  MaxOps = 2
PROPERTIES EventuallySettled
CHECK_DEADLOCK FALSE
