SPECIFICATION Spec
CONSTANTS
  Events <- ThreeEvents
  FutureTyped <- ThirdIsFutureTyped
  BatchSize = 2
  MaxRetries = 1
  Slots = {s1, s2}
  NoSlot = NoSlot
  MaxFaults = 3
  MaxOps = 1
SYMMETRY SlotSymmetry
INVARIANTS TypeOK NoSilentLoss InFlightRowsUntouched DeadOnlyForCause DuplicatesNeedFaults
PROPERTY KeepsPromise
CHECK_DEADLOCK FALSE
