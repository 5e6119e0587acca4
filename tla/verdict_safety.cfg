SPECIFICATION Spec
CONSTANTS
  Alerts = {a1}
  Strays = {}
  Analysts = {}
  Cases = {}
  Assessments = {c1}
  Workers = {w1, w2, w3}
  None = None
  MaxRequests = 4
  MaxFaults = 1
SYMMETRY WorkerSymmetry
INVARIANTS OneInForce LinearHistory VerdictCloses NoCircle
CHECK_DEADLOCK FALSE
