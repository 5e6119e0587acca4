SPECIFICATION Spec
CONSTANTS
  Alerts = {a1, a2}
  Strays = {a2}
  Named = {a1, a2}
  Analysts = {u1}
  Cases = {i1, i2}
  Assessments = {c1, c2}
  Workers = {w1, w2}
  None = None
  MaxRequests = 5
  MaxFaults = 1
SYMMETRY DeskSymmetry
INVARIANT PointsWhereListed
PROPERTIES LegalUnlessStale CaseLegalUnlessStale
CHECK_DEADLOCK FALSE
