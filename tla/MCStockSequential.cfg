\* One request at a time, two jobs, two holds.
SPECIFICATION Spec
CONSTANTS
  r1 = r1
  r2 = r2
  j1 = j1
  j2 = j2
  Requests = {r1}
  Jobs = {j1, j2}
  LineQty <- MCLineQty
  Holds = {1, 2}
  Opening = 3
  MaxQty = 2
  MaxCounts = 1
SYMMETRY Symmetry
INVARIANTS
  CountIsExplained
  CancelledHoldsNothing
PROPERTIES
  HoldsAreFinal
CHECK_DEADLOCK FALSE
