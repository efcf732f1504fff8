\* Two overlapping requests, one job, two holds.
SPECIFICATION Spec
CONSTANTS
  r1 = r1
  r2 = r2
  j1 = j1
  j2 = j2
  Requests = {r1, r2}
  Jobs = {j1}
  LineQty <- MCLineQty
  Holds = {1, 2}
  Opening = 2
  MaxQty = 2
  MaxCounts = 1
SYMMETRY Symmetry
INVARIANTS
  TypeOK
  IssuedIsConsumed
  IssuesOverlap
CHECK_DEADLOCK FALSE
