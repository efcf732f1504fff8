\* Two receipts of different lines.
SPECIFICATION Spec
CONSTANTS
  r1 = r1
  r2 = r2
  l1 = l1
  l2 = l2
  l3 = l3
  Requests = {r1, r2}
  Lines = {l1, l2}
  Linked = {l1}
  MaxQuantity = 2
  Quantity <- MCQuantity
SYMMETRY Symmetry
INVARIANTS
  CompletesWhenReceived
CHECK_DEADLOCK FALSE
