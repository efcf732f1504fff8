\* Two overlapping requests, two linked lines and a free one.
SPECIFICATION Spec
CONSTANTS
  r1 = r1
  r2 = r2
  l1 = l1
  l2 = l2
  l3 = l3
  Requests = {r1, r2}
  Lines = {l1, l2, l3}
  Linked = {l1, l2}
  MaxQuantity = 2
  Quantity <- MCQuantity
SYMMETRY Symmetry
INVARIANTS
  TypeOK
  GoodsAreAccountedFor
PROPERTIES
  ReceivedIsFinal
CHECK_DEADLOCK FALSE
