SPECIFICATION Spec
CONSTANTS
  q1 = q1  q2 = q2
  x = x  y = y  fee = fee
  none = none  k1 = k1
  Requests = {q1, q2}
  MaxRevisions = 2
  Lines = {x, y}
  Fees = {}
  GroupOf <- Options
  NoGroup = none
  Links = {k1}
  ByLink = TRUE
  AutoApply = TRUE
  ApprovedOnly = TRUE
SYMMETRY Symmetric
CONSTRAINT OneLineEach
INVARIANTS TypeOK AuthorizedMeansApproved InvoicedWasApproved
CHECK_DEADLOCK FALSE
