\* One request at a time, three units of money, server crashes.
SPECIFICATION Spec
CONSTANTS
  r1 = r1
  r2 = r2
  p1 = p1
  p2 = p2
  p3 = p3
  d1 = d1
  c1 = c1
  Counter = Counter
  Nothing = Nothing
  Requests = {r1}
  Total = 3
  Payments = {p1, p2, p3}
  Deposits = {d1}
  Checkouts = {c1}
  MaxTenders = 2
  MayCrash = TRUE
  DepositAmount <- MCDepositAmount
SYMMETRY Symmetry
INVARIANTS
  LedgerBalanced
  RefundWithinPayment
  CheckoutPaysOnce
PROPERTIES
  ImplementsAccount
CHECK_DEADLOCK FALSE
