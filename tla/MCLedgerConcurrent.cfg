\* Two overlapping requests and server crashes.
SPECIFICATION Spec
CONSTANTS
  r1 = r1
  r2 = r2
  p1 = p1
  p2 = p2
  p3 = p3
  d1 = d1
  c1 = c1
  Counter = Counter
  Nothing = Nothing
  Requests = {r1, r2}
  Total = 2
  Payments = {p1, p2}
  Deposits = {d1}
  Checkouts = {c1}
  MaxTenders = 2
  MayCrash = TRUE
  DepositAmount <- MCDepositAmount
SYMMETRY Symmetry
INVARIANTS
  TypeOK
  StatusMatchesPaid
  DepositPaysOnce
  CardRefundsWereMade
PROPERTIES
  MoneyOnlyOnIssued
CHECK_DEADLOCK FALSE
