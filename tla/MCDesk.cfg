\* One estimate request at a time; two transactions, revocations or closes at once.
SPECIFICATION DeskSpec
CONSTANTS
  x = x
  y = y
  fee = fee
  none = none
  k1 = k1
  consumables = consumables
  supplies = supplies
  disposal = disposal
  ann = ann
  bob = bob
  key1 = key1
  key2 = key2
  ro = ro
  ab = ab
  Requests = {q1}
  MaxRevisions = 2
  Lines = {x, y, fee}
  Fees = {fee}
  GroupOf <- Options
  NoGroup = none
  Links = {k1}
  ByLink = FALSE
  AutoApply = TRUE
  ApprovedOnly = TRUE
  Users = {ann, bob}
  Orgs = {org1, org2}
  Invitations = {inv1}
  Keys = {key1, key2}
  SenderOf <- Sender
  Nobody = Nobody
  NoOrg = NoOrg
  Sessions = {s1, s2}
  Idle = Idle
  Promotions = FALSE
  Grants = {g1, g2, g3}
  Staff = {ann, bob, cid}
  Revocations = {r1, r2}
  NoGrant = NoGrant
  Outsider = Outsider
  Drawers = {d1, d2}
  Cashiers = {ann}
  House = House
  Payments = {p1, p2}
  NoDrawer = NoDrawer
  Closers = {c1, c2}
  MaxClock = 2
  Offered <- Menu
  MaxLines = 2
  ShopFees = {consumables, supplies, disposal}
  FeeOf <- FeeCatalog
  NoMaximum = NoMaximum
  NoFee = NoFee
  NotBilled = NotBilled
  Clerks = {c1, c2}
  Locations = {north}
  Prefixes = {ro, ab}
  Rank <- Alphabet
  NoPrefix = NoPrefix
  First = 9
  Last = 10
  Width <- Tens
  Errands = {e1}
  Dispatchers = {m1, m2}
  JobOrders = {w1, w2}
  NoErrand = NoErrand
  NoJobOrder = NoJobOrder
  Schedules = {oil}
  Sweeps = {v1, v2}
  NoSchedule = NoSchedule
  Interval = 2
  Cooldown = 2
  MaxTime = 3
  MaxFaults = 1
INVARIANTS
  DeskTypeOK
  OwnerRemains
  FoundedAsAllowed
  MembersWereInvited
  AdminRemains
  CountedOnce
  CreditUndoes
  Gapless
  ErrandsAreTraceable
  RemindersSpaced
PROPERTY
  ImplementsAgreement
CHECK_DEADLOCK FALSE
