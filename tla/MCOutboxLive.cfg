\* Drains that may overrun their lease, batches of one row, oldest row first.
SPECIFICATION FairSpec
CONSTANTS
  e1 = e1
  e2 = e2
  e3 = e3
  w1 = w1
  w2 = w2
  o1 = o1
  NoEvent = NoEvent
  Events = {e1, e2}
  Workers = {w1, w2}
  Orgs = {o1}
  OrgOf <- MCOrgOf
  BatchSize = 1
  MaxAttempts = 2
  Lease = 1
  BackoffBase = 1
  MaxAge = 1
  MaxFaults = 1
  EffectCap = 0
  Overrun = TRUE
PROPERTIES
  EventuallySettled
