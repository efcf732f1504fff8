\* Two drains that finish within their lease, one crash or database error.
SPECIFICATION Spec
CONSTANTS
  e1 = e1
  e2 = e2
  e3 = e3
  w1 = w1
  w2 = w2
  o1 = o1
  NoEvent = NoEvent
  Events = {e1, e2, e3}
  Workers = {w1, w2}
  Orgs = {o1}
  OrgOf <- MCOrgOf
  BatchSize = 2
  MaxAttempts = 2
  Lease = 2
  BackoffBase = 1
  MaxAge = 0
  MaxFaults = 1
  EffectCap = 4
  Overrun = FALSE
SYMMETRY Symmetry
INVARIANTS
  TypeOK
  DrainsAreExclusive
  DeadLetterJustified
  EffectsExplained
PROPERTIES
  AttemptsNeverRegress
  ImplementsPromise
