SPECIFICATION Spec
CONSTANTS
  Domains = {d1, d2}
  Steady = {d1}
  Reqs = {r1, r2}
  Order <- MCOrder
  None = None
  Buckets = 2
  Lag = 1
  MaxTime = 2
  MaxReqs = 3
  MaxReloads = 1
  MaxStats = 3
INVARIANT TypeOK
INVARIANT Counted
INVARIANT WindowExact
INVARIANT CutOnlyLate
PROPERTY Ends
CHECK_DEADLOCK FALSE
