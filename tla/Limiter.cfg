SPECIFICATION Spec
CONSTANTS
  Keys = {k1, k2, k3}
  NoKey = NoKey
  Reqs = {r1, r2}
  Cost = 1
  Burst = 1
  SiteCost = 1
  SiteBurst = 1
  MaxBuckets = 2
  SweepInterval = 2
  MaxInFlight = 1
  Lag = 1
  MaxTime = 2
  MaxReloads = 1
SYMMETRY MCSymmetry
INVARIANT TypeOK
INVARIANT RateHolds
INVARIANT SiteRateHolds
INVARIANT GivenBack
CHECK_DEADLOCK FALSE
