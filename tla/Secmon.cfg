SPECIFICATION Spec
CONSTANTS
  Addrs = {a1, a2}
  Users = {u1, u2}
  None = None
  TailLines = 3
  MaxEvents = 1
  Threshold = 2
  CacheTTL = 1
  BuildTime = 1
  Hour = 1
  Hours = 2
  Day = 1
  Year = 3
  Undated = {"password"}
  MaxTime = 4
  MaxLogins = 2
  MaxLines = 4
SYMMETRY MCSymmetry
INVARIANT TypeOK
INVARIANT ReportExact
INVARIANT CacheHolds
CHECK_DEADLOCK FALSE
