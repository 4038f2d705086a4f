SPECIFICATION Spec
CONSTANTS
  Addrs = {a1, a2}
  Reqs = {r1, r2}
  Users = {u1, u2}
  TwoFactor = {u2}
  None = None
  Short = Short
  Max = 2
  Lockout = 2
  Window = 2
  MaxKeys = 1
  PendingAge = 2
  SessionAge = 2
  Period = 1
  Lag = 1
  MaxTime = 3
  MaxTokens = 2
  MaxTries = 4
  MaxKeyFiles = 2
  MaxCrashes = 1
SYMMETRY MCSymmetry
INVARIANT TypeOK
INVARIANT GuessBound
INVARIANT LockEarned
INVARIANT SessionEarned
INVARIANT KeysSurvive
CHECK_DEADLOCK FALSE
