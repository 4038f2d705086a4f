SPECIFICATION Spec
CONSTANTS
  Names = {db}
  Engines = {"sql", "redis"}
  Projects = {p}
  Procs = {t1, t2}
  None = None
  Url = Url
  Data = Data
  Half = Half
  Mixed = Mixed
  AgentFaults = TRUE
  MaxServices = 2
  MaxPasswords = 2
  Seconds = {1}
  MaxCrashes = 1
SYMMETRY MCSymmetry
INVARIANT TypeOK
INVARIANT CredentialsHold
INVARIANT NoOrphans
INVARIANT BackupsWhole
CHECK_DEADLOCK FALSE
