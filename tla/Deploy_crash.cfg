SPECIFICATION CrashSpec
CONSTANTS
  NoProject = NoProject
  Projects = {p1, p2}
  Procs = {t1, t2}
  PortLo = 1
  PortHi = 2
  MaxDeployments = 3
  Foreign = {}
  AgentFaults = FALSE
SYMMETRY MCSymmetry
INVARIANT ReservedWhileRunning
INVARIANT CleanAfterSuccess
 
CHECK_DEADLOCK FALSE
