SPECIFICATION FairSpec
CONSTANTS
  NoProject = NoProject
  Projects = {p1}
  Procs = {t1, t2}
  PortLo = 1
  PortHi = 2
  MaxDeployments = 2
  Foreign = {}
  AgentFaults = TRUE
INVARIANT OwnersExist
 
 
CHECK_DEADLOCK FALSE
