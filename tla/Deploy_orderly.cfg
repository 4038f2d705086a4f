SPECIFICATION OrderlySpec
CONSTANTS
  NoProject = NoProject
  Projects = {p1, p2}
  Procs = {t1, t2}
  PortLo = 1
  PortHi = 2
  MaxDeployments = 3
  Foreign = {}
  AgentFaults = TRUE
SYMMETRY MCSymmetry
INVARIANT TypeOK
 
INVARIANT RunningIsRouted
 
CHECK_DEADLOCK FALSE
