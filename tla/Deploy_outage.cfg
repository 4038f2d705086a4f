SPECIFICATION DeploysSpec
CONSTANTS
  NoProject = NoProject
  Projects = {p1}
  Procs = {t1, t2}
  PortLo = 1
  PortHi = 2
  MaxDeployments = 2
  Foreign = {}
  AgentFaults = FALSE
SYMMETRY MCSymmetry
PROPERTY NoOutage
CHECK_DEADLOCK FALSE
