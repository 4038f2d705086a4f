SPECIFICATION Spec
CONSTANTS
  None = None
  Mixed = Mixed
  Alien = Alien
  Faults = TRUE
  MaxPushes = 3
  MaxClicks = 3
  MaxCrashes = 2
INVARIANT TypeOK
 
INVARIANT WholeAtRest
PROPERTY Fresh
CHECK_DEADLOCK FALSE
