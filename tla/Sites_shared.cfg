SPECIFICATION FairSpec
CONSTANTS
  Names = {1}
  Targets = {x}
  Options = {plain}
  Default = plain
  Procs = {t1, t2}
  Watcher = w
  Solo = {}
  Steady = {}
  ByHand = {1}
  OpenFaults = FALSE
  None = None
  Empty = Empty
  Torn = Torn
  NoName = 0
  MaxEdits = 2
  MaxCrashes = 0
INVARIANT TypeOK
 
CHECK_DEADLOCK FALSE
