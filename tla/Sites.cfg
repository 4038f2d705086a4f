SPECIFICATION Spec
CONSTANTS
  Names = {1, 2}
  Targets = {x}
  Options = {plain, set}
  Default = plain
  Procs = {t1, t2}
  Watcher = w
  Solo = {1, 2}
  Steady = {1}
  ByHand = {}
  OpenFaults = TRUE
  None = None
  Empty = Empty
  Torn = Torn
  NoName = 0
  MaxEdits = 2
  MaxCrashes = 1
SYMMETRY MCSymmetry
INVARIANT FilesWhole
 
PROPERTY OptionsKept
CHECK_DEADLOCK FALSE
