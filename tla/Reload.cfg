SPECIFICATION FairSpec
CONSTANTS
  BrokenUp = {}
  BrokenLoc = {}
  BrokenPlugin = {}
  Mode <- AllModes
  MaxEdits = 2
INVARIANTS
  TypeOK
  RunningConfig
  DanglingOnlyMidReload
  RestartOnlyForCore
PROPERTIES
  HotConverges
  CoreConverges
  
CHECK_DEADLOCK FALSE
