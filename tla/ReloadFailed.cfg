SPECIFICATION Spec
CONSTANTS
  BrokenUp = {}
  BrokenLoc <- BrokenLocSet
  BrokenPlugin = {}
  Mode <- BrokenMode
  MaxEdits = 1
INVARIANTS
  RunningConfig
