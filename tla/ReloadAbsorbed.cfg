SPECIFICATION FairSpec
CONSTANTS
  BrokenUp = {}
  BrokenLoc = {}
  BrokenPlugin = {}
  Mode <- AcmeMode
  MaxEdits = 1
PROPERTIES
  HotReloadDoc
