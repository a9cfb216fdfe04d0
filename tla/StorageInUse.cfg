SPECIFICATION Spec
CONSTANTS
  Item <- MCItem
  Value <- MCValue
  Refs <- MCRefs
  Task = {"t1", "t2", "t3"}
  Initial <- MCInitial
  Setup <- SkewSetup
  Absent = Absent
INVARIANTS
  InUseDoc
CHECK_DEADLOCK FALSE
