SPECIFICATION Spec
CONSTANTS
  Item <- MCItem
  Value <- MCValue
  Refs <- MCRefs
  Task = {"t1", "t2", "t3"}
  Initial <- MCInitial
  Setup <- MCSetup
  Absent = Absent
INVARIANTS
  TypeOK
  UpdateKept
  NothingVanishes
CHECK_DEADLOCK FALSE
