SPECIFICATION Spec
CONSTANTS
  Key = {k1}
  Worker = {i1, i2}
  Setup <- MCSetup
  MaxVer = 2
  MaxRestart = 1
SYMMETRY Requests
INVARIANTS
  TypeOK
  QuotaExact
  QuotaBound
  HitWhole
  NeverBack
