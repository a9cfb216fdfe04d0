SPECIFICATION Spec
CONSTANTS
  Key = {k1}
  Worker = {i1, i2}
  Setup <- LargeSetup
  MaxVer = 2
  MaxRestart = 0
INVARIANT PutDoc
