SPECIFICATION FairSpec
CONSTANTS
  Conf <- MCConf
  Setup <- MCSetup
  Interval = 10
  Cycle = 20
  MaxReloads = 2
  None = None
INVARIANTS
  TypeOK
  BackendsAsConfigured
PROPERTIES
  RecoveryFollowsFailure
  FailureReported
  RecoveryReported
