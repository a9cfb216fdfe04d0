SPECIFICATION FairSpec
CONSTANTS
  Req <- Reqs
  Setup <- MCSetup
  MaxGen = 2
  TableSize = 1
  NoConf = NoConf
  None = None
INVARIANTS TypeOK InflightBound LoginBound VariantServed BodyAsPromised
PROPERTIES GateImplemented
CHECK_DEADLOCK FALSE
