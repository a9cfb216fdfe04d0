SPECIFICATION FairSpec
CONSTANTS
  r1 = r1
  r2 = r2
  r3 = r3
  Req = {r1, r2}
  LocName <- MCLocName
  UpName <- MCUpName
  LocConf <- MCLocConf
  UpConf <- MCUpConf
  Input <- MCInput
  LocTable <- MCLocTable
  UpTable <- MCUpTable
  ServerList <- MCServerList
  MaxGen = 2
  MaxAttempts = 1
  NoConf = NoConf
  NoList = NoList
  None = None
INVARIANTS
  TypeOK
  ServerCountExact
  LocCountExact
  UpCountExact
  AdmittedBound
  RejectedNeverProxied
PROPERTIES
  EveryRequestLogged
CHECK_DEADLOCK FALSE
