SPECIFICATION Spec
CONSTANTS
  r1 = r1
  r2 = r2
  r3 = r3
  Req = {r1, r2, r3}
  LocName <- MCLocName
  UpName <- MCUpName
  LocConf <- MCLocConf
  UpConf <- MCUpConf
  Input <- LargeInput
  LocTable <- OneTable
  UpTable <- OneUpTable
  ServerList <- OneList
  MaxGen = 2
  MaxAttempts = 0
  NoConf = NoConf
  NoList = NoList
  None = None
INVARIANT MaxProcessingDoc
CHECK_DEADLOCK FALSE
