SPECIFICATION FairSpec
CONSTANTS
  Handshake = {1, 2}
  Leaf = {1, 2, 3, 4, 5, 6}
  Setup <- Setups
  ExpiryDays = 1
  WarningDays = 3
  RenewDays = 1
  LeafDays = 1
  CertDays = 3
  Tries = 3
  None = None
INVARIANTS TypeOK HandshakeServed EndedNotUnnoticed ChallengesAnswered
PROPERTIES LeafsCollected RenewalsApart Renewed
CHECK_DEADLOCK FALSE
