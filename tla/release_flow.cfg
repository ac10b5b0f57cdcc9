CONSTANTS
  r1 = r1
  r2 = r2
  Redeems = {r1, r2}
  NoAuth = NoAuth
  LogIndexes <- MCLogIndexes
  MaxTime = 1
  MaxBlock = 3
  MaxOutside = 1
  FinalityBlocks = 1
  BatchSize = 1
  AuthorizationTtl = 0
  Planned = {r1, r2}
SPECIFICATION FairSpec
INVARIANTS ScanMissesNoBurn AuthorizedWhenFinal ConsumedForReal
PROPERTIES ImplementsCommitment ReleasesComplete
CHECK_DEADLOCK FALSE
