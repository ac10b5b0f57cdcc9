CONSTANTS
  r1 = r1
  r2 = r2
  Redeems = {r1, r2}
  NoAuth = NoAuth
  LogIndexes <- MCLogIndexes
  MaxTime = 0
  MaxBlock = 2
  MaxOutside = 2
  FinalityBlocks = 1
  BatchSize = 1
  AuthorizationTtl = 0
  Planned = {r1, r2}
SPECIFICATION Spec
PROPERTIES ReconciledFirst
CHECK_DEADLOCK FALSE
