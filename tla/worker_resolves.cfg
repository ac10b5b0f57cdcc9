CONSTANTS
  r1 = r1
  r2 = r2
  c1 = c1
  c2 = c2
  Redeems = {r1, r2}
  Coins = {c1}
  NoCoin = NoCoin
  Nobody = Nobody
  RedeemDeadline <- MCDeadlines
  MaxTime = 2
  MaxBlock = 2
  MaxFaults = 1
  CustodyController = "chainlink-don"
  FinalityBlocks = 1
  ScanBatchSize = 1
  AuthorizationTtl = 0
  TooLarge = {}
SPECIFICATION FairSpec
CHECK_DEADLOCK FALSE
PROPERTIES RedeemResolves
