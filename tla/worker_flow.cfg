CONSTANTS
  r1 = r1
  r2 = r2
  c1 = c1
  c2 = c2
  Redeems = {r1, r2}
  Coins = {c1, c2}
  NoCoin = NoCoin
  Nobody = Nobody
  RedeemDeadline <- MCDeadlines
  MaxTime = 1
  MaxBlock = 3
  MaxFaults = 1
  CustodyController = "local-wallet"
  FinalityBlocks = 1
  ScanBatchSize = 1
  AuthorizationTtl = 0
  TooLarge = {}
SPECIFICATION Spec
SYMMETRY MCSymmetry
CHECK_DEADLOCK FALSE
INVARIANTS NoBurnSkipped CoinsReserved PaidAsSettled RowBehindChain
PROPERTIES ImplementsSettlement ForwardOnly
