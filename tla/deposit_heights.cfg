CONSTANTS
  d1 = d1
  d2 = d2
  o1 = o1
  o2 = o2
  o3 = o3
  Deposits = {d1}
  Outputs = {o1}
  NoOutput = NoOutput
  PaysTo <- MCPaysTo
  Expiry <- MCExpiry
  MinConfirmations = 2
  MaxTip = 5
  MaxTime = 1
  MaxTaken = 1
  MaxFaults = 1
  AuthorizationTtl = 1
SPECIFICATION Spec
CHECK_DEADLOCK FALSE
INVARIANTS HeightsAgree
