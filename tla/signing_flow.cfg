CONSTANTS
  domain = domain
  treasury = treasury
  payee = payee
  requester = requester
  tx = tx
  coin1 = coin1
  coin2 = coin2
  policy = policy
  r1 = r1
  r2 = r2
  NoRow = NoRow
  NoPlan = NoPlan
  Domain = domain
  Network = 1
  SourceChain = 1
  SignerSet <- MCSignerSet
  Threshold = 2
  Honest = {1}
  Outsiders = {3}
  MaxTtl = 1
  MaxClockSkew = 0
  MinTimeToDeadline = 0
  Authorizations = {"first", "fresh", "second"}
  Psbts = {"plain", "replay", "other"}
  Artifact <- MCArtifact
  Burn <- MCBurn
  Logs = {0, 1}
  Finality = 1
  MaxReorg = 1
  MaxHeight = 2
  MaxFork = 1
  MaxTime = 1
  Runs = {r1, r2}
  MaxFaults = 1
SPECIFICATION FairSpec
ACTION_CONSTRAINT StagesInOrder
INVARIANTS ApprovedIsFinal SignedIsAttested OnePaymentPerBurn
PROPERTIES ImplementsSigning SigningResolves
CHECK_DEADLOCK FALSE
