CONSTANTS
  MaxTime = 2
  MaxUint = 3
  alice = alice
  bob = bob
  utxo1 = utxo1
  utxo2 = utxo2
  utxo3 = utxo3
  log1 = log1
  log2 = log2
  Users = {bob}
  Deployer = bob
  NoOne = NoOne
  NoAnswer = NoAnswer
  Spenders = {"BurnGateway", bob}
  Intents <- LimitIntents
  Utxos = {utxo1, utxo2, utxo3}
  MintAuths <- LimitMintAuths
  ReleaseAuths = {}
  DonApproves <- LimitAnswers
  MaxRequests = 3
  FunctionsConfigs = {"config"}
  BurnLogs = {log1}
  BurnInputs <- LimitBurnInputs
  InitialMintLimit <- OnePerTwo
  InitialRedeemLimit <- OnePerTwo
  MintLimits = {}
  RedeemLimits <- Limits
  TransferAmounts = {1}
  Allowances = {3}
  Candidates = {bob}
  Requesters = {}
  Confirmations = {}
  PauseValues = {FALSE}
  Resolutions = {}
  MaxIssued = 1
  Governed = {"WrappedBitcoin"}
SPECIFICATION Spec
CONSTRAINT OwnerFirst
CHECK_DEADLOCK FALSE
INVARIANTS MintRate UsageIsCurrent
