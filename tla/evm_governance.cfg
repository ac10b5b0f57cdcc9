CONSTANTS
  MaxTime = 0
  MaxUint = 1
  alice = alice
  bob = bob
  utxo1 = utxo1
  log1 = log1
  Users = {alice, bob}
  Deployer = bob
  Relayer = alice
  NoOne = NoOne
  NoAnswer = NoAnswer
  Spenders = {"BurnGateway", alice}
  Intents <- OneIntent
  Utxos = {utxo1}
  MintAuths <- OneMintAuth
  ReleaseAuths = {}
  DonApproves <- OneAnswer
  MaxRequests = 1
  FunctionsConfigs = {"config"}
  FunctionsPlans <- MCFunctionsPlans
  HandPlans <- MCHandPlans
  DeployOptions <- MCDeployOptions
  BurnLogs = {log1}
  BurnInputs = {}
  InitialMintLimit <- NoLimit
  InitialRedeemLimit <- NoLimit
  MintLimits <- NoLimits
  RedeemLimits = {}
  TransferAmounts = {1}
  Allowances = {}
  Candidates <- MCCandidates
  Requesters = {}
  Confirmations = {1}
  PauseValues = {}
  Resolutions = {}
  MaxIssued = 1
  Governed = {"WrappedBitcoin"}
SPECIFICATION DeploymentSpec
CHECK_DEADLOCK FALSE
INVARIANTS LockdownReported SupplyIsBalances
PROPERTIES RolesFinal LockedDown
