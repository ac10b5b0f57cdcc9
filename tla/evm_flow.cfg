CONSTANTS
  MaxTime = 1
  MaxUint = 3
  alice = alice
  bob = bob
  utxo1 = utxo1
  utxo2 = utxo2
  utxo3 = utxo3
  log1 = log1
  log2 = log2
  Users = {bob}
  Deployer = bob
  NoOne = NoOne
  NoAnswer = NoAnswer
  Spenders = {"BurnGateway"}
  Intents <- MCIntents
  Utxos = {utxo1, utxo2}
  MintAuths <- MCMintAuths
  ReleaseAuths <- MCReleaseAuths
  DonApproves <- MCDonApproves
  MaxRequests = 3
  FunctionsConfigs = {"config"}
  BurnLogs = {log1, log2}
  BurnInputs <- MCBurnInputs
  InitialMintLimit <- NoLimit
  InitialRedeemLimit <- NoLimit
  MintLimits = {}
  RedeemLimits = {}
  TransferAmounts = {1}
  Allowances = {1}
  Candidates = {}
  Requesters = {}
  Confirmations = {}
  PauseValues = {}
  Resolutions = {"BURNED", "CANCELLED"}
  MaxIssued = 1
  Governed = {}
SPECIFICATION Spec
CHECK_DEADLOCK FALSE
INVARIANTS EvmTypeOK SupplyBacked OneMintPerDeposit MintAuthorized ReleaseAuthorized ApprovalsAgree
PROPERTIES RedeemFinality ImplementsLedger
