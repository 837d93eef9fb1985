CONSTANTS
  Addr <- MCAddr
  NonceMax = 2
  Senders = {"alice"}
  TxTargets = {"ms"}
  CallTargets = {"ms", "adm", "k1"}
  Deployers = {"ms"}
  AdminAddr = "adm"
  Coinbase = "cb"
  InitWorlds <- MCInitWorldsLondon
  CallStackLimit = 1
  London = TRUE
  Merge = TRUE
  Shanghai = TRUE
  Prevrandao = TRUE
  BaseFee = 1
  BlockGasLimit = 5
  ChainId = 1
  TxGasLimits = {4, 5}
  GasPrices = {0, 2}
  PriorityFees = {NoValue, 0, 3}
  TxNonces = {NoValue}
  TxChainIds = {NoValue}
  Values = {0, 1}
  Vals = {0, 1}
  Salts = {1}
  OutKinds = {"empty", "code", "ef", "big"}
  NoValue = NoValue
  IntrinsicCall = 1
  IntrinsicCreate = 2
  OpCost = 1
  ClearRefund = 2
  CodeDeposit = 1
  MaxCodeLen = 1
  CreateAddress <- MCCreateAddress
  Create2Address <- MCCreate2Address
  AdminInputs <- MCAdminInputs
  MultisigInit = "ms"
  RequiredGasInit = 1
  MaxTx = 1
  FailingReads = {"call_code", "create_account", "transact_coinbase"}
  InspectorResults = {}
  InspectorEndResults = {"Revert", "Continue"}
SPECIFICATION LiveSpec
INVARIANT HaltChargesFullGas
PROPERTIES TxCompletes SupplyConserved
