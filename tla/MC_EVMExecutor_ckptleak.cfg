CONSTANTS
  Addr <- MCAddr
  NonceMax = 2
  Senders = {"alice"}
  TxTargets = {"ms"}
  CallTargets = {"ms", "adm", "k1"}
  Deployers = {"ms"}
  AdminAddr = "adm"
  Coinbase = "cb"
  InitWorlds <- MCInitWorlds
  CallStackLimit = 1
  London = FALSE
  Merge = FALSE
  Shanghai = FALSE
  Prevrandao = FALSE
  BaseFee = 0
  BlockGasLimit = 4
  ChainId = 1
  TxGasLimits = {4, 5}
  GasPrices = {1}
  PriorityFees = {NoValue}
  TxNonces = {NoValue}
  TxChainIds = {NoValue}
  Values = {0, 1}
  Vals = {0, 1}
  Salts = {1}
  OutKinds = {"empty", "code", "big"}
  NoValue = NoValue
  IntrinsicCall = 1
  IntrinsicCreate = 2
  OpCost = 1
  ClearRefund = 2
  CodeDeposit = 1
  MaxCodeLen = 1
  CreateAddress <- MCCreateAddress
  Create2Address <- MCCreate2Address
  AdminInputs <- MCAdminInputs
  MultisigInit = "ms"
  RequiredGasInit = 1
  MaxTx = 2
  FailingReads = {"create_account"}
  InspectorResults = {}
  InspectorEndResults = {}
SPECIFICATION Spec
INVARIANT CheckpointsMatchFrames
