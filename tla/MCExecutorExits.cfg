SPECIFICATION MCServiceSpec
CONSTANTS
  zero = zero
  b1 = b1
  m1 = m1
  core = core
  owner = owner
  starkWorldID = starkWorldID
  r0 = r0
  r1 = r1
  r2 = r2
  r3 = r3
  EthAddress <- MCEthAddress
  ZeroAddress = zero
  Bridge <- MCBridge
  Manager <- MCManager
  StarknetCore = core
  L2Address <- MCL2Address
  Root <- MCRoot
  ZeroRoot = r0
  ManagerRoot <- ThreeRoots
  RootsMayReturn = FALSE
  ExpiryTime <- Nothing
  MsgValue = {0, 1, 9}
  FeeLimit <- Nothing
  DEFAULT_STARK_FEE_LIMIT = 2
  MAX_L1_MSG_FEE = 2
  MaxNonce = 3
  DeployArgs <- MCDeployArgs
  NewManager <- Nothing
  NewStarkWorldID <- Nothing
  NewCore <- Nothing
  NewL1Bridge <- Nothing
  NewOwner <- MCOwner
  InOrder = TRUE
  StarkWorldIDAddress = starkWorldID
  InitialL1Owner = b1
  OutsiderMessage <- Nothing
  ONE_WEEK = 7
  TreeDepth <- MCTreeDepth
  StartTime = 1
  MaxTime = 1
  max_size = 3
  bridge_l1 = b1
  identity_manager = m1
  fee_type = "Estimate"
  DEFAULT_FEE = 1
  MAX_ESTIMATED_FEE_WEI = 1
  NO_FEE = 0
  overall_fee <- LowFee
  CHANNEL_CAPACITY = 1
  ClearsCache <- Never
  MaxFaults = 0
INVARIANT
  ExecutorServes
CHECK_DEADLOCK FALSE
