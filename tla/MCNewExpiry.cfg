SPECIFICATION FairSpec
CONSTANTS
  zero = zero
  b1 = b1
  b2 = b2
  m1 = m1
  m2 = m2
  core = core
  owner = owner
  outsider = outsider
  starkWorldID = starkWorldID
  placeholder = placeholder
  r0 = r0
  r1 = r1
  r2 = r2
  r3 = r3
  forged = forged
  EthAddress <- MCEthAddress
  ZeroAddress = zero
  Bridge <- OneBridge
  Manager <- OneManager
  StarknetCore = core
  L2Address <- MCL2Address
  Root <- MCRoot
  ZeroRoot = r0
  ManagerRoot <- TwoRoots
  RootsMayReturn = FALSE
  ExpiryTime <- OneExpiry
  MsgValue <- OneFee
  FeeLimit <- Nothing
  DEFAULT_STARK_FEE_LIMIT = 2
  MAX_L1_MSG_FEE = 2
  MaxNonce = 3
  DeployArgs <- Linked
  NewManager <- Nothing
  NewStarkWorldID <- Nothing
  NewCore <- Nothing
  NewL1Bridge <- Nothing
  NewOwner <- OwnerOnly
  InOrder = TRUE
  StarkWorldIDAddress = starkWorldID
  InitialL1Owner = b1
  OutsiderMessage <- Nothing
  ONE_WEEK = 7
  TreeDepth <- MCTreeDepth
  StartTime = 1
  MaxTime = 1
PROPERTY
  NewExpiryArrives
CHECK_DEADLOCK FALSE
