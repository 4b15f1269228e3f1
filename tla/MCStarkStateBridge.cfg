SPECIFICATION L1Spec
CONSTANTS
  zero = zero
  b1 = b1
  b2 = b2
  m1 = m1
  m2 = m2
  core = core
  owner = owner
  wallet = wallet
  starkWorldID = starkWorldID
  r0 = r0
  r1 = r1
  r2 = r2
  EthAddress <- MCEthAddress
  ZeroAddress = zero
  Bridge <- MCBridge
  Manager <- MCManager
  StarknetCore = core
  L2Address <- MCL2Address
  Root <- MCRoot
  ZeroRoot = r0
  ManagerRoot <- MCManagerRoot
  RootsMayReturn = TRUE
  ExpiryTime <- MCExpiryTime
  MsgValue <- MCMsgValue
  FeeLimit <- MCFeeLimit
  DEFAULT_STARK_FEE_LIMIT = 2
  MAX_L1_MSG_FEE = 2
  MaxNonce = 2
  DeployArgs <- MCDeployArgs
  NewManager <- MCNewManager
  NewStarkWorldID <- MCL2Address
  NewCore <- MCNewCore
  NewL1Bridge <- MCNewL1Bridge
  NewOwner <- MCNewOwner
INVARIANTS
  L1TypeOK
  OnlyPublishedRootsAreSent
PROPERTY
  FeeBelowOwnLimit
