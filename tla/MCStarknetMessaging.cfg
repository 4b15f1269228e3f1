SPECIFICATION Spec
CONSTANTS
  bridge = bridge
  other = other
  starkWorldID = starkWorldID
  receive_root = receive_root
  rootA = rootA
  EthAddress <- MCEthAddress
  L2Address <- MCL2Address
  Selector <- MCSelector
  Payload <- MCPayload
  MsgValue <- MCMsgValue
  MAX_L1_MSG_FEE = 2
  messageCancellationDelay = 2
  MAX_UINT256 = 5
  MaxNonce = 3
  MaxTimestamp = 5
INVARIANTS
  TypeOK
  NonceNumbersMessages
  CanceledAfterDelay
PROPERTY
  NeverPendingAgain
CHECK_DEADLOCK FALSE
