SPECIFICATION Spec
CONSTANTS
  zero = zero
  bridge = bridge
  newBridge = newBridge
  r0 = r0
  r1 = r1
  r2 = r2
  EthAddress <- MCEthAddress
  ZeroAddress = zero
  Root <- MCRoot
  ZeroRoot = r0
  ExpiryTime <- MCExpiryTime
  ONE_WEEK = 2
  TreeDepth <- MCTreeDepth
  StartTime = 1
  MaxTime = 6
INVARIANTS
  TypeOK
  LatestIsNewest
PROPERTIES
  HistoryAppendOnly
  SupersededForever
  ExpiredStaysExpired
  ZeroOwnerIsFinal
CHECK_DEADLOCK FALSE
