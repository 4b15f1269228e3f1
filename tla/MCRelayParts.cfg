SPECIFICATION MCSpec
CONSTANTS
  POLL_INTERVAL = 4
  RECONNECT_POLL_DELAY = 2
  backoff_schedule <- Schedule
  max_retries = 3
  CHANNEL_CAPACITY = 2
  MaxTime = 10
  balance_poll_interval = 3
  max_balance_history = 2
  Balance <- Balances
  GasPrice <- GasPrices
  MaxClock = 9
  r1 = r1
  r2 = r2
  r3 = r3
  r4 = r4
  CacheRoot <- Roots
  max_size = 2
  MaxInserts = 5
  UINT256_PART_SIZE = 4
INVARIANTS
  ClockTypeOK
  PollComes
  CatchUpAfterReconnect
  RetryPaced
  GaugeShowsConnection
  HistoryIsLatest
  GaugesShowNewest
  CacheIsWindow
  EncodingsAgree
PROPERTY
  NoBurst
CHECK_DEADLOCK FALSE
