SPECIFICATION FairSpec
CONSTANTS
  max_retry_count = 1
  ConnectFails = TRUE
  MaxStarts = 1
  MaxLosses = 2
PROPERTY EveryWaitReturns
CHECK_DEADLOCK FALSE
