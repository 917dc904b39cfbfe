SPECIFICATION FairSpec
CONSTANTS
  MaxConnection = 2
  ReadsNetwork = TRUE
  MaxEvents = 3
PROPERTY FailedStartStopsServer
CHECK_DEADLOCK FALSE
