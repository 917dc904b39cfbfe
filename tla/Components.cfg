SPECIFICATION MCSpec
CONSTANTS
  MaxConnection = 2
  ReadsNetwork = FALSE
  MaxEvents = 3
  max_retry_count = 1
  ConnectFails = FALSE
  MaxStarts = 2
  MaxLosses = 4
  TaskIds = {"a", "b"}
  MaxTaskBits = 2
  Intervals = {2, 5}
  MaxTasks = 2
  MaxRunTime = 2
  RoundDelay = 1
  MaxTime = 14
  MaxStrays = 2
  MaxParts = 2
  MaxRequests = 2
  MaxWaits = 2
  NumHandlers = 3
  Services = {"s1", "s2"}
  value_min = 1
  value_max = 7
  RawMax = 8
  Unmeasured = Unmeasured
  States = {1, 2, 3}
  HandlerCount <- MCHandlerCount
  OperationModes = {"Sleep", "Forced", "Normal"}
  MaxMeasurements = 4
  MaxActivations = 3
  MaxMishaps = 2
  Width = 3
  MaxDevices = 3
  BusWidth = 2
  RomCodes <- MCRomCodes
  Command <- MCCommand
  Ids = {"a", "b"}
  Channels = {1, 2}
  MaxCount = 5
  MaxPipelines = 5
  TimeModulus = 8
  NumberMax = 2
  MaxLength = 5
  Bytes <- MCBytes
  Temperatures <- MCTemperatures
INVARIANTS
  ServerFollowsNetwork
  ConnectionsCounted
  ServerFollowsConnection
  NoTaskStarves
  DelayAccounted
  ResponseIsRead
  FailureStaysAlone
  AnalogReadings
  HeatingsAccounted
  EachDeviceOnce
  BytesCarried
  AssemblyAccounted
  AlgorithmsAgree
PROPERTIES
  FailedStartStopsServer
  EveryWaitReturns
  EveryTickAnswered
  TransitionIsTold
  DataOfTheRequest
CHECK_DEADLOCK FALSE
