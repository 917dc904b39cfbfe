SPECIFICATION Spec
CONSTANTS
  NoRequest = NoRequest
  Flat = TRUE
  Counters <- MCCounters
  Ds18b20Ids <- MCDs18b20Ids
  Tasks <- MCTasks
  MaxEventCount = 1
  BufferSize = 2
  FileSizes = {3}
  Devices = 1
INVARIANT
  OneAnswer
