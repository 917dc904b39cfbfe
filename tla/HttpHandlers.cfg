SPECIFICATION FairSpec
CONSTANTS
  NoRequest = NoRequest
  Flat = FALSE
  Counters <- MCCounters
  Ds18b20Ids <- MCDs18b20Ids
  Tasks <- MCTasks
  MaxEventCount = 1
  BufferSize = 2
  FileSizes = {0, 3, 4}
  Devices = 1
INVARIANTS
  AnswerFitsOutcome
  WholeDocument
  AliveIsAwaited
PROPERTY
  EveryRequestAnswered
