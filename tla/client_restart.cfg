SPECIFICATION Spec
CONSTANTS
  MaxStart = 2
  MaxInbox = 1
  MaxThreads = 0
  VersionNumber = 1
  MinChunkSize = 1
  MaxChunkSize = 1
  Versions = {1}
  ChunkSizes = {1}
  Codes = {"None", "Approved", "Unknown"}
  CriticalLoss = 1
  Ratios = {1, 2}
INVARIANTS
  TypeOK
  StartupComplete
  NewestSelfHasSocket
CHECK_DEADLOCK FALSE
