SPECIFICATION SingleSpec
CONSTANTS
  c1 = c1
  c2 = c2
  c3 = c3
  NoSocket = NoSocket
  Client <- ThreeClients
  FdLimit = 2
  MaxPending = 1
  MaxUid = 3
  MaxThreads = 1
  MaxStart = 0
  VersionNumber = 1
  MinChunkSize = 1
  MaxChunkSize = 1
  Versions = {1}
  ChunkSizes = {0}
  Codes = {"None"}
  CriticalLoss = 1
  Ratios = {1, 2}
SYMMETRY Symmetry
PROPERTIES
  VectorsPartPastTheEnd
  RegistryKept
  OnlyDisconnectedLeave
CHECK_DEADLOCK FALSE
