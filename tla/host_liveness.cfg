SPECIFICATION FairSpec
CONSTANTS
  c1 = c1
  c2 = c2
  c3 = c3
  NoSocket = NoSocket
  Client <- TwoClients
  FdLimit = 2
  MaxPending = 1
  MaxUid = 2
  MaxThreads = 1
  MaxStart = 0
  VersionNumber = 1
  MinChunkSize = 1
  MaxChunkSize = 1
  Versions = {1}
  ChunkSizes = {0, 1}
  Codes = {"None", "Unknown"}
  CriticalLoss = 1
  Ratios = {1, 2}
PROPERTIES
  ClosedLeaves
  BacklogServed
  EntriesKept
CHECK_DEADLOCK FALSE
