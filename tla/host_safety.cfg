SPECIFICATION Spec
CONSTANTS
  c1 = c1
  c2 = c2
  c3 = c3
  NoSocket = NoSocket
  Client <- ThreeClients
  FdLimit = 3
  MaxPending = 1
  MaxUid = 2
  MaxThreads = 0
  MaxStart = 1
  VersionNumber = 1
  MinChunkSize = 1
  MaxChunkSize = 1
  Versions = {1}
  ChunkSizes = {0}
  Codes = {"None"}
  CriticalLoss = 1
  Ratios = {1, 2}
SYMMETRY Symmetry
INVARIANTS
  TypeOK
  PolledHavePeers
  PolledOnce
  UidsFallOncePerStart
  QueuedAreGone
  BlocksOnlyOnNewest
PROPERTIES
  VectorsPartPastTheEnd
  OfflineIsFinal
  ReplyReachesRequester
  VictimsAreLater
CHECK_DEADLOCK FALSE
