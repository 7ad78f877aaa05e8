SPECIFICATION PatientFairSpec
CONSTANTS
  MaxStart = 2
  MaxInbox = 2
  MaxThreads = 1
  VersionNumber = 1
  MinChunkSize = 1
  MaxChunkSize = 1
  Versions = {1}
  ChunkSizes = {0, 1}
  Codes = {"Start", "None", "Approved", "CriticalError", "Unknown"}
  CriticalLoss = 1
  Ratios = {1, 2}
PROPERTIES
  EventsKept
  DisconnectEnds
CHECK_DEADLOCK FALSE
