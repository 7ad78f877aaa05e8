SPECIFICATION Spec
CONSTANTS
  FileSizes = {0, 3, 6, 7, 17}
  ChunkSizes = {2, 3}
  ShortSpace = 8
  HeaderChunks = {0, 3}
  UnsetTickets = {0, 5}
  MaxQueue = 2
  MaxDone = 5
INVARIANTS
  TypeOK
  WhinesFirstMissing
  DoneAreCounted
  TicketPerItem
PROPERTIES
  DownloadKept
CHECK_DEADLOCK FALSE
