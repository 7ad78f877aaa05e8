SPECIFICATION Spec
CONSTANTS
  Peer = {p1, p2}
  Path = {f}
  IdSpace = 3
  ChunkCounts = {2}
  MaxFiles = 2
  MaxIds = 4
  Codes = {"None", "Approved", "Confirm", "Unknown"}
INVARIANTS
  TypeOK
  
  StartedOnce
PROPERTIES
  LogOnlyGrows
  IdsAreFresh
  LedgerKept
CHECK_DEADLOCK FALSE
