SPECIFICATION Spec
CONSTANTS
  t1 = t1
  t2 = t2
  t3 = t3
  Flow <- ThreeThreads
  CountSpace = 4
  MaxChunks = 4
  Codes = {"None", "Approved", "Rejected"}
  CriticalLoss = 1
  Ratios = {1, 2}
SYMMETRY Symmetry
PROPERTIES
  NoPushIntoDeleted
CHECK_DEADLOCK FALSE
