CONSTANTS
  k1 = k1
  k2 = k2
  None = None
  Client <- MCClient
  MaxInstances = 1
  MaxConnects = 1
  MaxStarts = 1
  Faults = FALSE
SPECIFICATION FairSpec
CHECK_DEADLOCK FALSE
PROPERTIES
  StopReturns
