CONSTANTS
  k1 = k1
  k2 = k2
  None = None
  Client <- MCClient
  MaxInstances = 1
  MaxConnects = 2
  MaxStarts = 2
  Faults = TRUE
SPECIFICATION FairSpec
CHECK_DEADLOCK FALSE
PROPERTIES
  StartReturns
  WorkerIsWoken
  LeaversAreReleased
