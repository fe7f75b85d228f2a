CONSTANTS
  k1 = k1
  k2 = k2
  None = None
  Client <- MCClient
  MaxInstances = 2
  MaxConnects = 3
  MaxStarts = 2
  Faults = TRUE
SPECIFICATION Spec
CHECK_DEADLOCK FALSE
SYMMETRY Symmetry
INVARIANTS
  HandlesHaveOneOwner
  AnswersReachTheRequester
  QuietAfterStop
