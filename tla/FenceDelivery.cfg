CONSTANTS
  MaxPoints = 3
  MaxCalls = 4
SPECIFICATION FairSpec
CHECK_DEADLOCK FALSE
INVARIANTS
  OnlyCompletedPointsRun
  QuietAfterDestruction
PROPERTIES
  KeepsThePromise
  CompletedAreDelivered
