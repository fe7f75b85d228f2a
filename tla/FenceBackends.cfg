CONSTANTS
  MaxSyncs = 4
  Joined = 2
  KernelPoints = 2
  Parallel = 1
  QueuePoints = 3
  MaxFailures = 2
  MaxWork = 1
  Fence = Fence
  NoQueue = NoQueue
  NoSync = NoSync
SPECIFICATION FairSpec
CHECK_DEADLOCK FALSE
INVARIANTS
  EverySyncHasOneHolder
  NoSyncOutlivesTheContext
  CompletionCoversAllContexts
  CompletionCoversTheQueues
  QueuesNeverLock
PROPERTIES
  IsATimeline
  CompletionNeedsASignal
  DestructorReturns
  QueuesDrain
