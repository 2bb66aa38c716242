SPECIFICATION FairSpec
CONSTANTS
  Burst = 1
  BufferSize = 1
  MaxMessages = 3
  Capacity = 2
CHECK_DEADLOCK FALSE
INVARIANTS
  CleanShutdownAccountsForAll
  DrainedBeforeUnsubscribe
  ShutdownIndInv
PROPERTIES
  ShutdownReturns
  
