SPECIFICATION FairSpec
CONSTANTS
  Drains = {revoke, shutdown}
  MaxItems = 4
  QueueLen = 2
  ReadBatchSize = 2
INVARIANTS
  
  TokenComes
  
PROPERTIES
  DrainReturns
