SPECIFICATION Spec
CONSTANTS
  Drains = {revoke, shutdown}
  MaxItems = 2
  QueueLen = 2
  ReadBatchSize = 2
INVARIANTS
  DrainCoversAllAsDocumented
