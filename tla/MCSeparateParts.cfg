SPECIFICATION MCSpec
CONSTANTS
  MaxOffset = 3
  MaxRead = 2
  Firsts = {FALSE}
  Assignments = {"Assign"}
  MaxBuffered = 3
  BucketCount = 3
  BucketSeconds = 2
  Durations = {1, 2}
  MaxSeconds = 8
  MaxRecords = 3
  Receivers = {r1, r2}
  Stops = {s1, s2}
  MaxBuffer = 2
  MaxPackets = 4
  MaxSetting = 1073741823
  Bytes = {0, 97, 255}
  MaxKeyLen = 2
INVARIANTS
  WalkIsFlush
  ScanIsRepair
  WorkItemAccounting
  WindowIsHistory
  StopDrains
  BufferBounded
  AcceptedConfigSuits
  SecondBuildAgrees
PROPERTIES
  CurrentSnapshotLabelled
CHECK_DEADLOCK FALSE
