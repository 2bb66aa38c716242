SPECIFICATION FairSpec
CONSTANTS
  Keys = {k1, k2}
  Workers = {w1, w2}
  MaxMessages = 3
  GuardLen = 1
  OverflowLen = 0
  BufferLen = 1
  MinIdle = 1
PROPERTIES
  
  DrainWorkersReturns
