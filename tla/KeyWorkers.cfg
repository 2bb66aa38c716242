SPECIFICATION Spec
CONSTANTS
  Keys = {k1, k2}
  Workers = {w1, w2, w3}
  MaxMessages = 3
  GuardLen = 1
  OverflowLen = 1
  BufferLen = 1
  MinIdle = 0
INVARIANTS
  KeyOrder
  TokensBalance
  NoSilentLoss
  ReachableAlive
  
  

  
SYMMETRY Symmetry
