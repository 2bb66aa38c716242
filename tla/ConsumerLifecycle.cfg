SPECIFICATION LifecycleFairSpec
CONSTANTS
  Shutdowns = {s1, s2}
INVARIANTS
  HeardAtMostOnce
PROPERTIES
  
  ObserverReleased
  TripHeard
