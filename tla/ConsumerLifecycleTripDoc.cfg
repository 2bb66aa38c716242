SPECIFICATION LifecycleFairSpec
CONSTANTS
  Shutdowns = {s1, s2}
PROPERTIES
  LaterTripHeard
