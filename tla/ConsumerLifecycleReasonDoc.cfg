SPECIFICATION LifecycleSpec
CONSTANTS
  Shutdowns = {s1, s2}
INVARIANTS
  CompletedTripReported
