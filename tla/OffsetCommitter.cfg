SPECIFICATION Spec
CONSTANTS
  Partitions = {p1}
  MaxOffset = 3
  MaxEpoch = 2
  MaxInFlight = 2
  Answers = {"ok", "rejected", "answerLost"}
  LookupMayFail = FALSE
INVARIANTS
  MonotonicInv
PROPERTIES
  CommitMonotonic
  ImplementsCommitLog
ACTION_CONSTRAINT CompactWhileUnowned
