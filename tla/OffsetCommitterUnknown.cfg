SPECIFICATION Spec
CONSTANTS
  Partitions = {p1}
  MaxOffset = 3
  MaxEpoch = 2
  MaxInFlight = 2
  Answers = {"ok", "answerLost"}
  LookupMayFail = TRUE
INVARIANTS
  RegressInv
  AtLeastOnce
  SafetyInv
PROPERTIES
  CommitOwnership
  RegressOnlyByOrphan
ACTION_CONSTRAINT CompactWhileUnowned
