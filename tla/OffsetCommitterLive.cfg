SPECIFICATION FairSpec
CONSTANTS
  Partitions = {p1}
  MaxOffset = 3
  MaxEpoch = 2
  MaxInFlight = 2
  Answers = {"ok", "rejected", "answerLost"}
  LookupMayFail = TRUE
PROPERTIES
  EventualCompleteness
ACTION_CONSTRAINT QuietWhileUnowned
