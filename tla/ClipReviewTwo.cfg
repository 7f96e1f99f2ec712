SPECIFICATION FairSpec
CONSTANTS
  MaxReviews = 2
  N = 2
  MaxQueue = 2
  MaxRegens = 1
  MaxFaults = 1
  Text = {"continue", "regen: note", "confirm"}
  Faults = {"gs_create", "gs_update", "generate", "tail", "send", "concat", "drift", "score", "crash"}
PROPERTIES SentIsApproved ImplementsProtocol SemaphoreDrains
CHECK_DEADLOCK FALSE
