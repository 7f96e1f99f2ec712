SPECIFICATION Spec
CONSTANTS
  MaxReviews = 1
  N = 3
  MaxQueue = 2
  MaxRegens = 1
  MaxFaults = 1
  Text = {"continue", "regen: note", "regen", "cancel", "confirm", "8", "topic"}
  Faults = {"gs_create", "gs_update", "generate", "tail", "send", "concat", "drift", "score", "crash"}
INVARIANTS TypeOK ReviewedInOrder LockedTakeKept
PROPERTIES SentIsApproved CompleteUnlessLost ImplementsProtocol
CHECK_DEADLOCK FALSE
