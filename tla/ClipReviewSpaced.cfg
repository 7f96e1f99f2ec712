SPECIFICATION Spec
CONSTANTS
  MaxReviews = 2
  N = 2
  MaxQueue = 1
  MaxRegens = 1
  MaxFaults = 2
  Text = {"continue", "regen: note", "cancel", "confirm", "8", "upload"}
  Faults = {"gs_update", "tail", "concat", "drift", "score", "crash"}
INVARIANTS CompletedWasSent MemoryOnlyFromCompleted OneMemoryPerSession ChainFrame OpenSessionReachable
PROPERTIES ApprovedWasShown
CHECK_DEADLOCK FALSE
