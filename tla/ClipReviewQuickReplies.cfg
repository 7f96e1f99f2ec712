SPECIFICATION Spec
CONSTANTS
  MaxReviews = 1
  N = 2
  MaxQueue = 2
  MaxRegens = 0
  MaxFaults = 0
  Text = {"continue", "confirm", "topic"}
  Faults = {}
PROPERTIES ApprovedWasShown
CHECK_DEADLOCK FALSE
