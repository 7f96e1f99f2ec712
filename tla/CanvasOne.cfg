SPECIFICATION CanvasSpec
CONSTANTS
  N = 2
  MaxJobs = 1
  Workers = 1
  MaxFaults = 1
  Faults = {"generate", "crash"}
  Shots <- MCShots
  FirstFrames <- MCFirstFrames
  Permits = 1
  Cost = 200
INVARIANTS CanvasTypeOK PageHasHistory
PROPERTIES PreviewAnswered
