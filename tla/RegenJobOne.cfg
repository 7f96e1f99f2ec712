SPECIFICATION FairSpec
CONSTANTS
  N = 3
  MaxJobs = 2
  Workers = 1
  MaxFaults = 1
  Faults = {"api", "generate", "db", "timeout", "crash"}
INVARIANTS TypeOK EveryVideoArchived DirtyNotLost RowTellsTruth
PROPERTIES ProgressGrows JobsLeave
CHECK_DEADLOCK FALSE
