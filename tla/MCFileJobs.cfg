SPECIFICATION FairSpec
CONSTANTS
  Proc = {p1}
  Key = {k1}
  NoKey = NoKey
  MaxJobs = 1
  MaxCreated = 3
  MaxBusy = 1
  MaxDeaths = 1
INVARIANTS
  CompletedEarned
PROPERTIES
  ConclusionKept
  KeyConcluded
CHECK_DEADLOCK FALSE
