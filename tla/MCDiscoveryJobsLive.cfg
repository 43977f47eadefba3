SPECIFICATION FairSpec
CONSTANTS
  Job = {j1}
  Owner = {o1, o2}
  NoOwner = NoOwner
  NoJob = NoJob
  Ttl = 1
  SweepAge = 1
  MaxLate = 0
  MaxAttempts = 2
  MaxEvidence = 1
PROPERTIES
  AbandonedIsReleased
  RetryWindowOpens
