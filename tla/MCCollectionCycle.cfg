SPECIFICATION Spec
CONSTANTS
  Job = {j1, j2}
  Attempt = {a1, a2, a3}
  Process = {p1, p2}
  Source = {s1}
  None = None
  ProcessOf <- Processes
  Named <- Overlapping
  Serving = {s1}
  Resumable = {s1}
  Records = 3
  Budget = 1
  Concurrency = 1
  MaxAttempts = 2
  j1 = j1
  j2 = j2
  a1 = a1
  a2 = a2
  a3 = a3
  p1 = p1
  p2 = p2
  s1 = s1
  s2 = s2
  s3 = s3
SYMMETRY SameProcess
INVARIANTS
  TypeOK
  CheckpointCovered
  FullSweepHonest
PROPERTIES
  OutcomesOnlyUnderClaim
  CompletedRunsFrozen
  KeepsContract
