SPECIFICATION FairSpec
CONSTANTS
  Job = {j1}
  Attempt = {a1}
  Process = {p1}
  Source = {s1, s2, s3}
  None = None
  ProcessOf <- Processes
  Named <- ThreeSources
  Serving = {s1, s2}
  Resumable = {s1}
  Records = 2
  Budget = 1
  Concurrency = 2
  MaxAttempts = 1
  j1 = j1
  j2 = j2
  a1 = a1
  a2 = a2
  a3 = a3
  p1 = p1
  p2 = p2
  s1 = s1
  s2 = s2
  s3 = s3
INVARIANTS
  CompletedRunsSettled
PROPERTIES
  RunningRunSettles
