SPECIFICATION FairSpec
CONSTANTS
  Worker = {w1, w2}
  Nobody = Nobody
  HasWider = TRUE
  Lease = 3
  Every = 1
INVARIANTS
  HealthyOwns
PROPERTIES
  AllCollected
