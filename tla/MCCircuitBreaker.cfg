SPECIFICATION FairSpec
CONSTANTS
  Request = {r1, r2, r3}
  Threshold = 3
  Cooldown = 2
  Timeout = 1
  MaxFails = 4
INVARIANTS
  WallHolds
  StrikesCount
PROPERTIES
  Recovers
