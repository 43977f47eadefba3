SPECIFICATION FairLockSpec
CONSTANTS
  Writer = {w1, w2, w3, w4}
  NoWriter = NoWriter
  Kind = {"plain", "takeover", "ledger"}
  Stale = 2
  MaxDead = 2
INVARIANTS
  Exclusive
  ChainValid
PROPERTIES
  KeepsContract
  EveryoneAnswered
