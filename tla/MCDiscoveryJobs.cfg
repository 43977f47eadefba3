SPECIFICATION Spec
CONSTANTS
  Job = {j1}
  Owner = {o1, o2}
  NoOwner = NoOwner
  NoJob = NoJob
  Ttl = 2
  SweepAge = 2
  MaxLate = 1
  MaxAttempts = 2
  MaxEvidence = 2
SYMMETRY OwnerSymmetry
INVARIANTS
  OpenEvidenceHoldsClaim
  EvidenceInAttemptOrder
PROPERTIES
  LiveClaimKept
  CompletedIsFinal
  TerminalOnlyReopens
  ErrorsNeverLost
  ImplementsContract
