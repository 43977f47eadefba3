SPECIFICATION Spec
CONSTANTS
  Record = {1, 2}
  Value <- Values
  Nothing = Nothing
  Verdict <- Criteria
  Job = {}
  Request = {request}
  MaxObs <- Observations
INVARIANTS
  ToldAfterEdit
CHECK_DEADLOCK FALSE
