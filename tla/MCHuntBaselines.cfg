SPECIFICATION Spec
CONSTANTS
  Record = {1, 2}
  Value <- Values
  Nothing = Nothing
  Verdict <- Criteria
  Job = {job}
  Request = {request}
  MaxObs <- Observations
INVARIANTS
  RowOfItsCriteria
  ChangesTold
  ToldOnce
PROPERTIES
  BaselineForward
CHECK_DEADLOCK FALSE
