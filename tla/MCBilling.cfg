SPECIFICATION Spec
CONSTANTS
  Sub = {s1, s2}
  Handler = {h1, h2}
  Nothing = Nothing
  MaxFaults = 2
INVARIANTS
  OneDeliveryRuns
  ClaimsHeld
  EntitlementIsLive
SYMMETRY Symmetry
CHECK_DEADLOCK FALSE
