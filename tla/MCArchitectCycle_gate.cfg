SPECIFICATION Spec
CHECK_DEADLOCK FALSE
CONSTANTS
  Heads = {h1, h2}
  FirstHead = h1
  Packages = {p}
  Tiers = {2, 3, 4}
  XHIGH = 3
  MAX = 4
  RunInputs <- ModelInputs
  MaxDisturbances = 0
  Nothing = Nothing
INVARIANT
  HumanGateVerified
