SPECIFICATION Spec
CHECK_DEADLOCK FALSE
CONSTANTS
  a = a
  b = b
  large = large
  clean = clean
  none = none
  Trees <- StillTrees
  Clean = clean
  NoTree = none
  Oversized <- ModelOversized
  References <- StillReferences
  Leaves <- StillLeaves
  Usages <- ModelUsages
  ResponseCap = 12
  MAX_TURNS = 3
  MAX_TOTAL_TOKENS = 20
  MAX_REFERENCE_SHAS = 1
INVARIANT
  ReadyRestsOnGate
