SPECIFICATION Spec
CHECK_DEADLOCK FALSE
CONSTANTS
  a = a
  b = b
  large = large
  clean = clean
  none = none
  Trees <- ModelTrees
  Clean = clean
  NoTree = none
  Oversized <- ModelOversized
  References <- ModelReferences
  Leaves <- ModelLeaves
  Usages <- ModelUsages
  ResponseCap = 12
  MAX_TURNS = 3
  MAX_TOTAL_TOKENS = 20
  MAX_REFERENCE_SHAS = 1
INVARIANTS
  TypeOK
  GreenUnlessDrifted
  TerminalReadyCertified
  OneResponseOverrun
  PublishedAsReported
PROPERTIES
  EveryJobEnds
