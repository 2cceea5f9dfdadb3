SPECIFICATION Spec
CHECK_DEADLOCK FALSE
CONSTANTS
  Ends <- MCPlainEnds
  ChainRuns = {1}
  OrdinaryRuns = {2}
  MaxMoves = 1
  MaxRequests = 3
  MaxReruns = 0
INVARIANTS
  TypeOK
  GatedFreezes
