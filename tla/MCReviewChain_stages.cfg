SPECIFICATION Spec
CHECK_DEADLOCK FALSE
CONSTANTS
  Ends <- MCEnds
  ChainRuns = {1}
  OrdinaryRuns = {}
  MaxMoves = 2
  MaxRequests = 3
  MaxReruns = 1
INVARIANTS
  StagesInOrder
  FinalOnWholeChain
  AcceptedIsReviewed
PROPERTIES
  OneAdvicePerCompletion
