SPECIFICATION Spec
CHECK_DEADLOCK FALSE
CONSTANTS
  Reviewers = {}
  MAX_RECEIPT_SCAN = 9
  MaxAutoResumes = 3
  MaxSpend = 16
  MaxSolCalls = 12
  MaxCodexJobs = 4
  MAX_SOL_CALLS_PER_ARCHITECT_RUN = 3
  MAX_PRE_SPEND_RECOVERIES_PER_SESSION = 1
  MAX_POST_SPEND_RECOVERIES_PER_SESSION = 1
  SolPassPrice = 1
  UNKNOWN_SOL_PASS_RESERVE_USD = 2
  CodexPrice = 1
  UNKNOWN_CODEX_COST_RESERVE_USD = 1
  MaxRuns = 4
  MaxDisturbances = 1
  Disturbances = {"prepush"}
  PassChoices <- ThreePasses
  CodexWork = {build, repair}
  CodexScan = 1
  MAX_REARM_SCAN = 2
INVARIANTS
  TypeOK
  NoRepeatedPackage
  FiniteAutonomy
  RepeatedOnlyUnseen

PROPERTY
  RunsAreArchitectRuns

SYMMETRY
  SamePackages
