SPECIFICATION Spec
CHECK_DEADLOCK FALSE
CONSTANTS
  Reviewers = {"CLAUDE_CODE"}
  MAX_RECEIPT_SCAN = 20
  MaxAutoResumes = 2
  MaxSpend = 16
  MaxSolCalls = 12
  MaxCodexJobs = 3
  MAX_SOL_CALLS_PER_ARCHITECT_RUN = 3
  MAX_PRE_SPEND_RECOVERIES_PER_SESSION = 1
  MAX_POST_SPEND_RECOVERIES_PER_SESSION = 1
  SolPassPrice = 1
  UNKNOWN_SOL_PASS_RESERVE_USD = 2
  CodexPrice = 1
  UNKNOWN_CODEX_COST_RESERVE_USD = 1
  MaxRuns = 5
  MaxDisturbances = 0
  Disturbances = {}
  PassChoices <- InitialPass
  CodexWork = {}
  CodexScan = 1
  MAX_REARM_SCAN = 2
INVARIANT
  OnePreSpendRecoveryPerSession
