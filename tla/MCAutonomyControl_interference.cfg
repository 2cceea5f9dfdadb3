SPECIFICATION Spec
CHECK_DEADLOCK FALSE
CONSTANTS
  Reviewers = {"CLAUDE_CODE"}
  MAX_RECEIPT_SCAN = 4
  MaxAutoResumes = 2
  MaxSpend = 12
  MaxSolCalls = 8
  MaxCodexJobs = 1
  MAX_SOL_CALLS_PER_ARCHITECT_RUN = 3
  MAX_PRE_SPEND_RECOVERIES_PER_SESSION = 1
  MAX_POST_SPEND_RECOVERIES_PER_SESSION = 1
  SolPassPrice = 1
  UNKNOWN_SOL_PASS_RESERVE_USD = 2
  CodexPrice = 1
  UNKNOWN_CODEX_COST_RESERVE_USD = 1
  MaxRuns = 3
  MaxDisturbances = 2
  Disturbances = {"dispatch", "rearm", "prepush", "postpush", "rerun", "replay", "diagnostic", "crash", "loss"}
  PassChoices <- ThreePasses
  CodexWork = {1}
  CodexScan = 1
  MAX_REARM_SCAN = 2
INVARIANTS
  WithinCaps
  TrueSolWithinCap
  OneDispatchPerEvent
  ChildClaimedOnce
  RearmedOnlyUnseen
PROPERTIES
  KeepsPromise
