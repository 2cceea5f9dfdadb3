SPECIFICATION Spec
CHECK_DEADLOCK FALSE

CONSTANTS
  Repo = "DEEPSEEK"
  Targets = {"pr"}
  Decisions <- MCDecisions
  MAX_RECOVERY_ATTEMPTS = 2
  MaxRuns = 3
  MaxDisturbances = 1
  Disturbances = {"push", "crash", "dispatch", "timeout", "rerun"}

INVARIANTS
  TypeOK
  RecoveredUnwritten

PROPERTIES
  KeepsRequests
  RetriesOnlyWhatFailed
