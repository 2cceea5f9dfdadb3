SPECIFICATION FairSpec
CHECK_DEADLOCK FALSE
CONSTANTS
  Candidates = {t1, t2}
  Corrections = {m}
  PersonTrees = {x}
  MaxAttempts = 3
  MaxPulls = 3
  MaxDisturbances = 2
  Nothing = Nothing
INVARIANTS
  TypeOK
  QuietJobResumes
  BindingExact
PROPERTIES
  NoWorkLost
  ControllersEnd
