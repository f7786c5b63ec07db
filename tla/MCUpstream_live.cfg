SPECIFICATION FairSpec
CONSTANTS
  Callers = {c1, c2}
  Recoveries = {r1, r2}
  Configs = {cfgA}
  None = None
  MaxFailures = 1
  ResetTimeout = 1
  MaxRetries = 1
  MaxGeneration = 1
  MaxEdits = 0
PROPERTIES ConnectionsProgress
