SPECIFICATION Spec
CONSTANTS
  Callers = {c1, c2}
  Recoveries = {r1, r2}
  Configs = {cfgA, cfgB}
  None = None
  MaxFailures = 2
  ResetTimeout = 1
  MaxRetries = 1
  MaxGeneration = 2
  MaxEdits = 1
PROPERTY UnwantedConfigSkips
