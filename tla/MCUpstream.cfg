SPECIFICATION Spec
CONSTANTS
  Callers = {c1, c2}
  Recoveries = {r1, r2}
  Configs = {cfgA, cfgB}
  None = None
  MaxFailures = 1
  ResetTimeout = 1
  MaxRetries = 0
  MaxGeneration = 2
  MaxEdits = 1
SYMMETRY Symmetry
INVARIANTS LeasesAreSafe OneRecovery
PROPERTY EditNotSwallowed
