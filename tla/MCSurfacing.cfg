CONSTANTS
  c1 = c1
  q1 = q1
  Calls = {c1, c2}
  Queries = {q1, q2}
  Memories = {m1}
  RateLimit = 1
  MaxAbandoned = 1
  MaxFailures = 1
  ResetTimeout = 2
  NoRow = NoRow
  Nobody = Nobody
  Tasks = {t1, t2, t3}
  Keys = {k1, k2}
  Entries = {e1, e2, e3}
  None = None
SPECIFICATION SurfacingFairSpec
INVARIANTS ClaimsAreSound MissesShowOnce RegistryIsSound
PROPERTIES RowsUnderLock AttemptsAreCounted OutageNotExtended ImplementsMutex NobodyIsKeptWaiting
CHECK_DEADLOCK FALSE
