SPECIFICATION CachesSpec
CONSTANTS
  new = new
  old = old
  older = older
  plain = plain
  secret = secret
  toc = toc
  newPolicy = newPolicy
  oldPolicy = oldPolicy
  newSql = newSql
  oldSql = oldSql
  None = None
  Processes <- MCProcesses
  Keys = {k1, k2}
  Bodies <- MCBodies
  Policies <- MCPolicies
  TriggerTexts <- MCTriggerTexts
  PolicyOf <- MCPolicyOf
  TriggersOf <- MCTriggersOf
  Sensitive <- MCSensitive
  Transient <- MCTransient
  Careful <- MCCareful
  Tracking <- MCTracking
  Attempts = 2
  MaxEntries = 1
  PipelineCalls = {p1, p2}
  PipelineSettings <- SettingSet
  Replies <- ReplySet
  MaxJobs = 1
INVARIANTS CacheIsVouched PipelineIsSound
PROPERTIES RepairIsExact RepairEnds
CHECK_DEADLOCK FALSE
