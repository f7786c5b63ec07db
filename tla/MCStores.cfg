CONSTANTS
  t1 = t1
  t2 = t2
  Tools = {t1}
  MaxQueued = 3
  MaxTime = 2
  MaxClaims = 2
  MaxLanded = 2
  Idle = Idle
  a = a
  b = b
  Servers = {a, b}
  RatedTools = {t1, t2}
  Pinned <- PinnedTools
  Base = 3
  Floor <- Floors
  Ceiling <- Ceilings
  Attainable = {2, 4}
  MinSamples = 1
  RatingsMade <- RatingsOf
  MaxChanges = 2
  MaxStarts = 2
  Unset = Unset
  e1 = e1
  e2 = e2
  m1 = m1
  m2 = m2
  Requests = {r1, r2}
  Events = {e1, e2}
  Memories = {m1, m2}
  Delivered <- EventMemories
  ToolOf <- EventTools
  Every = Every
  Forms <- RatingForms
  Threshold = 2
  LineLength = 2
  Openers = {n1, n2}
  OldBuilds = {o1}
  Reconciling = {n1}
  Origins = {s1, s2}
  Columns = {c1}
  MaxHistory = 1
  TrimInterval = 2
  MaxIds = 4
  MaxDamage = 1
  Unmarked = Unmarked
  Unknown = Unknown
  w1 = w1
  w2 = w2
  Writers = {w1, w2}
  OldWriters = {l1}
  Labeller = Labeller
  Backups <- BackupsOf
  MaxBackups = 2
  Full = 3
  MaxRecords = 3
  Nobody = Nobody
SPECIFICATION StoresSpec
INVARIANTS WorkIsOwned RatingsAreSound RecordsAreKept
PROPERTIES RecoveryStands StoreCloses
CHECK_DEADLOCK FALSE
