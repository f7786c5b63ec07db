CONSTANTS
  Calls = {c1, c2}
  Peer = peer
  t = t  u = u  f = f  g = g
  none = none  tight = tight  wide = wide  other = other
  Tools = {t, u}
  Selectives = {none, tight, wide, other}
  Shared = {f}
  NoBlock = none
  FileOf <- FileTable
  Keep <- KeepTable
  FirstLayout <- OneFile
  Layouts <- LayoutSet
  Memory = Memory
  NoCall = NoCall
  Cold = Cold
  MaxReloads = 1
  MaxStores = 2
  MaxRank = 2
  MaxAged = 1
  Tasks = {r1, r2}
  NoTask = NoTask
  MaxSessions = 2
  MaxVersion = 2
  reader = reader
  flipped = flipped
  Eligible <- EligibleTools
  Extracting = {k1, k2}
  Stopper = Stopper
  MaxExtractors = 3
  Nothing = Nothing
  MaxGenerations = 2
  MaxLeases = 2
  Nobody = Nobody
  Recovery = Recovery
  n1 = n1
  n2 = n2
  Names = {n1, n2}
  MaxContract = 2
  Catalogs <- CatalogSet
  MaxRevision = 2
  Bundles <- BundleSet
  HostNames = {n2}
  MaxStamp = 2
  SettingsSet <- SettingTable
  MaxSettings = 1
  Hidden <- HiddenPairs
  Flagged <- FlaggedPairs
  NoBundle = NoBundle
  NotAsked = NotAsked
  Free = Free
  Host = Host
  Consults = {q1, q2}
  Scopes = {x, y, z}
  MaxGeneration = 2
  MaxScopes = 1
  MaxFaults = 1
  Nowhere = Nowhere
SYMMETRY Calling
SPECIFICATION ManagerSpec
INVARIANTS PendingIsSound RefreshIsSound NothingIsLeft OffersAreSound
PROPERTIES PublicationsHold
CHECK_DEADLOCK FALSE
