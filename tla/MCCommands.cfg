CONSTANTS
  Commands = {p, q}
  Order <- ThreeSources
  Shell = {user}
  Unmanaged = {cursor}
  Servers = {s1, s2}
  MaxCommands = 3
  MaxEdits = 1
  Absent = Absent
  user = user
  desktop = desktop
  cursor = cursor
  Names = {n}
  Shapes = {v, w}
  ScanOrder <- ThreeFiles
  Label <- FileLabels
  Home <- FileHomes
  Directories = {a, b}
  Reporting = {mcpA, mcpB}
  Everywhere = Everywhere
  MaxRuns = 3
  MaxHostEdits = 1
  MaxHandEdits = 1
  None = None
  mcpA = mcpA
  mcpB = mcpB
  a = a
  b = b
  Pids = {p1, p2, p3}
  Spawns = {d1, d2}
  StdioServers = {c1}
  Host = Host
  Sweeps = {w1, w2}
  NoOne = NoOne
SYMMETRY Interchangeable
SPECIFICATION CommandsSpec
INVARIANT CommandsAreSound
PROPERTIES SourcesAreKept CompletedSyncHeals
CHECK_DEADLOCK FALSE
