SPECIFICATION ProcessesSpec
CONSTANTS
  Daemons = {d1, d2}
  Starts = {start}
  Stops = {stop}
  StopAlls = {all}
  Clients = {a, b}
  MaxPending = 1
  MaxLtmOps = 1
  MaxSpawns = 2
  None = None
  Grace = 1
  Always = {"stores", "export"}
  MaxFrames = 1
  MaxMisreads = 1
INVARIANTS DaemonIsSound LifespanIsSound
PROPERTIES ReportsAreTrue ShutdownIsCalledFor ProcessesEnd
CHECK_DEADLOCK FALSE
