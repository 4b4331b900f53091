SPECIFICATION TSpec
CONSTANTS
  Threads = {t1}
  Vpns <- WidePages
  FlatPages = 4
  MultiPages = 32
  WalkLimit = 16
  IntMod = 8
  NumFrames = 2
  TlbSets = 2
  TlbWays = 1
  Modes = {"multi"}
  Policies = {"LRU", "FIFO", "CLOCK"}
  RegionPages = {}
  ML_LEVEL_BITS <- FourBits
  MaxAccess = 5
INVARIANTS
  FreeFramesUnused
  LeavesMatch
\* The bound on the accesses ends every behaviour.
CHECK_DEADLOCK FALSE
