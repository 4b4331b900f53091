SPECIFICATION HSpec
CONSTANTS
  Threads = {t1}
  Vpns <- ThreePages
  FlatPages = 4
  MultiPages = 8
  WalkLimit = 16
  IntMod = 64
  NumFrames = 2
  TlbSets = 1
  TlbWays = 2
  Modes = {"flat", "multi"}
  Policies = {"LRU", "FIFO", "CLOCK"}
  RegionPages = {}
  MaxAccess = 5
PROPERTIES
  DirtyWrittenBack
\* The bound on the accesses ends every behaviour.
CHECK_DEADLOCK FALSE
