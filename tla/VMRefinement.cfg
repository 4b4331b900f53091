SPECIFICATION Spec
CONSTANTS
  Threads = {t1, t2}
  Vpns <- SomePages
  FlatPages = 4
  MultiPages = 8
  WalkLimit = 16
  IntMod = 8
  NumFrames = 2
  TlbSets = 2
  TlbWays = 1
  Modes = {"multi"}
  Policies = {"LRU", "FIFO", "CLOCK"}
  RegionPages = {1}
  MaxAccess = 4
PROPERTIES
  ImplementsDemandPaging
  WritesRespectProtection
SYMMETRY ThreadSymmetry
\* The bound on the accesses ends every behaviour.
CHECK_DEADLOCK FALSE
