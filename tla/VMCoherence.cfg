SPECIFICATION HSpec
CONSTANTS
  Threads = {t1}
  Vpns <- FourPages
  FlatPages = 4
  MultiPages = 8
  WalkLimit = 16
  IntMod = 64
  NumFrames = 3
  TlbSets = 1
  TlbWays = 2
  Modes = {"flat"}
  Policies = {"LRU", "FIFO", "CLOCK"}
  RegionPages = {}
  MaxAccess = 6
INVARIANTS
  TypeOK
  OwnersMatch
  FramesAccounted
  TLBCoherent
  NoFrameShared
  NoStaleLines
PROPERTIES
  LRUEvictsLeastRecent
  FIFOEvictsFirstLoaded
  ClockGivesSecondChance
  DirtyWrittenBack
\* The bound on the accesses ends every behaviour.
CHECK_DEADLOCK FALSE
