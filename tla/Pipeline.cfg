SPECIFICATION PSpec
CONSTANTS
  Threads = {t1}
  BlockSize <- Blocks
  NumSets <- SetsOfLevels
  Associativity <- WaysOfLevels
  Addresses <- TwoFrames
  PageSize = 8
  FrameStarts = {0, 8}
  Offsets = {0, 2, 4}
  Policies = {"LRU", "LFU"}
  MaxRequests = 4
  Vpns <- ThreePages
  FlatPages = 4
  MultiPages = 8
  WalkLimit = 16
  IntMod = 64
  NumFrames = 2
  TlbSets = 1
  TlbWays = 1
  Modes = {"flat"}
  PagePolicies = {"LRU"}
  RegionPages = {}
  MaxAccess = 4
INVARIANTS
  TypeOK
  NoDuplicates
  LinesBelong
PROPERTIES
  LRUEvictsLeastRecent
  RangeGone
\* The bounds on accesses and requests end every behaviour.
CHECK_DEADLOCK FALSE
