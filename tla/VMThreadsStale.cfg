SPECIFICATION PSpec
CONSTANTS
  Threads = {t1, t2}
  BlockSize <- Blocks
  NumSets <- SetsOfLevels
  Associativity <- WaysOfLevels
  Addresses <- TwoFrames
  PageSize = 4
  FrameStarts = {0}
  Offsets = {0}
  Policies = {"LRU"}
  MaxRequests = 2
  Vpns <- TwoPages
  FlatPages = 4
  MultiPages = 8
  WalkLimit = 16
  IntMod = 64
  NumFrames = 1
  TlbSets = 1
  TlbWays = 1
  Modes = {"flat"}
  PagePolicies = {"LRU"}
  RegionPages = {}
  MaxAccess = 2
INVARIANTS
  LinesBelong
\* The bounds on accesses and requests end every behaviour.
CHECK_DEADLOCK FALSE
