SPECIFICATION Spec
CONSTANTS
  Threads = {t1}
  BlockSize <- Blocks
  NumSets <- SetsOfLevels
  Associativity <- WaysOfLevels
  Addresses = {0, 1, 2, 4, 8}
  PageSize = 4
  FrameStarts = {0}
  Policies = {"LRU"}
  MaxRequests = 4
INVARIANTS
  NothingLost
