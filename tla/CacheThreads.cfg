SPECIFICATION Spec
CONSTANTS
  Threads = {t1, t2}
  BlockSize <- Blocks
  NumSets <- SetsOfLevels
  Associativity <- WaysOfLevels
  Addresses = {0, 4}
  PageSize = 4
  FrameStarts = {0}
  Policies = {"LRU"}
  MaxRequests = 4
INVARIANTS
  NoDuplicates
