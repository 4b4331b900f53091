SPECIFICATION SSpec
CONSTANTS
  Threads = {main, t1, t2}
  Main = main
  NoThread = NoThread
  CacheSizes <- ThreeSizes
  SlabSize = 4
  MemSizes = {0, 9}
  Requests <- Sizes
  MaxId = 6
  OpsPerThread = 2
INVARIANTS
  TypeOK
  ListsMatchSlots
  SlotsAccounted
  OwnBlocks
  AllReturned
PROPERTIES
  KeepsPromise
  BenchmarkEnds
