SPECIFICATION Spec
CONSTANTS
  PageSize = 2
  MemSizes = {0, 15}
  Requests <- Sizes
  MaxOrder = 3
  MaxId = 8
INVARIANTS
  TypeOK
  PagesPartitioned
  ListsMatchMap
  NoFreeBuddies
PROPERTIES
  KeepsPromise
