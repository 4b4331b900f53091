SPECIFICATION Spec
CONSTANTS
  MemSizes = {0, 4, 7}
  Requests <- Sizes
  Algos = {"Firstfit", "Bestfit", "Worstfit"}
  MaxAttempts = 8
INVARIANTS
  TypeOK
  Tiled
  NoAdjacentFree
  IdMapExact
PROPERTIES
  KeepsPromise
