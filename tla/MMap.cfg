SPECIFICATION Spec
CONSTANTS
  PageSize = 2
  AddrMod = 18
  Base = 4
  Limit = 8
  Lengths = {1, 4, 16, 17}
  FixedAt = {3, 6}
  Prots <- SomeProts
  MaxRegions = 3
INVARIANTS
  TypeOK
  RegionsApart
  PagesUniform
PROPERTIES
  OneRegionChanges
\* The bound on the regions ends every behaviour.
CHECK_DEADLOCK FALSE
