SPECIFICATION LayoutsSpec
CONSTANTS
  Extents <- MCExtents
  LayoutSet <- MCLayoutSet
  MaxExtents = 9
  MaxU64 = 15
  MaxU32 = 3
  ByteBits = 2
  SectorBytes = 2
INVARIANTS AcceptedTiles RejectedDoNot MappedAsDeclared 
PROPERTY OpenEnds
CHECK_DEADLOCK FALSE
