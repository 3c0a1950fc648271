SPECIFICATION LayoutsSpec
CONSTANTS
  Extents <- MCExtents
  LayoutSet <- MCVhd
  MaxExtents = 9
  MaxU64 = 15
  MaxU32 = 3
  ByteBits = 2
  SectorBytes = 2
INVARIANT VhdMsbIsFirstSector
CHECK_DEADLOCK FALSE
