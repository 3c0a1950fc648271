SPECIFICATION Spec
CONSTANTS
  FileHeaderSize = 1
  HeaderSize = 2
  FileSizes = {0, 7}
  MaxSegments = 2
  Volumes <- MCVolumes
  Tables <- MCTables
  MaxU32 = 7
  MaxU64 = 9
INVARIANTS TypeOK SectionsTile SegmentsInOrder ChunksTiled OpenedGeometry
PROPERTIES GeometryFrozen OpenEnds
