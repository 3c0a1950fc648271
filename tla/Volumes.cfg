SPECIFICATION VolumesSpec
CONSTANTS
  DiskSet <- MCDiskSet
  SectorSizes <- MCSectorSizes
  MaxLogical = 3
  MaxU64 = 63
INVARIANTS PartitionsFit PartitionsAsDeclared OpensFirstSound
PROPERTY VolumesOpenEnds
CHECK_DEADLOCK FALSE
