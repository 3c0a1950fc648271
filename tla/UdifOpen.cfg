SPECIFICATION Spec
CONSTANTS
  source_size = 8
  FooterSize = 2
  BytesPerSector = 2
  MaxPlistSize = 3
  MaxBlockSectors = 2
  Footers <- MCFooters
  StartSectors = {0, 1, 2, 3, 4}
  Entries <- MCEntries
  MaxTables = 2
  MaxEntries = 3
  MaxU32 = 4
  MaxU64 = 9
INVARIANTS RangesTile RangesWhereDeclared RangesReadable
