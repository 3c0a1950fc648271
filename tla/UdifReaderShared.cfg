SPECIFICATION UdifSpec
CONSTANTS
  Threads = {t1}
  block_ranges <- MCSharedRanges
  Corrupt = {}
  Unreliable = {}
  media_size = 3
  Data <- MCSharedData
  MaxU64 = 4
  MaxLen = 3
INVARIANTS HotCacheSameBytes
CHECK_DEADLOCK FALSE
