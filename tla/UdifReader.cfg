SPECIFICATION UdifSpec
CONSTANTS
  Threads = {t1, t2}
  block_ranges <- MCRanges
  Corrupt = {5}
  Unreliable = {4}
  media_size = 7
  Data <- MCData
  MaxU64 = 7
  MaxLen = 3
INVARIANTS UdifReadInv DamageIsLocal
PROPERTIES ImplementsDataSource EveryReadReturns
