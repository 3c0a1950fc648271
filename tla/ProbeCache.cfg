SPECIFICATION Spec
CONSTANTS
  Threads = {t1, t2}
  Size <- MCSize
  Data <- MCData
  MaxU64 = 4
  MaxLen = 3
  window_size = 2
  cache_limit = 4
  ShortReads = {FALSE, TRUE}
  InnerFails = TRUE
  Blank <- MCBlank
INVARIANTS CachedWindowsFaithful ReadsFaithful
PROPERTIES WindowsAreStable ImplementsDataSource EveryReadReturns
