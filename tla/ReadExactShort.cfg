SPECIFICATION JobSpec
CONSTANTS
  Threads = {t1, t2}
  Size <- MCSize
  Data <- MCData
  MaxU64 = 3
  MaxLen = 2
  window_size = 2
  cache_limit = 3
  ShortReads = {TRUE}
  InnerFails = FALSE
  Blank <- MCBlank
INVARIANTS ExactFailsOnlyPastEnd

