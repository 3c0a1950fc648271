SPECIFICATION CursorSpec
CONSTANTS
  Threads = {t1}
  Cursors = {c1, c2}
  Size <- MCSize
  Data <- MCData
  MaxU64 = 4
  MaxLen = 3
  window_size = 2
  cache_limit = 0
  ShortReads = {TRUE}
  InnerFails = TRUE
  Blank <- MCBlank
INVARIANTS StitchedReads ExactIsExact ExactFailsOnlyPastEnd AllIsWhole
PROPERTIES EveryCallEnds
