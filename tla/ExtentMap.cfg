SPECIFICATION Spec
CONSTANTS
  Threads = {t1}
  entries <- MCGapEntries
  Sources = {"a"}
  Zero = "zero"
  SourceData <- MCSourceData
  ShortReads = TRUE
  InnerFails = TRUE
  media_size = 6
  Data <- MCGapData
  MaxU64 = 6
  MaxLen = 5
INVARIANTS ReadInv StopsAtFirstGap
PROPERTIES EveryReadReturns
