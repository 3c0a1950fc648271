SPECIFICATION Spec
CONSTANTS
  Threads = {t1, t2}
  chunks <- MCChunks
  chunk_size = 2
  media_size = 7
  Data <- MCData
  Decoded <- MCDamaged
  Unreliable = {1}
  MaxU32 = 3
  MaxU64 = 7
  MaxLen = 3
INVARIANTS ReadInv DamageIsLocal
PROPERTIES ImplementsDataSource EveryReadReturns
