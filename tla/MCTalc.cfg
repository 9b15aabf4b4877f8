CONSTANTS
  WORD = 2
  HALF_BINS = 2
  ARENAS <- MCArenas
  SIZES = {1, 5}
  ALIGNS = {1, 4, 8}
  MAX_LIVE = 2
  REINIT = TRUE
SPECIFICATION Spec
INVARIANTS
  TypeOK
  NoFault
  HeapTiled
  TagFlagsConsistent
  BinsIndexFreeChunks
  LiveBlocksIntact
  SearchComplete
  AllocatedSpanCovers
  AllocatedChunksOwned
  MallocFreeRestores
PROPERTIES
  AbsSpec
