CONSTANTS
  WORD = 2
  HALF_BINS = 2
  ARENAS <- MCArenas
  SIZES = {1}
  ALIGNS = {1}
  MAX_LIVE = 3
  REINIT = FALSE
SPECIFICATION Spec
INVARIANTS
  NoFault
  HeapTiled
  TagFlagsConsistent
  BinsIndexFreeChunks
  AllocatedSpanCovers
  ExtendTruncateRestores
PROPERTIES
  AbsSpec
