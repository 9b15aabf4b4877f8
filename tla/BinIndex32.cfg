\* usize::BITS half the literal 64, as on 32-bit targets (scaled to 2 and 4).
CONSTANTS
  WORD_BITS = 2
  SPLIT = 4
SPECIFICATION Spec
INVARIANT NextBinFindsLeast
