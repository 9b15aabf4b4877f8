\* usize::BITS equal to the literal 64, as on 64-bit targets (scaled to 4).
CONSTANTS
  WORD_BITS = 4
  SPLIT = 4
SPECIFICATION Spec
INVARIANT NextBinFindsLeast
INVARIANT NoDebugPanic
