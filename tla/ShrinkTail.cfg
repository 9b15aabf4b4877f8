CONSTANTS
  WORD = 2
  HALF_BINS = 2
  ARENAS <- MCArenasShrink
  SIZES = {1, 13}
  ALIGNS = {1}
  MAX_LIVE = 1
  REINIT = FALSE
SPECIFICATION Spec
INVARIANT ShrinkReleasesTail
