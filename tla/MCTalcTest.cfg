CONSTANTS
  WORD = 2
  HALF_BINS = 2
  ARENAS <- MCTestArenas
  TEST_ARENA <- MCTestArena
  SIZES = {1, 5}
  ALIGNS = {1, 2, 4, 8}
  MAX_LIVE = 0
  REINIT = FALSE
  N = 8
SPECIFICATION TestSpec
\* the test ends: its last statement has no successor
CHECK_DEADLOCK FALSE
INVARIANT TestRestoresInit
