CONSTANTS
  WORD = 2
  HALF_BINS = 2
  ARENAS <- MCArenas
  SIZES = {1, 5}
  ALIGNS = {1}
  MAX_LIVE = 2
  REINIT = FALSE
SPECIFICATION OomSpec
INVARIANT NoFault
