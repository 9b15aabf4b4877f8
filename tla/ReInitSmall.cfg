CONSTANTS
  WORD = 2
  HALF_BINS = 2
  ARENAS <- MCArenasReInit
  SIZES = {1}
  ALIGNS = {1}
  MAX_LIVE = 1
  REINIT = TRUE
SPECIFICATION Spec
INVARIANT NoFault
