CONSTANTS
  WORD = 2
  HALF_BINS = 2
  ARENAS <- MCArenasInitTail
  SIZES = {1}
  ALIGNS = {1}
  MAX_LIVE = 1
  REINIT = FALSE
SPECIFICATION Spec
INVARIANT HeapTiled
