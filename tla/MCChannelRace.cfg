SPECIFICATION RingSpec
CONSTANTS
  Message = {v1}
  Uninit = Uninit
  Cap = 2
  Interleaved = TRUE
INVARIANT ReadsInitialised
