SPECIFICATION RingSpec
CONSTANTS
  Message = {v1, v2}
  Uninit = Uninit
  Cap = 3
  Interleaved = FALSE
INVARIANT ReadsInitialised
PROPERTY ImplementsFifo
