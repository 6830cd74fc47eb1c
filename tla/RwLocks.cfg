SPECIFICATION RwSpec
CONSTANTS
  Readers = {r1, r2, r3}
  Writers = {w1, w2, w3}
  Repeat = FALSE
  SpuriousWakeups = TRUE
INVARIANT NoLostWakeup
 
CHECK_DEADLOCK FALSE
