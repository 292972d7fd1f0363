\* Multiprocessor.
SPECIFICATION Spec
CONSTANTS
  Buffers = {b1, b2}
  Threads = {t1}
  Smp = TRUE
  Unlocks = TRUE
  MaxFrames = 3
SYMMETRY SmallSymmetry
INVARIANTS HandlerReturns
CHECK_DEADLOCK FALSE
