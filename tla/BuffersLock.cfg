\* A core that does not release the lock of the queue by itself.
SPECIFICATION FairSpec
CONSTANTS
  Buffers = {b1}
  Threads = {t1, t2}
  Smp = FALSE
  Unlocks = FALSE
  MaxFrames = 2
PROPERTIES LockGivenBack
CHECK_DEADLOCK FALSE
