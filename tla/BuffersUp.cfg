\* Uniprocessor, fair scheduling, frames keep coming.
SPECIFICATION FairSpec
CONSTANTS
  Buffers = {b1, b2}
  Threads = {t1, t2}
  Smp = FALSE
  Unlocks = TRUE
  MaxFrames = 3
INVARIANTS TypeOK DeliveredInOrder CleanStop
PROPERTIES CaptureSpec FreedUnlisted SequenceRises DequeueServed
CHECK_DEADLOCK FALSE
