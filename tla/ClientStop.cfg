\* The test client stops the stream after it has queued a buffer again; VIDIOC_S_FMT
\* works.
SPECIFICATION ClientSpec
CONSTANTS
  b1 = b1
  b2 = b2
  b3 = b3
  Buffers = {b1, b2, b3}
  ByIndex <- ThreeBuffers
  Client = t1
  Threads = {t1}
  NumFrames = 5
  Smp = FALSE
  Unlocks = TRUE
  DrvdataSet = TRUE
  MaxFrames = 9
INVARIANTS StopReturnsAll
CHECK_DEADLOCK FALSE
