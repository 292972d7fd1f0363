\* The test client with three buffers and five frames to capture, on a driver in
\* which VIDIOC_S_FMT works.
SPECIFICATION FairClientSpec
CONSTANTS
  b1 = b1
  b2 = b2
  b3 = b3
  Buffers = {b1, b2, b3}
  ByIndex <- ThreeBuffers
  Client = t1
  Threads = {t1}
  NumFrames = 5
  Smp = FALSE
  Unlocks = TRUE
  DrvdataSet = TRUE
  MaxFrames = 9
INVARIANTS ClientTypeOK BuffersRotate InHandIsFree
PROPERTIES FrameServed
CHECK_DEADLOCK FALSE
