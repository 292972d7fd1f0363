\* Two threads start and stop the stream at once.
CONSTANTS
  c1 = c1
  c2 = c2
  Threads = {c1, c2}
  Controllers = {c1, c2}
  Readers = {}
  RegCount = 1
  MaxFrames = 1
  WeakOrder = FALSE
SPECIFICATION Spec
INVARIANT IdleFlagMeansIdleCore
