\* Two threads start and stop the stream at once, on a weakly ordered machine.
CONSTANTS
  c1 = c1
  c2 = c2
  Threads = {c1, c2}
  Controllers = {c1, c2}
  Readers = {}
  RegCount = 2
  MaxFrames = 3
  WeakOrder = TRUE
SPECIFICATION Spec
SYMMETRY ThreadSymmetry
INVARIANTS TypeOK NoPhantomFrames CountDriftBounded WindowBeforeCore
