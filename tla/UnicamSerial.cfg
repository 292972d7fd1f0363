\* One thread controls the stream, another one reads and polls, on a weakly
\* ordered machine and under fair scheduling.
CONSTANTS
  c1 = c1
  r1 = r1
  Threads = {c1, r1}
  Controllers = {c1}
  Readers = {r1}
  RegCount = 2
  MaxFrames = 2
  WeakOrder = TRUE
SPECIFICATION FairSpec
INVARIANTS FlagTellsHardware ReadFits
PROPERTIES LedgerSpec CallsReturn PendingFrameEndServed
