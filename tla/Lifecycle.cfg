\* Two users, one of whom streams; removal with the module or by unbinding.
CONSTANTS
  u1 = u1
  u2 = u2
  Users = {u1, u2}
  Streamers = {u1}
  Twice = FALSE
  MaxFaults = 2
  MaxProbes = 3
SPECIFICATION FairSpec
INVARIANTS TypeOK NothingLeaks CdevBacked HandlerOnLiveDevice CoreOnBuffer
           FilesOnLiveDevice MappingOnBuffer FaultlessProbeBinds
PROPERTY TeardownEnds
CHECK_DEADLOCK FALSE
