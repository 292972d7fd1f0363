\* The driver that registers its character device twice.
CONSTANTS
  u1 = u1
  Users = {u1}
  Streamers = {u1}
  Twice = TRUE
  MaxFaults = 0
  MaxProbes = 1
SPECIFICATION Spec
INVARIANT FaultlessProbeBinds
CHECK_DEADLOCK FALSE
