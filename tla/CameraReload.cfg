\* The module is loaded and unloaded; nothing fails.
SPECIFICATION Spec
CONSTANTS
  Users = {u1}
  MaxFaults = 0
  MaxProbes = 2
INVARIANTS UnloadReleases
CHECK_DEADLOCK FALSE
