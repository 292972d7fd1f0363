\* Two users, four probes, two faults between two probes.
SPECIFICATION Spec
CONSTANTS
  Users = {u1, u2}
  MaxFaults = 2
  MaxProbes = 4
SYMMETRY UserSymmetry
INVARIANTS TypeOK FailedProbeReleases OneInstance FilesOnLiveCam
PROPERTIES UsableOnceBound
CHECK_DEADLOCK FALSE
