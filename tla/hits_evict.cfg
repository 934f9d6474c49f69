SPECIFICATION Spec
CONSTANTS
  Devices = {d1, d2, d3}
  Drones = {d3}
  Confs = {2}
  TopConf = 2
  Cap = 2
  MaxEpoch = 1
  FaultKinds = {}
  MaxFaults = 0
  MaxCrashes = 1
INVARIANTS SnapshotIsRegular CleanMeansSaved
CHECK_DEADLOCK FALSE
SYMMETRY Symmetry
