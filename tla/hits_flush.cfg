SPECIFICATION FairSpec
CONSTANTS
  Devices = {d1, d2}
  Drones = {}
  Confs = {2}
  TopConf = 2
  Cap = 2
  MaxEpoch = 1
  FaultKinds = {"rename"}
  MaxFaults = 1
  MaxCrashes = 0
PROPERTY UnsavedIsFlushed
CHECK_DEADLOCK FALSE
