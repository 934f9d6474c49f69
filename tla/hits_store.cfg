SPECIFICATION Spec
CONSTANTS
  Devices = {d1, d2}
  Drones = {}
  Confs = {2}
  TopConf = 2
  Cap = 2
  MaxEpoch = 1
  FaultKinds = {"write", "remove"}
  MaxFaults = 1
  MaxCrashes = 1
INVARIANT AWholeCopySurvives
PROPERTY KeepsTheLedger
CHECK_DEADLOCK FALSE
