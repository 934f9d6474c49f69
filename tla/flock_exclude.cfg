SPECIFICATION Spec
CONSTANTS
  Devices = {d1, d2}
  Drones = {}
  Fps = {f1, f2}
  Generic = {f2}
  NoFp = NoFp
  Confs = {2}
  TopConf = 2
  Rungs = {2}
  Cap = 2
  Cooldown = 0
  MaxMacs = 1
  MaxFps = 1
  FaultKinds = {"append", "read", "remove"}
  MaxFaults = 1
  MaxTick = 0
  MaxPresses = 3
SYMMETRY Symmetry
INVARIANTS AddressIsListed ExclusionsHold
CHECK_DEADLOCK FALSE
