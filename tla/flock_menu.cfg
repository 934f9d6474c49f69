SPECIFICATION Spec
CONSTANTS
  Devices = {d1, d2}
  Drones = {}
  Fps = {}
  Generic = {}
  NoFp = NoFp
  Confs = {2}
  TopConf = 2
  Rungs = {2}
  Cap = 1
  Cooldown = 0
  MaxMacs = 1
  MaxFps = 1
  FaultKinds = {}
  MaxFaults = 0
  MaxTick = 0
  MaxPresses = 1
PROPERTY MenuStaysOnItsDevice
CHECK_DEADLOCK FALSE
