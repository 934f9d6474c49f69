SPECIFICATION Spec
CONSTANTS
  Devices = {d1, d2, d3}
  Drones = {d3}
  Fps = {}
  Generic = {}
  NoFp = NoFp
  Confs = {1, 2}
  TopConf = 2
  Rungs = {1, 2}
  Cap = 2
  Cooldown = 2
  MaxMacs = 1
  MaxFps = 1
  FaultKinds = {}
  MaxFaults = 0
  MaxTick = 2
  MaxPresses = 1
INVARIANTS OneRowEach OncePerDevice NoSilentCamera
PROPERTY LiveRowsStay
CHECK_DEADLOCK FALSE
