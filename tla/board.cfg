SPECIFICATION MCSpec
CONSTANTS
  Builds <- MCBuilds
  Sweep24 <- MC24
  Sweep5 <- MC5
  WifiTicks = 2
  BleSlices = 2
  MaxResets = 1
  Addrs = {"f", "v", "n"}
  Tracked = {"f"}
  Exclusive = {"v"}
  Targets = {"n"}
  Streets <- MCStreets
  SeqNums = 2
  Gap = 1
  Window = 1
  Interval = 1
  Tracks = 2
  Sustained = 2
  MaxRate = 2
  ProbeFlood = 2
  BeaconFlood = 2
  Ring = 2
  BleAddrs = {"t", "c"}
  Adverts <- MCAdverts
  Absent <- MCAbsent
  Listed = 2
  SpamMin = 2
  HasBle = TRUE
  Probers = {"m1", "m2"}
  Wanted = {"m1"}
  BoardRows = 2
  AppRows = 1
  MaxCount = 2
  MaxTornLines = 1
  MaxCycles = 1
  MaxOutings = 1
INVARIANTS BoardTypes RadioRestored GpsKeptUp ConfirmedByOwnName RateNeverOverstates RingOnlySeparated
PROPERTIES TurnsAreTaken QuietStaysSilent
CHECK_DEADLOCK FALSE
