SPECIFICATION AppSpec
CONSTANTS
  Parts = {"power", "gps", "row", "files", "flasher", "ready", "settings", "ble", "card"}
  Grace = 2
  MaxFaults = 1
  MaxHands = 1
  Sources = {"flipper", "board", "phone"}
  Burst <- MCBurst
  RxCap = 6
  Stale = 2
  Hold = 1
  Retry = 1
  Levels = {1, 2}
  Macs = {"a", "p", "d"}
  Prefix <- MCPrefix
  Extras <- MCExtras
  Detections <- MCDetections
  Adverts <- MCAdverts
  Scraps <- MCScraps
  Surveyed <- MCSurveyed
  Broadcasts <- MCBroadcasts
  LineCap = 64
  PayloadCap = 64
  BleHeader = 2
  Margin = 6
  INT8_MIN <- MCWeakest
  MaxLaunches = 1
  Fingerprints = {"f1", "f2", "g"}
  Generic = {"g"}
  Pins = {"m1", "zero", "ff"}
  Cap = 3
  Jsons <- MCJsons
  MaxTears = 1
  MaxStarts = 2
  Attempts = 2
  Blocks = 2
  Tries = 2
  Units <- MCUnits
  Patience = 1
  Query = 1
  MaxTotal = 1
  Width = 4
  MaxLost = 1
  MaxBoots = 1
  MaxScans = 2
  Turned = {"esp_gps_pin", "gps_baud"}
  Boards <- MCBoards
  MaxTurns = 2
  MaxBadSaves = 1
  MaxStops = 1
  Addresses = {"x1", "x2", "x3"}
  Says <- MCSays
  RECON_BLE_MAX = 2
  MaxTicks = 3
  SurveyRows <- MCSurveyRows
  GenericShapes = {9}
  UINT16_MAX = 65535
  LogMax = 1
  MaxHeard = 3
  MaxSessions = 2
  MaxBadWrites = 1
INVARIANTS AppTypes NothingLeftOn ClaimsAreEarned RowsReadBack PluginOutlivesWorker DoneIsTrue TearCostsOne  CountIsHonest SettingsAreKept BleTableIsRecent
PROPERTIES PowerArrives TagIsRecent PhoneIsReached OwnNameStays HealthyIsReady
CHECK_DEADLOCK FALSE
