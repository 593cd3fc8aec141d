SPECIFICATION FlowSpec
CONSTANTS
  NumIssuers = 1
  Devices = {d1}
  Configs <- RkeOnly
  MaxEndpoints = 1
  MaxChunks = 1
  MaxAssembled = 1
  MaxCounter = 2
  Oversize = {}
  Targets = {"Fast", "Standard"}
  BleOnly = TRUE
  HasEngine = FALSE
  DeviceKinds = {"InitiateRke", "RkeRequest"}
  DeviceResults = {"ok", "bad"}
  MaxDeviceMsgs = 3
  MaxAnswers = 4
  MaxPacked = 2
  MaxFrames = 0
INVARIANTS
  AbortTearsDown
CHECK_DEADLOCK FALSE
