SPECIFICATION FlowSpec
CONSTANTS
  NumIssuers = 1
  Devices = {d1}
  Configs <- WithoutStepUp
  MaxEndpoints = 1
  MaxChunks = 1
  MaxAssembled = 1
  MaxCounter = 2
  Oversize = {}
  Targets = {"Fast", "Standard"}
  BleOnly = TRUE
  HasEngine = TRUE
  DeviceKinds = {"Initiate", "InitiateRke", "RkeRequest", "Ranging", "GeneralError"}
  DeviceResults = {"ok", "bad"}
  MaxDeviceMsgs = 3
  MaxAnswers = 4
  MaxPacked = 2
  MaxFrames = 1
INVARIANTS
  CompletionSealed
PROPERTIES
  ParkedKept
  Terminates
CHECK_DEADLOCK FALSE
