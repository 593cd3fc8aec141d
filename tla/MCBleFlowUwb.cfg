SPECIFICATION FlowSpec
CONSTANTS
  NumIssuers = 1
  Devices = {d1}
  Configs <- UwbOnly
  MaxEndpoints = 1
  MaxChunks = 1
  MaxAssembled = 1
  MaxCounter = 3
  Oversize = {}
  Targets = {"Fast", "Standard"}
  BleOnly = FALSE
  HasEngine = TRUE
  DeviceKinds = {"Initiate", "GeneralError", "Ranging", "TimeSync", "Busy", "BadAp"}
  DeviceResults = {"ok", "bad"}
  MaxDeviceMsgs = 4
  MaxAnswers = 4
  MaxPacked = 2
  MaxFrames = 2
INVARIANTS
  HandledInOrder
  InStep
  EngineStopped
PROPERTIES
  RangingHolds
CHECK_DEADLOCK FALSE
