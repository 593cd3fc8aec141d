SPECIFICATION FlowSpec
CONSTANTS
  NumIssuers = 1
  Devices = {d1}
  Configs <- RkeStepUp
  MaxEndpoints = 1
  MaxChunks = 1
  MaxAssembled = 1
  MaxCounter = 2
  Oversize = {}
  Targets = {"Fast", "Standard"}
  BleOnly = FALSE
  HasEngine = FALSE
  DeviceKinds = {"Initiate"}
  DeviceResults = {"ok", "bad"}
  MaxDeviceMsgs = 1
  MaxAnswers = 4
  MaxPacked = 2
  MaxFrames = 0
INVARIANTS
  CompletionSealed
CHECK_DEADLOCK FALSE
