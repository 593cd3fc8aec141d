SPECIFICATION FlowSpec
CONSTANTS
  NumIssuers = 1
  Devices = {d1}
  Configs <- BothStepUp
  MaxEndpoints = 1
  MaxChunks = 1
  MaxAssembled = 1
  MaxCounter = 2
  Oversize = {"StatusChanged"}
  Targets = {"Standard", "StepUp"}
  BleOnly = TRUE
  HasEngine = FALSE
  DeviceKinds = {"InitiateRke", "RkeRequest", "Ranging"}
  DeviceResults = {"ok", "more", "bad"}
  MaxDeviceMsgs = 2
  MaxAnswers = 6
  MaxPacked = 2
  MaxFrames = 0
INVARIANTS
  FlowTypeOK
  AnswersCurrent
CHECK_DEADLOCK FALSE
