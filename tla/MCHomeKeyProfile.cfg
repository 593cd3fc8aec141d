SPECIFICATION Spec
CONSTANTS
  NumIssuers = 2
  Devices = {d1, d2}
  Targets = {"Fast", "Standard", "StepUp"}
  MaxEndpoints = 2
  MaxAssembled = 2
INVARIANTS
  TypeOK
  StoreDurable
  OutcomeNamesDevice
  RecoversKey
PROPERTIES
  TransactionSpec
  TransactionEnds
