SPECIFICATION ChannelSpec
CONSTANTS
  NumIssuers = 2
  Devices = {d1, d2}
  Configs <- AllConfigs
  MaxEndpoints = 2
  MaxChunks = 2
  MaxAssembled = 2
INVARIANTS
  TypeOK
  StoreDurable
  OutcomeNamesDevice
  ChannelsInStep
  UrskHeard
  DeviceTold
PROPERTIES
  TransactionSpec
  TransactionEnds
