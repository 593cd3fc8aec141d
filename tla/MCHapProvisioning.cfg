SPECIFICATION HapSpec
CONSTANTS
  NumIssuers = 2
  Devices = {d1, d2}
  Targets = {"Fast", "StepUp"}
  MaxEndpoints = 2
  MaxAssembled = 1
  MaxChanges = 2
  d1 = d1
  d2 = d2
  Watched <- SecondOfFirst
INVARIANTS
  ToldTrue
  OutcomeUnlessRaced
PROPERTIES
  KeyGoesToPhone
