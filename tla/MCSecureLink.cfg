SPECIFICATION Spec
CONSTANTS
  Payload = {p1, p2}
  MaxCounter = 2
  MaxSent = 3
INVARIANTS
  TypeOK
  NoNonceReuse
  CounterWithinLimit
PROPERTIES
  AbortIsFinal
  StreamSpec
CHECK_DEADLOCK FALSE
