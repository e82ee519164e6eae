SPECIFICATION Spec
CONSTANTS
  Peers = {"a", "b"}
  Limit = 2
  Window = 2
  MaxFailures = 6
  MaxNow = 4
INVARIANTS TypeOK
PROPERTIES ThrottleExact
CHECK_DEADLOCK FALSE
