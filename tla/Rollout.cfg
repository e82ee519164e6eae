SPECIFICATION FairSpec
CONSTANTS
  NumHosts = 2
  FaultyHosts = {1}
INVARIANTS TypeOK AllOrNothing LaterHostsUntouched
PROPERTIES StaysReachable
CHECK_DEADLOCK FALSE
