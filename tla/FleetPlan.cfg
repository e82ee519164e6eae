SPECIFICATION FairSpec
CONSTANTS
  Hosts = {"a", "b"}
  Jobs = {1, 2, 3, 4, 5, 6}
  Home <- EvenOnB
  Slots = 1
  Requests <- PlanRequests
  Outcomes = {"succeeded"}
  NoKey = NoKey
  Operators = {"o1", "o2"}
  HostsOf <- FirstToBoth
  Steps <- CheckApply
  KeyChoices <- NoneOrSame
  BusyRetries = 1
  Connected = {"o1"}
  Cancelable = {1}
  Struck = {3}
  MaxRestarts = 1
INVARIANTS TypeOK GatedSteps StepStartsOnce HostOkIsTrue NothingLeftRunning
PROPERTIES PlansEnd LockedOutByOthers
CHECK_DEADLOCK FALSE
