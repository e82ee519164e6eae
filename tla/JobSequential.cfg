SPECIFICATION FairSpec
CONSTANTS
  NumJobs = 2
  MaxRestarts = 0
  Cancelable = {1}
  Deadlined = {}
  Concurrency = 1
  MaxJobsRetained = 1
  MaxTotalJobBytes = 2
  DirBytes = 1
  RetentionOn = FALSE
  StoreFails = TRUE
  Outcomes = {"succeeded"}
  Tokens <- TwoTokens
  Hashes = {"h1", "h2"}
  LockKeys = {"lock"}
  IdempotencyKeys <- TwoKeys
  Requests <- PairRequests
  NoKey = NoKey
INVARIANTS LiveJobsKept
PROPERTIES EveryJobEnds SlotsReturn LocksReturn
CHECK_DEADLOCK FALSE
