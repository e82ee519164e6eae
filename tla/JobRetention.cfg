SPECIFICATION Spec
CONSTANTS
  NumJobs = 3
  MaxRestarts = 0
  Cancelable = {}
  Deadlined = {}
  Concurrency = 2
  MaxJobsRetained = 1
  MaxTotalJobBytes = 0
  DirBytes = 1
  RetentionOn = FALSE
  StoreFails = FALSE
  Outcomes = {"succeeded"}
  Tokens <- TwoTokens
  Hashes = {"h1", "h2"}
  LockKeys = {"lock"}
  IdempotencyKeys <- TwoKeys
  Requests <- LockRequests
  NoKey = NoKey
INVARIANTS LockExclusion IdempotencyIndexed
CHECK_DEADLOCK FALSE
