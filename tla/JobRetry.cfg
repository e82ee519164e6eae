SPECIFICATION Spec
CONSTANTS
  NumJobs = 2
  MaxRestarts = 1
  Cancelable = {}
  Deadlined = {}
  Concurrency = 2
  MaxJobsRetained = 0
  MaxTotalJobBytes = 0
  DirBytes = 1
  RetentionOn = FALSE
  StoreFails = FALSE
  Outcomes = {"succeeded"}
  Tokens <- TwoTokens
  Hashes = {"h1", "h2"}
  LockKeys = {"lock"}
  IdempotencyKeys <- TwoKeys
  Requests <- KeyRequests
  NoKey = NoKey
INVARIANTS RetrySafe
CHECK_DEADLOCK FALSE
