SPECIFICATION Spec
CONSTANTS
  NumJobs = 1
  MaxRestarts = 0
  Cancelable = {1}
  Deadlined = {}
  Concurrency = 2
  MaxJobsRetained = 0
  MaxTotalJobBytes = 0
  DirBytes = 1
  RetentionOn = FALSE
  StoreFails = FALSE
  Outcomes = {"succeeded"}
  Tokens <- TwoTokens
  Hashes = {"h1", "h2"}
  LockKeys = {"lock"}
  IdempotencyKeys <- TwoKeys
  Requests <- LockRequests
  NoKey = NoKey
PROPERTIES CanceledStays
CHECK_DEADLOCK FALSE
