SPECIFICATION Spec
CONSTANTS
  NumJobs = 2
  MaxRestarts = 1
  Cancelable = {1, 2}
  Deadlined = {1, 2}
  Concurrency = 2
  MaxJobsRetained = 0
  MaxTotalJobBytes = 0
  DirBytes = 1
  RetentionOn = TRUE
  StoreFails = TRUE
  Outcomes = {"succeeded"}
  Tokens <- TwoTokens
  Hashes = {"h1", "h2"}
  LockKeys = {"lock"}
  IdempotencyKeys <- TwoKeys
  Requests <- KeyRequests
  NoKey = NoKey
INVARIANTS TypeOK SlotsMatchRunners RecordsAgree CanceledOnRequest LiveJobsKept
PROPERTIES ImplementsExecutor NoStartAfterCancel ViewIsStable
CHECK_DEADLOCK FALSE
