SPECIFICATION FairSpec
CONSTANTS
  Jobs = {j1, j2}
  UnknownTasks = {}
  Workers = {w1}
  NoJob = NoJob
  MaxAttempts = 2
  BatchSize = 1
  Timeout = 1
  RetryDelay <- MCRetryDelay
  EnqueueDelays = {0}
  BypassRLS = FALSE
  Prompt = TRUE
  MaxFaults = 0
PROPERTY EveryJobIsPicked
