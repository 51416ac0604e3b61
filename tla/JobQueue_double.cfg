SPECIFICATION Spec
CONSTANTS
  Jobs = {j1, j2}
  UnknownTasks = {}
  Workers = {w1, w2}
  NoJob = NoJob
  MaxAttempts = 2
  BatchSize = 2
  Timeout = 1
  RetryDelay <- MCRetryDelay
  EnqueueDelays = {0}
  BypassRLS = TRUE
  Prompt = TRUE
  MaxFaults = 0
INVARIANT NoDoubleRun
