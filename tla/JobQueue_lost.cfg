SPECIFICATION Spec
CONSTANTS
  Jobs = {j1}
  UnknownTasks = {}
  Workers = {w1, w2, w3, w4}
  NoJob = NoJob
  MaxAttempts = 5
  BatchSize = 1
  Timeout = 1
  RetryDelay <- MCRetryDelay
  EnqueueDelays = {0}
  BypassRLS = TRUE
  Prompt = FALSE
  MaxFaults = 0
SYMMETRY Symmetry
INVARIANT RunningIsDated
