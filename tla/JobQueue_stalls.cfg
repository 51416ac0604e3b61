SPECIFICATION Spec
CONSTANTS
  Jobs = {j1, j2}
  UnknownTasks = {j2}
  Workers = {w1, w2}
  NoJob = NoJob
  MaxAttempts = 2
  BatchSize = 2
  Timeout = 1
  RetryDelay <- MCRetryDelay
  EnqueueDelays = {0}
  BypassRLS = TRUE
  Prompt = FALSE
  MaxFaults = 1
SYMMETRY Symmetry
INVARIANT TypeOK
INVARIANT NoDoubleRunUnlessLapsed
INVARIANT OnceWithoutFaults
INVARIANT SuccessIsCommitted
INVARIANT FailedIsExhausted
INVARIANT RunsAreCounted
PROPERTY FinishedIsFinal
PROPERTY ImplementsLeases
