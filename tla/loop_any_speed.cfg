SPECIFICATION LoopSpec
CONSTANTS
  j1 = j1  j2 = j2  w1 = w1  w2 = w2
  None = None
  Job = {j1, j2}
  Worker = {w1, w2}
  Thread = {w1, w2}
  MaxAttempts <- MCMaxAttempts
  Backoff <- MCBackoff
  Priority <- MCPriority
  LeaseSeconds <- TwoSeconds
  Delays <- ShortDelay
  SoleDriver = FALSE
  ForceReset = TRUE
  Immortal = {}
  Prompt = FALSE
  ShortDispatch = FALSE
INVARIANTS LoopMatchesRecord OwnerHolds OneExecution
PROPERTIES DrivesAlone
