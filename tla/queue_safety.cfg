SPECIFICATION Spec
CONSTANTS
  j1 = j1  j2 = j2  w1 = w1  w2 = w2  t1 = t1  t2 = t2
  None = None
  Job = {j1, j2}
  Worker = {w1, w2}
  Thread = {t1, t2}
  MaxAttempts <- MCMaxAttempts
  Backoff <- MCBackoff
  Priority <- MCPriority
  LeaseSeconds <- TwoSeconds
  Delays <- ShortDelay
  SoleDriver = FALSE
  ForceReset = TRUE
SYMMETRY InterchangeableActors
INVARIANTS TypeOK ClaimMatchesStatus NeverEarly RetryBudget BoundedOvershoot
PROPERTIES LeaseRespected FinishedStays ImplementsPromise
