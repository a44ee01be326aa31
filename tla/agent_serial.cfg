SPECIFICATION FairSpec
CONSTANTS
  r1 = r1  r2 = r2  r3 = r3  o1 = o1  o2 = o2
  None = None
  Run = {r1, r2, r3}
  Operator = {o1}
  MaxRetries = 1
  MaxSteps = 1
  Decision <- MCDecisionMixed
  Direct = TRUE
  Serial = TRUE
  Crashes = FALSE
CHECK_DEADLOCK FALSE
INVARIANTS CallsAccounted
PROPERTIES FollowsLifecycle RunsEnd
