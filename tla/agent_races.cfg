SPECIFICATION Spec
CONSTANTS
  r1 = r1  r2 = r2  r3 = r3  o1 = o1  o2 = o2
  None = None
  Run = {r1, r2}
  Operator = {o1, o2}
  MaxRetries = 1
  MaxSteps = 2
  Decision <- MCDecision
  Direct = TRUE
  Serial = FALSE
  Crashes = TRUE
SYMMETRY Interchangeable
CHECK_DEADLOCK FALSE
INVARIANTS TypeOK CallsApproved WaitsForOwnApproval SuccessHasResult ResumedByItsRun
