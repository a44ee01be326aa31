SPECIFICATION Spec
CONSTANTS
  r1 = r1  r2 = r2  r3 = r3  o1 = o1  o2 = o2
  None = None
  Run = {r1, r2}
  Operator = {o1}
  MaxRetries = 1
  MaxSteps = 2
  Decision <- MCAllowed
  Direct = TRUE
  Serial = TRUE
  Crashes = FALSE
CHECK_DEADLOCK FALSE
PROPERTIES ResumeContinues
