SPECIFICATION Spec
CONSTANTS
  j1 = j1  w1 = w1  w2 = w2  c1 = c1
  None = None
  Job = {j1}
  Worker = {w1, w2}
  Client = {c1}
  Operations = {"read", "cancel", "recover", "repair"}
  Outcomes = {"dead_letter", "scheduled"}
  Survivor = w1
  Crashes = {"between", "writing"}
INVARIANTS OneWorkerPerJob ExecutesOwn
CONSTRAINT Unexposed
CHECK_DEADLOCK FALSE
