SPECIFICATION Spec
CONSTANTS
  r1 = r1  r2 = r2  r3 = r3  r4 = r4  r5 = r5
  None = None
  Request = {r1, r2, r3, r4, r5}
  Keep = {1, 2}
  DefaultKeep = 1
  Recent = 1
  MaxUncompacted = 2
  MaxBefore = 3
INVARIANTS HistoryTells ContinuitySound RunsRecorded
PROPERTIES AdviceSettles
SYMMETRY Interchangeable
CHECK_DEADLOCK FALSE
