SPECIFICATION Spec
CONSTANTS
  i1 = i1
  c1 = c1  c2 = c2  c3 = c3  c4 = c4
  o1 = o1  o2 = o2
  None = None
  Intake = {i1}
  Drafted = {i1}
  Call = {c1, c2, c3, c4}
  Operator = {o1, o2}
INVARIANTS OnePerDraft AnswersListed
SYMMETRY Interchangeable
CHECK_DEADLOCK FALSE
