SPECIFICATION Spec
CONSTANTS
  w1 = w1  w2 = w2  w3 = w3  w4 = w4  q1 = q1  q2 = q2  q3 = q3  q4 = q4
  lead = lead  helper = helper  read = read  write = write
  None = None
  Workflow = {w1, w2, w3}
  Request = {q1, q2, q3}
  Agent = {lead, helper}
  Capability = {read, write}
  MaxChildren <- MCMaxChildren
  MaxDepth <- MCMaxDepth
  AllowedAgents <- MCAllowedAgents
  AllowedCapabilities <- MCAllowedCapabilities
PROPERTIES FailureContained
CHECK_DEADLOCK FALSE
