\* Finding: a terminal status is overwritten.
CONSTANTS
  w1 = w1  w2 = w2  e1 = e1  a1 = a1  a2 = a2  u1 = u1  u2 = u2
  Executions = {e1}
  Workers = {w1, w2}
  Approvals = {a1}
  Users = {u1, u2}
  Approvers = {u2}
  Operations = {"open", "request_approval", "decide", "finalize"}
  Failures = FALSE
  MaxCalls = 4
SPECIFICATION Spec
PROPERTY TerminalIsForever
CHECK_DEADLOCK FALSE
