\* Approvals, decisions, work and seals of one execution, with failures
\* anywhere.
CONSTANTS
  w1 = w1  w2 = w2  e1 = e1  a1 = a1  a2 = a2  u1 = u1  u2 = u2
  Executions = {e1}
  Workers = {w1, w2}
  Approvals = {a1, a2}
  Users = {u1, u2}
  Approvers = {u1, u2}
  Operations = {"open", "skill", "request_approval", "decide", "decide_only", "finalize"}
  Failures = TRUE
  MaxCalls = 5
SPECIFICATION Spec
INVARIANTS TypeOK  LedgerStory ApprovalEvidence
           GrantTakesEffect
PROPERTIES DecisionIsFinal OnlyResumeRevives
CHECK_DEADLOCK FALSE
