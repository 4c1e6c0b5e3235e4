\* Finding: a repeated publish request fails an execution whose post is out.
CONSTANTS
  now = now  later = later  w1 = w1  w2 = w2
  Workers = {w1, w2}
  Keys = {now}
  Schedules = {}
  Failures = FALSE
  MaxCalls = 3
SPECIFICATION Spec
INVARIANT NoFalseFailure
CHECK_DEADLOCK FALSE
