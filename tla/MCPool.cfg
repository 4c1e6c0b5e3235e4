\* The pool really can come to a standstill.
CONSTANTS
  w1 = w1  w2 = w2  w3 = w3  w4 = w4  e1 = e1
  Clients = {w1, w2, w3, w4}
  Executions = {e1}
  PoolSize = 2
  MaxRequests = 4
SPECIFICATION PoolFairSpec
INVARIANTS PoolTypeOK StandstillNeedsApprovals
PROPERTY EveryRequestEnds
CHECK_DEADLOCK FALSE
