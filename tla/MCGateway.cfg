\* Publish now and schedule, through both entrances, with failures.
CONSTANTS
  now = now  later = later  w1 = w1  w2 = w2
  Workers = {w1, w2}
  Keys = {now, later}
  Schedules = {later}
  Failures = TRUE
  MaxCalls = 4
SPECIFICATION Spec
INVARIANTS TypeOK AtMostOneCall IntentBeforeCall TruthfulOutcome SettledAtRest
SYMMETRY Symmetry
CHECK_DEADLOCK FALSE
