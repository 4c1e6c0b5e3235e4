\* Two handlers at once, five in all, with one failed call or restart.
CONSTANTS
  t1 = t1  t2 = t2  n1 = n1  n2 = n2
  Tasks = {t1, t2}
  MaxExecutions = 2
  Answers = {n1, n2}
  Phases = 2
  MaxRequests = 5
  MaxFailures = 1
SYMMETRY Symmetry
SPECIFICATION Spec
INVARIANTS TypeOK ItemTellsApproval UnsealedIsExplained BrandHistory AnswersKept
CHECK_DEADLOCK FALSE
