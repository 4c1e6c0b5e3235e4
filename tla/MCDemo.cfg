\* Resets that die, overlap and are repeated while members go on working.
CONSTANTS
  s1 = s1  s2 = s2  q1 = q1
  Scripts = {s1, s2}
  Requests = {q1}
  Profiles = {"demo", "dev"}
  RowTables <- SomeTables
  Failures = TRUE
  MaxRuns = 3
  MaxRows = 1
SYMMETRY Symmetric
SPECIFICATION Spec
INVARIANTS TypeOK TenantIsWholeOrGone CalmRunRebuilds
CHECK_DEADLOCK FALSE
