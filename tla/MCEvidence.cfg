\* Exports of a chain that closes an interval of three while two executions
\* go on, and one alteration of what was exported.
CONSTANTS
  e1 = e1  e2 = e2
  Executions <- MCExecutions
  Interval = 3
  MaxEntries = 3
  MaxEvents = 2
  MaxRaces = 2
SYMMETRY Symmetry
SPECIFICATION Spec
INVARIANTS TypeOK CleanVerdict AlterationFails VerifiedRecordIsSound
CHECK_DEADLOCK FALSE
