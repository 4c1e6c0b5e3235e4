\* Two requests at once over three versions of a source, with one restart or
\* failure.
CONSTANTS
  w1 = w1  w2 = w2  x1 = x1  x2 = x2  v1 = v1  v2 = v2  v3 = v3  p1 = p1  p2 = p2
  Workers = {w1, w2}
  Executions = {x1, x2}
  Versions = {v1, v2, v3}
  FirstVersion = v1
  ChunkIndexes = {1, 2}
  Providers = {p1, p2}
  Modes = {"strict", "grounded"}
  Matches = {{}, {v1}, {v2}}
  TopK = 2
  MaxCalls = 4
  MaxFaults = 1
SYMMETRY Symmetry
SPECIFICATION Spec
INVARIANTS TypeOK WholeIndex AnswerConsistent PromptIsTraced
CHECK_DEADLOCK FALSE
