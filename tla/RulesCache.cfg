SPECIFICATION Spec
CONSTANTS
  Evals = {e1, e2, e3}
  Edits = {w1, w2}
  TTL = 2
  None = None
  MaxKinds = 1
  MaxClock = 3
INVARIANTS EditTakesEffect KindsCatchUp
\* The model stops when its points are evaluated and its edits made.
CHECK_DEADLOCK FALSE
