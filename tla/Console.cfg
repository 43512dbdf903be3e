SPECIFICATION Spec
CONSTANTS
  x = x
  y = y
  Alerts = {1, 2}
  PageSize = 1
  Rules = {"r1", "r2"}
  Stored = {"r1"}
  MaxRequests = 3
  MaxFailures = 1
  Devices = {x, y}
  MaxSelects = 2
  MaxCalls = 1
  MaxEvents = 1
  MaxEdits = 2
  MaxDrops = 1
SYMMETRY Symmetry
INVARIANTS AlertsShown RulesSettle TextBelongs ShownIsSelected PanelsBelong NothingPutBack
\* A page stops when the bounded requests, events and losses are used up.
CHECK_DEADLOCK FALSE
