SPECIFICATION Spec
CONSTANTS
  Devices = {d1}
  high = high
  sustained = sustained
  Rules <- MCRules
  Duration <- MCDuration
  Cooldown <- MCCooldown
  None = None
  DbFails = FALSE
  MaxEvals = 3
  MaxRestarts = 0
  MaxClock = 2
INVARIANTS OneOpenAlert
\* The model stops when every point is evaluated.
CHECK_DEADLOCK FALSE
