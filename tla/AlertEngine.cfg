SPECIFICATION Spec
CONSTANTS
  Devices = {d1}
  high = high
  sustained = sustained
  Rules <- MCRules
  Duration <- MCDuration
  Cooldown <- MCCooldown
  None = None
  DbFails = TRUE
  MaxEvals = 3
  MaxRestarts = 1
  MaxClock = 1
INVARIANTS ActiveIsOpen OpenIsActive CooldownKept
PROPERTIES InRangeCloses FiresOnlySustained
\* The model stops when every point is evaluated.
CHECK_DEADLOCK FALSE
