SPECIFICATION AccessSpec
CONSTANTS
  i1 = i1
  i2 = i2
  i3 = i3
  i4 = i4
  i5 = i5
  r1 = r1
  r2 = r2
  Ids = {i1, i2, i3, i4, i5}
  Counts = {1, 2}
  MaxFaults = 3
  RequestIds = {r1, r2}
INVARIANTS OrphansBounded FleetKeepsIdentity OwnTopicsOnly
\* The simulator stops for good when the ids and the bounded faults are used up.
CHECK_DEADLOCK FALSE
