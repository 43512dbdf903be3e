SPECIFICATION FairSpec
CONSTANTS
  d1 = d1
  d2 = d2
  p1 = p1
  p2 = p2
  FleetDevices = {d1, d2}
  Provisioned = {d1}
  Polls = {p1, p2}
  MaxStatus = 2
  MaxErrors = 1
  MaxDrops = 1
INVARIANT PollNotBehind
PROPERTY FleetHeals
