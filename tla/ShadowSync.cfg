SPECIFICATION FairSpec
CONSTANTS
  Plain = {0, 1}
  v1 = v1
  v2 = v2
  Firmwares <- MCFirmwares
  Factory <- MCFactory
  None = None
  PoolSize = 2
  MaxEvents = 2
  MaxAcks = 1
INVARIANTS SyncTypeOK QuietIsInSync
PROPERTIES NoLostEdit UpdatesOnlyWhenNeeded Converges
\* The model stops when nothing is under way and no request is left.
CHECK_DEADLOCK FALSE
