\* A buffer that overflows before it is long enough to flush: rows are dropped.
SPECIFICATION FairSpec
CONSTANTS
  MaxRows = 4
  BufferCap = 2
  MaxPushes = 4
  Callers = {c1, c2}
INVARIANTS NewestKept Accounting WrittenInOrder FlushWaits
PROPERTIES RowsSettle
\* The model stops when its bound on pushes is reached and every call returned.
CHECK_DEADLOCK FALSE
