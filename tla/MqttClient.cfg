SPECIFICATION FairSpec
CONSTANTS
  MaxFaults = 20
INVARIANTS OneLiveClient NeverStranded EndIsFinal
PROPERTIES Reconnects
\* After end() the server's connection is over.
CHECK_DEADLOCK FALSE
