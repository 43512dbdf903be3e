\* Production's shape: the flush threshold is below the buffer's cap.
SPECIFICATION IngestSpec
CONSTANTS
  MaxRows = 2
  BufferCap = 3
  MaxPushes = 3
  Callers = {stop}
  d1 = d1
  d2 = d2
  stamped = stamped
  unstamped = unstamped
  farOff = farOff
  malformed = malformed
  none = none
  Devices <- MCDevices
  MqttMessages <- MCMqtt
  HttpMessages <- MCHttp
  Invalid = {malformed}
  DeviceOf <- MCDeviceOf
  Stamp <- MCStamp
  NoStamp = none
  Skew = 1
  MaxClock = 1
INVARIANTS ShutdownDrains StampedStoredOnce FlushedIsDurable
PROPERTIES ShutdownCompletes
\* After shutdown, and at the bounds on time and rows, nothing is left to do.
CHECK_DEADLOCK FALSE
