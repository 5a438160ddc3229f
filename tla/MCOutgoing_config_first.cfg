\* One client, nothing fails.
CONSTANTS
  Sensor = {s1}
  DriverStatus = status
  Main = main
  Conn = {c1}
  NoConn = none
  Nobody = nobody
  Parts = 2
  MaxMessages = 2
  LogFaults = {}
SPECIFICATION Spec
INVARIANTS ConfigFirst
CHECK_DEADLOCK FALSE
