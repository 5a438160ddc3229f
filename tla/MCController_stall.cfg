\* One emergency stop, one client that may stop reading; nothing fails.
CONSTANTS
  Thread = {t1}
  NumDrivers = 1
  IgnitionSequence <- MCIgnition
  EStopSequence <- MCEStop
  GpioFaults = FALSE
  Sensor = {s1}
  DriverStatus = status
  Main = main
  Conn = {c1}
  NoConn = none
  Nobody = nobody
  Parts = 1
  MaxMessages = 1
  LogFaults = {}
SPECIFICATION Spec
PROPERTIES StopsActWithoutHelp
CHECK_DEADLOCK FALSE
