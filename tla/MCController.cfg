\* One procedure at a time, one client, a sensor thread; everything may fail.
CONSTANTS
  Thread = {t1}
  NumDrivers = 1
  IgnitionSequence <- MCIgnition
  EStopSequence <- MCEStop
  GpioFaults = TRUE
  Sensor = {s1}
  DriverStatus = status
  Main = main
  Conn = {c1}
  NoConn = none
  Nobody = nobody
  Parts = 1
  MaxMessages = 1
  LogFaults = {s1, status, main}
SPECIFICATION Spec
INVARIANTS TypeOK StatusIsCurrent NoCircularWait ServedUnlessPanicked
PROPERTIES ImplementsExecution ThreadsEnd
\* Without a sensor thread and a client that goes on, nothing is left to do.
CHECK_DEADLOCK FALSE
