\* A sensor thread, the status thread and the main thread; two clients in turn
\* or at once; the logs may fail under the main thread, which then leaves a client
\* that is still there.
CONSTANTS
  Sensor = {s1}
  DriverStatus = status
  Main = main
  Conn = {c1, c2}
  NoConn = none
  Nobody = nobody
  Parts = 2
  MaxMessages = 2
  LogFaults = {main}
SPECIFICATION Spec
INVARIANTS TypeOK LogMatchesWire TargetIsServed
PROPERTIES DeliversWholeMessages ClientsAreGreeted
\* The dashboards leave and the reporters reach their bound: nothing is left.
CHECK_DEADLOCK FALSE
