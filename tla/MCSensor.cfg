\* One sensor, averages of width two that are rounded up or down, buffers of two
\* readings; reads and log writes may fail.
CONSTANTS
  NumSensors = 1
  Values = {2, 9}
  Low = 1
  High = 3
  Width = 2
  Scale = 2
  Rounding = 1
  LogBufferSize = 2
  MaxLoops = 4
  Faults = TRUE
  StandbyPeriod = 2
  IgnitionPeriod = 1
  TransmissionPeriod = 1
  PreIgniteTime = 4
  Delay = 1
SPECIFICATION Spec
INVARIANTS TypeOK LogIsComplete SendsNewestOnce EStopHasCause 
\* The thread ends, or reaches its bound.
CHECK_DEADLOCK FALSE
