\* Two emergency stops.
CONSTANTS
  Thread = {t1, t2}
  NumDrivers = 1
  IgnitionSequence <- MCIgnition
  EStopSequence <- MCEStop
  GpioFaults = FALSE
SPECIFICATION Spec
INVARIANTS OneEStopAtATime
