\* Three overlapping procedures, one driver, GPIO writes may fail.
CONSTANTS
  Thread = {t1, t2, t3}
  NumDrivers = 1
  IgnitionSequence <- MCIgnition
  EStopSequence <- MCEStop
  GpioFaults = TRUE
SPECIFICATION Spec
INVARIANTS TypeOK StateHasOwner IgnitionExclusive EStopSettles
PROPERTIES PreIgnitionStopHolds ReturnsToStandby
