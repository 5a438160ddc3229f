\* Up to two processes, started at any time, in one logs path or two; everything
\* may fail.
CONSTANTS
  NumProcesses = 2
  Started <- MCStarted
  Nobody = nobody
  Dir <- MCDir
  Refuses <- MCRefuses
  GroupIds = 2
  Configurations <- MCConfigurations
  ChipLines <- MCChipLines
  Faults = TRUE
  LookupFaults = TRUE
SPECIFICATION Spec
INVARIANTS TypeOK LogsAreOwn ControllersExclude StartsSafe AcceptedStarts
PROPERTIES StartsOrStops
\* Every process ends in the end, or waits for threads that go on.
CHECK_DEADLOCK FALSE
