\* Two ADCs, two channels whose numbers are each other's complement; every pin
\* operation may fail.
CONSTANTS
  Adc = {a1, a2}
  Channel = {2, 5}
  GpioFaults = TRUE
SPECIFICATION Spec
SYMMETRY Adcs
INVARIANTS TypeOK CleanReadIsRight SelectionHasCause
