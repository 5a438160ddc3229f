\* The same, with one transfer after another.
CONSTANTS
  Adc = {a1, a2}
  Channel = {2, 5}
  GpioFaults = TRUE
SPECIFICATION Spec
SYMMETRY Adcs
INVARIANTS ReadIsRight
