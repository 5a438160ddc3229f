\* Every stream of at most seven bytes, with one I/O error anywhere in it.
CONSTANTS
  MaxBytes = 7
  MaxErrors = 1
SPECIFICATION Spec
INVARIANTS TypeOK CutsAtFirstEnd
\* The stream ends after MaxBytes bytes.
CHECK_DEADLOCK FALSE
