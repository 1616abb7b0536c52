SPECIFICATION Spec
CONSTANTS
  Process = {p1}
  Checking = {p1}
  MaxEpoch = 2
  MaxStarts = 3
INVARIANTS ConfigWhole ExecutableKept RemediesSuffice
PROPERTY SaveReachesDisk
CHECK_DEADLOCK FALSE
