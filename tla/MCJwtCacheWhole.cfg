SPECIFICATION Spec
CONSTANTS
  Procs = {p, q}
  Amounts <- MCAmounts
  NumCPU = 2
  BatchSize = 1
  MaxRuns = 3
  MaxMishaps = 1
PROPERTIES
  StreamedWhole
CHECK_DEADLOCK FALSE
