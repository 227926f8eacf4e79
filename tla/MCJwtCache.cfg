SPECIFICATION Spec
CONSTANTS
  Procs = {p, q}
  Amounts <- MCAmounts
  NumCPU = 2
  BatchSize = 1
  MaxRuns = 3
  MaxMishaps = 1
INVARIANTS
  TypeOK
  CountNeverAhead
  NeverOvergenerates
  SpoiltLines
PROPERTIES
  CountedStays
  ServedInFull
  RunsEnd
CHECK_DEADLOCK FALSE
