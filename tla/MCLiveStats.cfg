SPECIFICATION Spec
CONSTANTS
  Conns = 2
  Target <- MCTarget
  Latency <- MCLatency
  StatsCap = 1
  MaxTicks = 2
INVARIANTS
  TypeOK
  NeverOverstated
  RpsOfWholeSeconds
  AverageWithinMax
PROPERTIES
  ShownGrows
CHECK_DEADLOCK FALSE
