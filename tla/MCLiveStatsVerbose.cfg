SPECIFICATION Spec
CONSTANTS
  Conns = 2
  Target <- MCTarget
  Latency <- MCLatency
  StatsCap = 1
  MaxTicks = 3
INVARIANTS
  VerboseCountsExact
CHECK_DEADLOCK FALSE
