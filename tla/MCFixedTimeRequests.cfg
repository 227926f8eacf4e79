SPECIFICATION Spec
CONSTANTS
  w1 = w1
  Workers <- MCWorkers
  Target <- MCTarget
  Until = 4
  ReqEvery = 2
  MaxTime = 5
  MaxReqs = 3
  Parallel = TRUE
  UsesJwt = FALSE
  Codes = {"200"}
  ReqErrs = {}
  DoErrs = {"timeout"}
  StatsCap = 1
INVARIANTS
  NeverShort
  Pace
PROPERTIES
  PastTargetNeverReturns
  CancelReturns
CHECK_DEADLOCK FALSE
