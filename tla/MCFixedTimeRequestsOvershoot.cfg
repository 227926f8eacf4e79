SPECIFICATION Spec
CONSTANTS
  w1 = w1
  Workers <- MCWorkers
  Target <- MCTarget
  Until = 4
  ReqEvery = 2
  MaxTime = 5
  MaxReqs = 3
  Parallel = FALSE
  UsesJwt = FALSE
  Codes = {"200"}
  ReqErrs = {}
  DoErrs = {"timeout"}
  StatsCap = 1
INVARIANTS
  NeverMoreThanTarget
CHECK_DEADLOCK FALSE
