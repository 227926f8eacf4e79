SPECIFICATION Spec
CONSTANTS
  w1 = w1
  Workers <- MCWorkers
  MaxReqs = 3
  Parallel = TRUE
  UsesJwt = FALSE
  Codes = {"200"}
  ReqErrs = {}
  DoErrs = {"timeout"}
  StatsCap = 1
INVARIANTS
  ReturnsQuiet
  AllAccounted
PROPERTIES
  WorkersReturn
CHECK_DEADLOCK FALSE
