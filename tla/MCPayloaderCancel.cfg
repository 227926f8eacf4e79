SPECIFICATION SystemSpec
CONSTANTS
  Conns = 2
  ReqTarget = 3
  Workers <- MCWorkers
  Target <- MCTarget
  MaxReqs = 2
  Parallel = FALSE
  UsesJwt = TRUE
  Codes = {"200"}
  ReqErrs = {}
  DoErrs = {"refused"}
  StatsCap = 1
  JwtCap = 1
  JwtMayFail = FALSE
  Sources <- FullCache
PROPERTIES
  CancelGivesResults
CHECK_DEADLOCK FALSE
