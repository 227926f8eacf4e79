SPECIFICATION SystemSpec
CONSTANTS
  Conns = 2
  ReqTarget = 3
  Workers <- MCWorkers
  Target <- MCTarget
  MaxReqs = 2
  Parallel = FALSE
  UsesJwt = TRUE
  Codes = {"200"}
  ReqErrs = {"body"}
  DoErrs = {"refused"}
  StatsCap = 1
  JwtCap = 1
  JwtMayFail = TRUE
  Sources <- MCSources
INVARIANTS
  SystemTypeOK
  ResultsComplete
  JwtsInTurn
  NoBareRequests
  AverageNotOverstated
  EveryJwtSent
  StrandedByUnread
PROPERTIES
  HandleReqsReturns
CHECK_DEADLOCK FALSE
