SPECIFICATION Spec
CONSTANTS
  w1 = w1
  w2 = w2
  Workers <- MCWorkers
  Target <- MCTarget
  MaxReqs = 2
  Parallel = TRUE
  UsesJwt = TRUE
  Codes = {"200"}
  ReqErrs = {"body"}
  DoErrs = {"refused"}
  StatsCap = 1
INVARIANTS
  TypeOK
  NoLostUpdate
  SampleConservation
  ReturnsQuiet
  ReturnsComplete
PROPERTIES
  WorkersReturn
  ImplementsLedger
CHECK_DEADLOCK FALSE
