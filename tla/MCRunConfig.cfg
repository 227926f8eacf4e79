SPECIFICATION Spec
CONSTANTS
  Durations <- MCDurations
  ReqTargets <- MCReqTargets
  ConnCounts <- MCConnCounts
  Tickers <- MCTickers
  Clients <- MCClients
  Word = 16
  CounterWord = 8
  MaxSlice = 4
INVARIANTS
  TypeOK
  SharesAddUp
  JwtsNeverIgnored
  LastAloneIsLate
  PanicCauses
CHECK_DEADLOCK FALSE
