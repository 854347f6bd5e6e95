SPECIFICATION FairSpec
CONSTANTS
  w1 = w1
  w2 = w2
  Workers = {w1, w2}
  MaxRequests = 2
INVARIANTS
  TypeOK
  WaitIsAnswered
  LogIsOfItsRequest
  StallIsStarvation
PROPERTIES
  EarlyEndIsExchange
  CalculationEnds
  StopReleases
CHECK_DEADLOCK FALSE
