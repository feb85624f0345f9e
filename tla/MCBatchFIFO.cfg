CONSTANTS
  Clients = {c1}
  Sockets = {s1}
  Parts = 2
  MaxPending = 3
  SortLimit = 1
  MaxSeq = 2
  MaxRequests = 2
  MaxTime = 0
  AnswerNumbers = {0, 1}
  EngineEnds = {}
  BannerArgs = 5
  SendsAll = TRUE
  Null = Null
SPECIFICATION Spec
INVARIANT ClientFIFO
CHECK_DEADLOCK FALSE
