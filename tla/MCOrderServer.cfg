CONSTANTS
  Clients = {c1, c2}
  Sockets = {s1, s2}
  Parts = 2
  MaxPending = 2
  SortLimit = 1
  MaxSeq = 2
  MaxRequests = 3
  MaxTime = 1
  AnswerNumbers = {0, 1, 2}
  EngineEnds = {}
  BannerArgs = 5
  SendsAll = FALSE
  Null = Null
SPECIFICATION Spec
INVARIANTS
  ServerTypeOK
  FramesWhole
  ExactlyOnceInSequence
  SwappedInLongPassesOnly
  OvertakenByEarlierPassOnly
  AnswersHaveSocket
  ResponsesInOrder
CONSTRAINT TimesOrAnswers
SYMMETRY Interchangeable
CHECK_DEADLOCK FALSE
