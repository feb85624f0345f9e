CONSTANTS
  seller = seller
  buyer = buyer
  o1 = o1
  o2 = o2
  o3 = o3
  Clients = {seller, buyer}
  Sockets = {seller, buyer}
  OrderIds = {o1, o2, o3}
  BuyPrices <- TradingBuyPrices
  SellPrices <- TradingSellPrices
  Sides = {"BUY", "SELL", "INVALID"}
  Qtys = {1, 2, 3}
  MaxOrders = 4
  LevelPool = 8
  OrderPool = 5
  Scripts <- RacingScripts
  Parts = 1
  MaxPending = 4
  SortLimit = 16
  MaxSeq = 3
  MaxRequests = 4
  MaxTime = 0
  AnswerNumbers <- AnyNumber
  EngineEnds = {"segv", "out_of_space", "invalid_type"}
  BannerArgs = 5
  SendsAll = TRUE
  Null = Null
SPECIFICATION ExchangeSpec
INVARIANTS
  OrderStories
  ClientsKnow
PROPERTY EveryRequestAnswered
CHECK_DEADLOCK FALSE
