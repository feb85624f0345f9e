CONSTANTS
  Clients = {1}
  OrderIds = {a, b}
  BuyPrices <- SharingBuyPrices
  SellPrices <- SharingSellPrices
  Sides = {"BUY", "SELL"}
  Qtys = {1, 2}
  MaxOrders = 4
  ReuseIds = TRUE
  LevelPool = 3
  OrderPool = 4
  Null = Null
SPECIFICATION FeedSpec
INVARIANTS
  LevelsAndOrdersAgree
  CidMapSound
  MirrorAgrees
  AccountsAgree
  TradesAgree
PROPERTY PriceTimeWhileLinked
SYMMETRY OrderIdSymmetry
CHECK_DEADLOCK FALSE
