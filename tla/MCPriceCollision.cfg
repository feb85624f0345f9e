CONSTANTS
  Clients = {1}
  OrderIds = {1, 2, 3, 4}
  BuyPrices <- CollidingBuyPrices
  SellPrices <- CollidingSellPrices
  Sides = {"BUY", "SELL"}
  Qtys = {1}
  MaxOrders = 4
  ReuseIds = FALSE
  LevelPool = 8
  OrderPool = 8
  Null = Null
SPECIFICATION FairSpec
PROPERTY ImplementsPriceTimeBook
CHECK_DEADLOCK FALSE
