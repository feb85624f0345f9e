CONSTANTS
  Clients = {1}
  OrderIds = {1, 2, 3}
  BuyPrices <- SharedPrice
  SellPrices <- SharedPrice
  Sides = {"BUY", "SELL"}
  Qtys = {1}
  MaxOrders = 3
  ReuseIds = FALSE
  LevelPool = 8
  OrderPool = 8
  Null = Null
SPECIFICATION Spec
INVARIANT BuysNotCrossed
CHECK_DEADLOCK FALSE
