CONSTANTS
  Clients = {1}
  OrderIds = {1, 2, 3}
  BuyPrices <- InterleavedBuyPrices
  SellPrices <- InterleavedSellPrices
  Sides = {"BUY", "SELL"}
  Qtys = {1}
  MaxOrders = 3
  ReuseIds = FALSE
  LevelPool = 8
  OrderPool = 8
  Null = Null
SPECIFICATION Spec
INVARIANT RingClosed
CHECK_DEADLOCK FALSE
