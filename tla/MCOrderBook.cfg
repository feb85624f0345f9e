CONSTANTS
  Clients = {1}
  OrderIds = {a, b, c, d}
  BuyPrices <- InterleavedBuyPrices
  SellPrices <- InterleavedSellPrices
  Sides = {"BUY", "SELL"}
  Qtys = {1, 2}
  MaxOrders = 4
  ReuseIds = FALSE
  LevelPool = 8
  OrderPool = 5
  Null = Null
SPECIFICATION Spec
INVARIANTS
  TypeOK
  LevelsAndOrdersAgree
  PriorityOrder
  CidMapSound
  CancelReaches
  RingOK
  SearchOK
  NeverUnsorted
SYMMETRY OrderIdSymmetry
CHECK_DEADLOCK FALSE
