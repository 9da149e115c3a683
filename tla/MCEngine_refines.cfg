SPECIFICATION Spec
CONSTANTS
  None = None
  Accounts = {a1, a2}
  ClientIds = {1}
  DedupWindow = 0
  Pairs <- OneMarket
  Prices = {1, 2}
  Sizes = {1, 2}
  Amounts = {2}
  U64Max = 4
  MaxOrders = 3
  MaxBatches = 5
  DepositCeiling <- RichCeiling
  PriceBandBps = None
  PreventSelfTrade = FALSE
CHECK_DEADLOCK FALSE
SYMMETRY Symmetry
PROPERTY RefinesExchange
