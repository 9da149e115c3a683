SPECIFICATION Spec
CONSTANTS
  None = None
  Accounts = {a1, a2}
  ClientIds = {1}
  DedupWindow = 0
  Pairs <- OneMarket
  Prices = {1, 2}
  Sizes = {0, 1, 2}
  Amounts = {2}
  U64Max = 3
  MaxOrders = 3
  MaxBatches = 7
  DepositCeiling <- Ceiling
  PriceBandBps = 2000
  PreventSelfTrade = TRUE
CHECK_DEADLOCK FALSE
SYMMETRY Symmetry
INVARIANTS NoUnderflow ReservedBacked Uncrossed IndexExact QueuesInOrder WalkedCostExact SelfTradeMirrorsMatching
PROPERTIES TradesExplainHoldings TradeCostFits
