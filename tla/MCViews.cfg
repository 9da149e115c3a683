SPECIFICATION ViewsSpec
CONSTANTS
  None = None
  Accounts = {a1, a2}
  ClientIds = {1}
  DedupWindow = 0
  Pairs <- OneMarket
  Prices = {0, 1, 2}
  Sizes = {0, 1, 2}
  Amounts = {2}
  U64Max = 3
  MaxOrders = 3
  MaxBatches = 5
  DepositCeiling <- Ceiling
  PriceBandBps = None
  PreventSelfTrade = FALSE
CHECK_DEADLOCK FALSE
SYMMETRY Symmetry
INVARIANTS OrderRowsExact BalanceRowsExact LevelsExact
