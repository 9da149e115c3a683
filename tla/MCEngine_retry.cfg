SPECIFICATION Spec
CONSTANTS
  None = None
  Accounts = {a1, a2}
  ClientIds = {1, 2}
  DedupWindow = 1
  Pairs <- BothMarkets
  Prices = {1, 2}
  Sizes = {1, 2}
  Amounts = {2}
  U64Max = 3
  MaxOrders = 2
  MaxBatches = 4
  DepositCeiling <- Ceiling
  PriceBandBps = 2000
  PreventSelfTrade = TRUE
CHECK_DEADLOCK FALSE
SYMMETRY Symmetry
INVARIANTS TypeOK DedupConsistent
PROPERTY RefusalChangesNothing
