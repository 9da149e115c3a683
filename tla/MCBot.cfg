SPECIFICATION Spec
CONSTANTS
  QuoteLevels = 1
  Spread = 1
  MinMid = 2
  MaxMid = 4
  FirstMid = 3
  Ttl = 2
  ReauthEvery = 2
  MaxPrints = 1
  StartTime = 2
  TickTime = 1
  None = None
  MaxTicks = 2
  MaxFaults = 1
  MaxOutsider = 1
CHECK_DEADLOCK FALSE
INVARIANTS QuotesDoNotCross OrdersTracked TokensRenewedInTime
