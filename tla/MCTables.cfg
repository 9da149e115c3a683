SPECIFICATION Spec
CONSTANTS
  Script <- SomeScript
  Labels <- SomeLabels
  Widths = {1, 2}
  OrderDays = 1
  TradeDays = 1
  CandleDays = 1
  RetentionBatch = 1
  RetentionMaxBatches = 2
  RetentionInterval = 2
  ReadCount = 2
  MaxLimit = 2
  Limits = {0, 3}
  None = None
  MaxClock = 3
  MaxFaults = 1
CHECK_DEADLOCK FALSE
INVARIANTS CandlesExact OrdersSurviveSweep PagesStitch
