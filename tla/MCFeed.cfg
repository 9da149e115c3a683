SPECIFICATION FairSpec
CONSTANTS
  Prices = {1, 2}
  Batches <- SomeBatches
  Accounts = {"alice", "bob"}
  Conns = {"public", "private"}
  Account <- AccountOf
  Capacity = 1
  Depths = {1, 2}
  None = None
  MaxBatches = 3
  MaxSessions = 2
CHECK_DEADLOCK FALSE
INVARIANTS FeedUnbroken ClientReconciles
PROPERTY FeedCatchesUp
