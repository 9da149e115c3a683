SPECIFICATION FairSpec
CONSTANTS
  Level = {1, 2}
  Qty = {1}
  Garbage = Garbage
  None = None
  ReadCount = 2
  TrimEvery = 1
  SnapshotEvery = 1
  MaxEntries = 3
  MaxStops = 2
CHECK_DEADLOCK FALSE
INVARIANTS BookFollowsStream TrimSparesReaders AckedIsCommitted
PROPERTIES BookCatchesUp RowsCatchUp
