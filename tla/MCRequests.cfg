SPECIFICATION FairSpec
CONSTANTS
  Accounts = {1, 2}
  AdminAccount = 1
  ClientIds = {1, 2}
  DedupWindow = 1
  Calls <- SomeCalls
  None = None
  MaxRequests = 3
  MaxFaults = 1
CHECK_DEADLOCK FALSE
INVARIANTS AnswersTrue RetrySafe WaitersExact
PROPERTY EveryRequestAnswered
