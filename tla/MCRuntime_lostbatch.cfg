SPECIFICATION FairSpec
CONSTANTS
  Payload = {"trade", "reject"}
  Garbage = "garbage"
  EngineState <- Digests
  Engine0 = 0
  Apply <- DigestApply
  None = None
  ReadCount = 2
  SnapshotEvery = 2
  SnapshotLoss = FALSE
  SetIdFails = FALSE
  MaxCommands = 1
  MaxCrashes = 1
CHECK_DEADLOCK FALSE
PROPERTY PendingIsRedelivered
