SPECIFICATION FairSpec
CONSTANTS
  Payload = {"trade", "reject"}
  Garbage = "garbage"
  EngineState <- Digests
  Engine0 = 0
  Apply <- DigestApply
  None = None
  ReadCount = 2
  SnapshotEvery = 2
  SnapshotLoss = FALSE
  SetIdFails = FALSE
  MaxCommands = 4
  MaxCrashes = 2
CHECK_DEADLOCK FALSE
INVARIANTS EngineFollowsLog NothingPassedOver SnapshotCoversTrim EventsFollowLog
PROPERTIES EmitBeforeAck EveryCommandApplied
