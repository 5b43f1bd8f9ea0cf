SPECIFICATION Spec
CONSTANTS
  StreamKinds = {"prose", "card"}
  SnapshotFullLimit = 2
  CatchupMaxRows = 2
  SnapshotMaxRows = 4
  WatermarkLow = 1
  WatermarkHigh = 1
  HardLimit = 2
  BodyMaxChunks = 3
  MaxReconnectAttempts = 1
  HistoryPageLimit = 1
  MaxRows = 1
  MaxVer = 2
  MaxNet = 2
  MaxFaults = 2
  MaxLoads = 0
INVARIANTS TypeOK ChunkExact QuietMeansCurrent
PROPERTIES NeverBackwards
CHECK_DEADLOCK FALSE
