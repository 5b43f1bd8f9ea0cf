SPECIFICATION ProbeSpec
CONSTANTS
  StreamKinds = {}
  SnapshotFullLimit = 1
  CatchupMaxRows = 2
  SnapshotMaxRows = 1
  WatermarkLow = 1
  WatermarkHigh = 1
  HardLimit = 2
  BodyMaxChunks = 2
  MaxReconnectAttempts = 1
  HistoryPageLimit = 1
  MaxRows = 4
  MaxVer = 0
  MaxNet = 1
  MaxFaults = 2
  MaxLoads = 0
INVARIANTS WindowContiguous
PROPERTIES HeadReached
CHECK_DEADLOCK FALSE
