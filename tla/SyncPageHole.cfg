SPECIFICATION Spec
CONSTANTS
  StreamKinds = {}
  SnapshotFullLimit = 1
  CatchupMaxRows = 2
  SnapshotMaxRows = 4
  WatermarkLow = 1
  WatermarkHigh = 1
  HardLimit = 2
  BodyMaxChunks = 2
  MaxReconnectAttempts = 1
  HistoryPageLimit = 1
  MaxRows = 5
  MaxVer = 0
  MaxNet = 1
  MaxFaults = 1
  MaxLoads = 1
INVARIANTS WindowContiguous
CHECK_DEADLOCK FALSE
