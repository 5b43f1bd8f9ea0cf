SPECIFICATION Spec
CONSTANTS
  StreamKinds = {"card"}
  SnapshotFullLimit = 1
  CatchupMaxRows = 2
  SnapshotMaxRows = 4
  WatermarkLow = 1
  WatermarkHigh = 1
  HardLimit = 2
  BodyMaxChunks = 2
  MaxReconnectAttempts = 1
  HistoryPageLimit = 1
  MaxRows = 2
  MaxVer = 1
  MaxNet = 0
  MaxFaults = 1
  MaxLoads = 1
INVARIANTS ShownIsLogged
CHECK_DEADLOCK FALSE
