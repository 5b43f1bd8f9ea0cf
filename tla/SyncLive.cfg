SPECIFICATION FairSpec
CONSTANTS
  StreamKinds = {"prose"}
  SnapshotFullLimit = 2
  CatchupMaxRows = 2
  SnapshotMaxRows = 4
  WatermarkLow = 1
  WatermarkHigh = 1
  HardLimit = 2
  BodyMaxChunks = 1
  MaxReconnectAttempts = 1
  HistoryPageLimit = 1
  MaxRows = 2
  MaxVer = 1
  MaxNet = 1
  MaxFaults = 1
  MaxLoads = 0
PROPERTIES SettledShown
CHECK_DEADLOCK FALSE
