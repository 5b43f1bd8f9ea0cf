SPECIFICATION LiveSpec
CONSTANTS
  Edges = {e1, e2, e3}
  NoEdge = NoEdge
  MaxFan = 2
  MaxReturns = 0
  MaxRouteFailures = 0
  MaxDeaths = 0
  MaxCrashes = 0
  MaxRetries = 0
  MaxRefusals = 0
  Kinds = {"human", "single", "contract"}
  QueueCap = 2
  PacketRows = 1
  Steerable = FALSE
  TrailingIdle = FALSE
  MaxPosts = 2
  MaxFaults = 1
  MaxRedone = 0
PROPERTIES EverySettles EveryMessageServed
CHECK_DEADLOCK FALSE
