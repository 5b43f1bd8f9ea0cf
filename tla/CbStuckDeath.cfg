SPECIFICATION FairSpec
CONSTANTS
  Edges = {e1, e2}
  NoEdge = NoEdge
  MaxFan = 1
  MaxReturns = 0
  MaxRouteFailures = 0
  MaxDeaths = 1
  MaxCrashes = 0
  MaxRetries = 0
  MaxRefusals = 0
PROPERTIES EverySettles
CHECK_DEADLOCK FALSE
