SPECIFICATION Spec
CONSTANTS
  Edges = {e1, e2, e3}
  NoEdge = NoEdge
  MaxFan = 2
  MaxReturns = 1
  MaxRouteFailures = 1
  MaxDeaths = 1
  MaxCrashes = 1
  MaxRetries = 1
  MaxRefusals = 1
SYMMETRY Symmetry
INVARIANTS TypeOK FanIn ReportedAfterTurn IntentsCoverRoutes UndeliverableUpward
  ReleasedAfterContinuations ClaimsAreOwned
PROPERTIES SettledStays
CHECK_DEADLOCK FALSE
