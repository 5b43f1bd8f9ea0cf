SPECIFICATION PartsSpec
CHECK_DEADLOCK FALSE
CONSTANTS
  Capacity = 2
  MaxChunk = 2
  MaxBytes = 5
  MaxWire = 2
  Agents = {a1, a2}
  Steerable = {a1}
  MaxFollowups = 1
  MaxTargets = 3
  MaxFaults = 1
  Pids = {p1, p2, p3}
  MaxCredentials = 3
  MaxLinks = 2
  MaxLinkFaults = 2
  MaxHead = 2
  MaxLives = 2
  MaxEvents = 2
  MaxPuts = 1
  MaxUpsets = 1
CONSTRAINT RunsExplored
INVARIANTS
  FramesTile QuietCaughtUp
  RunTypeOK OpenHasOwner PendingHasEvaluator ContractSettles FollowupChain
  SerialOneHub
  DevicesAgree RaisedStays
  NeverLockedOut DeadStayDead LinkedIsOnline
PROPERTIES
  ReliablyShown OutcomeStays RefusedByLive RevokedForGood
