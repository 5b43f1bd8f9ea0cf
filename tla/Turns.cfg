SPECIFICATION TurnSpec
CONSTANTS
  Kinds = {"human", "single", "contract"}
  QueueCap = 2
  PacketRows = 1
  Steerable = TRUE
  TrailingIdle = FALSE
  MaxPosts = 4
  MaxFaults = 2
  MaxRedone = 1
CONSTRAINT Explored
INVARIANTS TurnTypeOK CursorCovered Accounted AtMostOnce OneTurnAtATime
CHECK_DEADLOCK FALSE
