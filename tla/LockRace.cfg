SPECIFICATION LockSpec
CONSTANTS
  Pids = {p1, p2, p3}
INVARIANTS OneHub
CHECK_DEADLOCK FALSE
