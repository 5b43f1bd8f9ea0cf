SPECIFICATION RunSpec
CONSTANTS
  Agents = {a1, a2}
  MaxFollowups = 1
  Steerable = {a1}
  MaxTargets = 3
  MaxFaults = 1

CHECK_DEADLOCK FALSE
PROPERTIES SteersSettle
