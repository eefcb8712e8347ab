SPECIFICATION ApplySpec
CONSTANTS
  x = x
  y = y
  Paths = {1, 2}
  Sources = {x, y}
  FirstTree <- MCFirst
  Slots = 2
  FetchRetries = 0
  MaxWrites = 1
  MaxLosses = 1
  MaxClicks = 1
INVARIANTS
  InstancesFollow
PROPERTIES
  StudioCatchesUp
CHECK_DEADLOCK FALSE
