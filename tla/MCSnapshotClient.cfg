SPECIFICATION ClientSpec
CONSTANTS
  Contents = {c1, c2, c3}
  FirstContent = c1
  HasIgnored = FALSE
  Patchers = {}
  Writers = {}
  Readers = {}
  MaxHistory = 2
  MaxEdits = 3
  Capacity = 1
PROPERTIES
  PollingCatchesUp
