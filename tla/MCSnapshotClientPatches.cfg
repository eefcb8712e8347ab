SPECIFICATION ClientSpec
CONSTANTS
  Contents = {c1, c2}
  FirstContent = c1
  HasIgnored = FALSE
  Patchers = {p1}
  Writers = {}
  Readers = {}
  MaxHistory = 1
  MaxEdits = 2
  Capacity = 1
PROPERTIES
  ResyncRecovers
