SPECIFICATION StoreSpec
CONSTANTS
  Contents = {c1, c2, c3}
  FirstContent = c1
  HasIgnored = TRUE
  Patchers = {p1, p2}
  Writers = {w1}
  Readers = {}
  MaxHistory = 2
  MaxEdits = 2
INVARIANTS
  HistoryConsistent
 
PROPERTIES
  ServesTheTree
