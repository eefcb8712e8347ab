SPECIFICATION ListingSpec
CONSTANTS
  Contents = {c1, c2}
  FirstContent = c1
  HasIgnored = FALSE
  Patchers = {p1}
  Writers = {}
  Readers = {r1}
  MaxHistory = 2
  MaxEdits = 2
INVARIANT LocksDoNotCycle
