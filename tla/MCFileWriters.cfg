SPECIFICATION MCSpec
CONSTANTS
  a = a
  b = b
  c1 = c1
  c2 = c2
  Paths = {a, b}
  Contents = {c1, c2}
  Missing = Missing
  Unknown = Unknown
  Patchers = {p1, p2}
  Requests <- MCRequests
  MaxEdits = 2
  Commands = {w1, w2}
  Torn = Torn
  MaxTree = 3
  MaxEvents = 3
  MaxShots = 2
  MaxKills = 1
SYMMETRY Alike
INVARIANTS AllOrNothing NothingGoesUnlogged EventsChain
PROPERTIES ExpectedIsOverwritten
CHECK_DEADLOCK FALSE
