SPECIFICATION MCSpec
CONSTANTS
  IncludeRoots <- MCRoots
  MaxChanges = 3
  MaxFailures = 1
  Workers = {w1, w2}
  Registries = {r1, r2}
  MaxStarted = 2
  MaxSaves = 1
  MaxAborts = 1
  MaxLines = 5
INVARIANTS NothingSavedIsLost PublishedWasChecked SpansMatchTheBlocks PluginIsWeighed
PROPERTIES ReportsCatchUp
CHECK_DEADLOCK FALSE
