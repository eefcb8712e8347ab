SPECIFICATION CommandsSpec
CONSTANTS
  MaxEpoch = 1
  MaxIncarnation = 1
  Commands = {c1, c2, c3}
  Guarded = {c1}
  PluginReports <- MCReports
  QueueLimit = 1
INVARIANTS
  RunsAtMostOnce
  AnswersAreTrue
  NothingOvertakenRuns
PROPERTIES
  CommandsSettle
