SPECIFICATION MCSpec
CONSTANTS
  a = a
  b = b
  c = c
  x = x
  bad = bad
  t1 = t1
  t2 = t2
  Ids = {a, b, c}
  Aliases = {x}
  NoAlias = NoAlias
  Requests <- MCPipelines
  Texts <- MCTexts
  Paths = {a, b}
  Contents = {c, bad}
  Torn = Torn
  Faulty = {bad}
  Missing = Missing
  Tasks = {t1, t2}
  Batches <- MCBatches
  Found = {c, Missing}
  RetryCap = 1
  MaxEdits = 1
INVARIANTS DependenciesResolved ReportTellsAll AnswersMatchTheFiles
PROPERTIES RunsInDependencyOrder  InstallsWhatIsOnDisk
CHECK_DEADLOCK FALSE
