SPECIFICATION MCSpec
CONSTANTS
  a = a
  b = b
  c = c
  Pkgs = {a, b, c}
  Declared <- MCDeclared
  Needs <- MCNeeds
  Latest = 2
  MaxRetries = 1
  MaxRuns = 2
  MaxChanges = 2
  None = None
  Blank = Blank
  Spelling <- MCSpelling
  ModelScript <- MCModelScript
  Projects <- MCProjects
  Homes <- MCHomes
  SkippedDirs <- MCSkippedDirs
  Trees <- MCTrees
  Editable <- MCEditable
  Contents <- MCContents
  Additions <- MCAdditions
  MaxEdits = 1
INVARIANTS
  GoodRunsAreComplete
  SourceMapShowsTheBuild
  ScriptsSurvive
  UneditedPlaceChangesNothing
  RoundTripSettles
PROPERTIES LockFollowsPackages
CHECK_DEADLOCK FALSE
