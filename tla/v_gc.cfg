CONSTANTS
  Tables = {t}
  Chunks = {x, y}
  Branches = {"main", "dev"}
  Main = "main"
  NoBase = NoBase
  Writers = {w}
  MaxVersions = 1
  ByAge = TRUE
  MaxCalls = 4
  MaxCrashes = 0
SPECIFICATION Spec
CHECK_DEADLOCK FALSE
INVARIANT WritingDuringCollectionLosesNothing
