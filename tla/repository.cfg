CONSTANTS
  Tables = {t}
  Chunks = {x, y}
  Branches = {"main", "dev"}
  Main = "main"
  NoBase = NoBase
  Writers = {w}
  MaxVersions = 1
  ByAge = TRUE
  MaxCalls = 4
  MaxCrashes = 1
SPECIFICATION FairSpec
CHECK_DEADLOCK FALSE
INVARIANTS
  VersionsStand
  CompleteVersionsStay
  CollectorAloneIsSafe
PROPERTY OrphansCleaned
