CONSTANTS
  NodeId = {1, 2}
  Keys = {"counter", "top", "tags", "factor"}
  Strings = {"a", "b"}
  MinInt <- MCMinInt
  MaxInt = 3
  FloatValues <- MCFloatValues
  Tables = {"t", "u"}
  Columns = {"c", "d", "e"}
  NoBase = NoBase
  NaN = NaN
  H1 <- MCH1
  H2 <- MCH2
  Parts = {1, 2}
  Certain = 4
  BoundFactor = 1
  BoundMargin = 2
  CertainFactor = 10
  Domains <- MCDomains
SPECIFICATION ArgumentsSpec
CHECK_DEADLOCK FALSE
INVARIANTS
  MergeLaws
  MergedUpdateSameEffect
  BranchesSound
  ConflictsFound
  MerkleSound
  QuantileIsLeast
  ChangelogSound
  PruningLosesNoRow
