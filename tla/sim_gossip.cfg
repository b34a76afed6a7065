CONSTANTS
  NodeId = {1, 2, 3}
  Keys = {"counter", "tags", "top"}
  Strings = {"a", "b"}
  MinInt <- MCMinInt
  MaxInt = 15
  FloatValues <- MCFloatValues
  Transactions <- Uncoordinated
  MaxDelay = 1
  RequeueInterval = 10
  MaxCommits = 2
  MaxEvents = 2
SPECIFICATION FairSpec
INVARIANTS
  StateIsMergeOfUpdates
  ClusterInv
PROPERTY EventuallyConverges
