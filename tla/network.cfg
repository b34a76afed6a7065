CONSTANTS
  NodeId = {1, 2}
  Keys = {"counter"}
  Strings = {}
  MinInt <- MCMinInt
  MaxInt = 2
  FloatValues <- MCFloatValues
  NoUpdate = NoUpdate
  Transactions <- MCTransactions
  Capacity = 1
  MaxCommits = 3
  MaxBreaks = 1
SPECIFICATION FairSpec
CHECK_DEADLOCK FALSE
INVARIANTS
  EveryUpdateAccounted
  ClocksSound
PROPERTY EventuallyDelivered
