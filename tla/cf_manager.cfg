CONSTANTS
  NodeId = {"n", "m"}
  Self = "n"
  Keys = {"counter", "tags"}
  Strings = {"a"}
  MinInt <- MCMinInt
  MaxInt = 15
  FloatValues <- MCFloatValues
  One = 64
  DefaultProbability = 8
  Threshold = 32
  RateDivisor = 2
  MaxPending = 1
  Resources = {"sku"}
  Amounts = {1, 3}
  MinQuota = 1
  MaxQuota = 2
  AdaptiveSizing = TRUE
  Threads = {t1, t2}
  NoThread = NoThread
  Transactions <- MCTransactions
  RemoteUpdates <- MCRemoteUpdates
  MaxCalls = 4
SPECIFICATION FairSpec
CHECK_DEADLOCK FALSE
INVARIANTS
  SpeculationInvisible
  CommitsCountOnce
  ManagerInv
  PendingCanBeDecided
  NeverOverspends
PROPERTY CallsEnd
