CONSTANTS
  Threads = {p, q}
  NoThread = NoThread
  Tables = {t, u}
  Branches = {main}
  UseBranches = FALSE
  MaxRecent = 1
  MaxTx = 2
  MaxCrashes = 1
  MaxIOErrors = 1
  MaxDirect = 0
  MaxRecoveries = 0
SPECIFICATION FairSpec
INVARIANTS
  CommittedIsDurable
  
PROPERTIES
  CommitReturns
  ImplementsSerialStore
