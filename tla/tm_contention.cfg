CONSTANTS
  Threads = {p, q, r}
  NoThread = NoThread
  Tables = {t}
  Branches = {main}
  UseBranches = FALSE
  MaxRecent = 1
  MaxTx = 3
  MaxCrashes = 1
  MaxIOErrors = 0
  MaxDirect = 1
  MaxRecoveries = 0
SYMMETRY ThreadTableSymmetry
SPECIFICATION Spec
INVARIANT NoLostUpdate
