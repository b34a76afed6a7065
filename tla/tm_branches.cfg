CONSTANTS
  Threads = {p, q}
  NoThread = NoThread
  Tables = {t, u}
  Branches = {main, dev}
  UseBranches = TRUE
  MaxRecent = 1
  MaxTx = 2
  MaxCrashes = 1
  MaxIOErrors = 0
  MaxDirect = 0
  MaxRecoveries = 1
SYMMETRY ThreadTableSymmetry
SPECIFICATION Spec
INVARIANT CommitsAreWhole
PROPERTIES
  ImplementsSerialStore
  OutcomeIsFinal
