CONSTANTS
  Tables = {t, u}
  Wanted = {t}
  None = None
  MaxTx = 3
  MaxCrashes = 1
  MaxErrors = 1
SPECIFICATION FairSpec
CHECK_DEADLOCK FALSE
INVARIANTS
  ListedAreCommitted
  
  
  LogInv
 
