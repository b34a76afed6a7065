CONSTANTS
  Tables = {t}
  Wanted = {t}
  None = None
  MaxTx = 2
  MaxCrashes = 0
  MaxErrors = 0
SPECIFICATION Spec
CHECK_DEADLOCK FALSE
INVARIANT OnlyNewEvents
