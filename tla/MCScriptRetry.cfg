SPECIFICATION Spec
CONSTANTS
  Ids <- MCIds
  Conds <- MCConds
  Scripts <- RetryScripts
  Extras <- MCExtras
INVARIANT EveryInstruction
CHECK_DEADLOCK FALSE
