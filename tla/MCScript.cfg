SPECIFICATION Spec
CONSTANTS
  Ids <- MCIds
  Conds <- MCConds
  Scripts <- MCScripts
  Extras <- MCExtras
INVARIANTS
  TypeOK
  MacrosMean
  PackedUnpadded
  OneImage
CHECK_DEADLOCK FALSE
