\* Scripts without instructions.
CONSTANTS
  Programs <- EmptyPrograms
  Objs <- MCObjs
  Start = 2030
  End = 2100
  MaxPasses = 3
  FixOscillations = TRUE
SPECIFICATION Spec
INVARIANT EmptyScriptBuilds
