\* Branches over 27 to 32 bytes, with and without alignments.
CONSTANTS
  Programs <- Branches
  Objs <- MCObjs
  Start = 2030
  End = 2100
  MaxPasses = 3
  FixOscillations = TRUE
SPECIFICATION Spec
INVARIANT BranchesLand
