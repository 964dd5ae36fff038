\* Every build of the small programs, with the oscillation fixes.
CONSTANTS
  Programs <- AllPrograms
  Objs <- MCObjs
  Start = 2030
  End = 2076
  MaxPasses = 3
  FixOscillations = TRUE
SPECIFICATION FairSpec
INVARIANTS TypeOK ImageMatchesLayout AlignHonored NoPadHonored
  AlignFreeBranchesLand AlignFreeSettled InCodeRegion PassBudget
PROPERTY Terminates
