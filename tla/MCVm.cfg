\* Every step of the programs the assembler can make.
CONSTANTS
  ByteBits = 2
  RamSize = 12
  CodeBase = 16
  CodeByte = 1
  MaxTgts = 3
  MaxSrcs = 3
  Funcs <- MCFuncs
  HostWords <- MCHostWords
  Programs <- MCPrograms
  Rams <- MCRams
SPECIFICATION FairSpec
INVARIANTS TypeOK BuffersHold FailedStepWritesNothing StepReportsErrors
PROPERTIES StepReturns AtomicSteps
