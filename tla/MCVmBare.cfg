\* The m flag on instructions without a first source.
CONSTANTS
  ByteBits = 2
  RamSize = 12
  CodeBase = 16
  CodeByte = 1
  MaxTgts = 3
  MaxSrcs = 3
  Funcs <- MCFuncs
  HostWords <- MCHostWords
  Programs <- BarePrograms
  Rams <- MCRams
SPECIFICATION Spec
INVARIANT StepReportsErrors
