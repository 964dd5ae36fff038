\* Every comparison, conditional move and operator but <<, and the instructions
\* without an operator.
CONSTANTS
  ByteBits = 2
  Vals <- MCVals
  BinOps <- MCBinOps
SPECIFICATION Spec
INVARIANTS ComparisonsDecide MovesChoose DivisionTruncates OperatorsMean
  NamedInstructionsMean
