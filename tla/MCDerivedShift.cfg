\* The operator <<.
CONSTANTS
  ByteBits = 2
  Vals <- MCVals
  BinOps <- LeftShift
SPECIFICATION Spec
INVARIANT LeftShiftShiftsLeft
