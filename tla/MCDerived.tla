------------------------------ MODULE MCDerived ------------------------------
(* Argument values around the ends and the sign changes of a word.           *)
EXTENDS Derived

MCVals ==
  {IntMin, IntMin + 1, -9, -8, -7, -2, -1, 0, 1, 2, 7, 8, 9, 64, IntMax - 1, IntMax}
MCBinOps == {"+", "-", "*", "/", "//", "%", ">>", "&", "^", "|"}
LeftShift == {"<<"}
=============================================================================
