-------------------------------- MODULE Varint ------------------------------
(***************************************************************************)
(* The sizes of encoded operands, as the layout engine takes them.         *)
(***************************************************************************)
EXTENDS Integers

\* Bytes of a prefix varint whose value is v shifted left by mode bits.
VarintSize(v, mode) ==
  IF v < 2 ^ (7 - mode) THEN 1
  ELSE IF v < 2 ^ (14 - mode) THEN 2
  ELSE IF v < 2 ^ (21 - mode) THEN 3
  ELSE IF v < 2 ^ (28 - mode) THEN 4 ELSE 5

ImmSize(v) == VarintSize(IF v >= 0 THEN v ELSE -v - 1, 2)
MemSize(a) == VarintSize(IF a % 4 = 0 THEN a \div 4 ELSE a, 3)

MaxVarintSize == 5
=============================================================================
