-------------------------------- MODULE Alu ---------------------------------
(***************************************************************************)
(* What dispatch() of the C interpreter computes: the results t[0], t[1]   *)
(* of an operation on the sources s[0], s[1], ... (s[1], s[2], ... here).  *)
(* The VM is built with ERR_ON_ZERO_DIVISION and ERR_ON_INT_OVERFLOW, and  *)
(* with gcc, where signed + - * << and unary - wrap.                       *)
(***************************************************************************)
EXTENDS Word, OpSpec, Sequences

Truth(b) == IF b THEN 1 ELSE 0

\* The relation a branch, test or conditional move decides by.
RelationOf ==
  [TST_EQ |-> "EQ", TST_NE |-> "NE", TST_GT |-> "GT", TST_GE |-> "GE",
   TST_GT_U |-> "GT_U", TST_GE_U |-> "GE_U",
   BR_EQ |-> "EQ", BR_NE |-> "NE", BR_GT |-> "GT", BR_GE |-> "GE",
   BR_GT_U |-> "GT_U", BR_GE_U |-> "GE_U",
   MOV_EQ |-> "EQ", MOV_GT |-> "GT", MOV_GE |-> "GE",
   MOV_GT_U |-> "GT_U", MOV_GE_U |-> "GE_U"]

Holds(op, s) ==
  LET a == s[1]  b == s[2] IN
  CASE RelationOf[op] = "EQ"   -> a = b
    [] RelationOf[op] = "NE"   -> a # b
    [] RelationOf[op] = "GT"   -> a > b
    [] RelationOf[op] = "GE"   -> a >= b
    [] RelationOf[op] = "GT_U" -> Unsigned(a) > Unsigned(b)
    [] RelationOf[op] = "GE_U" -> Unsigned(a) >= Unsigned(b)

\* int / int of C rounds towards zero.
Magnitude(v) == IF v < 0 THEN -v ELSE v
TruncDiv_Floored(a, b) == IF b < 0 THEN (-a) \div (-b) ELSE a \div b
TruncDiv(a, b) ==
  LET q == Magnitude(a) \div Magnitude(b)
  IN  IF (a < 0) = (b < 0) THEN q ELSE -q
TruncRem(a, b) == a - b * TruncDiv(a, b)

Bit(v, k) == (Unsigned(v) \div 2 ^ k) % 2
BitPlaces == 0 .. WordBits - 1
FromBits(b) == Wrap(SumTo([k \in 1 .. WordBits |-> b[k - 1] * 2 ^ (k - 1)], WordBits))

\* A shift count of WordBits or more, a negative one included.
ShiftsOut(n) == Unsigned(n) >= WordBits
LShift_Masked(a, n) == Wrap(a * 2 ^ (n % WordBits))
LShift(a, n)  == IF ShiftsOut(n) THEN 0 ELSE Wrap(a * 2 ^ n)
RShiftU(a, n) == IF ShiftsOut(n) THEN 0 ELSE Wrap(Unsigned(a) \div 2 ^ n)
RShift_Masked(a, n) == a \div 2 ^ (n % WordBits)
RShift(a, n)  == IF ShiftsOut(n) THEN (IF a < 0 THEN -1 ELSE 0) ELSE a \div 2 ^ n

\* The first of the arguments at `stops`, the last one if there is none.
FirstOrLast(s, stops) == s[IF stops = {} THEN Len(s) ELSE Min(stops)]

\* The error of a computation, "OK" if it has results.
AluError(op, s) ==
  IF op \in VarSrcOps /\ s = <<>> THEN "BAD_OPERAND"
  ELSE IF op \in DivOps /\ s[2] = 0 THEN "ZERO_DIVISION"
  ELSE IF op = "DIV" /\ s[1] = IntMin /\ s[2] = -1 THEN "INTEGER_OVERFLOW"
  ELSE "OK"

\* The one result of every computing operation but the long multiplications.
Result(op, s) ==
  CASE op = "ADD"   -> Wrap(s[1] + s[2])
    [] op = "SUB"   -> Wrap(s[1] - s[2])
    [] op = "MUL"   -> Wrap(s[1] * s[2])
    [] op = "NEG"   -> Wrap(-s[1])
    [] op = "ABS"   -> Wrap(Magnitude(s[1]))
    [] op = "DIV"   -> TruncDiv(s[1], s[2])
    [] op = "DIV_U" -> Wrap(Unsigned(s[1]) \div Unsigned(s[2]))
    [] op = "REM"   -> TruncRem(s[1], s[2])
    [] op = "REM_U" -> Wrap(Unsigned(s[1]) % Unsigned(s[2]))
    [] op \in {"AND", "AND2"} -> FirstOrLast(s, {k \in DOMAIN s : s[k] = 0})
    [] op \in {"OR", "OR2"}   -> FirstOrLast(s, {k \in DOMAIN s : s[k] # 0})
    [] op = "MAX"   -> Max({s[k] : k \in DOMAIN s})
    [] op = "MIN"   -> Min({s[k] : k \in DOMAIN s})
    [] op = "NOT"   -> Truth(s[1] = 0)
    [] op = "BOOL"  -> Truth(s[1] # 0)
    [] op = "BIT_AND" -> FromBits([k \in BitPlaces |-> Bit(s[1], k) * Bit(s[2], k)])
    [] op = "BIT_OR"  -> FromBits([k \in BitPlaces |-> Truth(Bit(s[1], k) + Bit(s[2], k) # 0)])
    [] op = "BIT_XOR" -> FromBits([k \in BitPlaces |-> (Bit(s[1], k) + Bit(s[2], k)) % 2])
    [] op = "INV"       -> -s[1] - 1
    [] op = "L_SHIFT"   -> LShift(s[1], s[2])
    [] op = "R_SHIFT"   -> RShift(s[1], s[2])
    [] op = "R_SHIFT_U" -> RShiftU(s[1], s[2])
    [] op \in TestOps   -> Truth(Holds(op, s))
    [] op \in MoveIfOps -> IF Holds(op, s) THEN s[3] ELSE s[4]
    [] op \in {"MOV", "LD_B_U", "LD_H_U"} \cup StoreOps -> s[1]
    [] op = "LD_B"  -> SignExtend(s[1], 1)
    [] op = "LD_H"  -> SignExtend(s[1], 2)

\* LONG_MUL: the low word, then the high word, of the double-width product.
LongProduct(a, b) == <<Wrap(a * b), (a * b) \div Values(4)>>
Results(op, s) ==
  CASE op = "LONG_MUL"   -> LongProduct(s[1], s[2])
    [] op = "LONG_MUL_U" -> LET r == LongProduct(Unsigned(s[1]), Unsigned(s[2]))
                            IN  <<r[1], Wrap(r[2])>>
    [] OTHER -> <<Result(op, s)>>
=============================================================================
