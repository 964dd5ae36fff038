------------------------------- MODULE Derived -------------------------------
(***************************************************************************)
(* From a Python expression over registers to what the VM computes: the    *)
(* operators of RichOpsMixin and the comparisons pick instruction classes, *)
(* half of which are other instructions with swapped arguments, and the    *)
(* interpreter gives those their result.  Expressions are built, assembled *)
(* and run for all argument values of Vals.                                *)
(*                                                                         *)
(* A definition named X_Y is X with one plausible mistake Y: no action     *)
(* uses it, it shows that a property notices the mistake.                  *)
(***************************************************************************)
EXTENDS Alu

CONSTANTS
  Vals,      \* the values the arguments take
  BinOps     \* the binary Python operators in use

ASSUME ValsAssumption == Vals \subseteq Words
ASSUME BinOpsAssumption ==
  BinOps \subseteq {"+", "-", "*", "/", "//", "%", "<<", ">>", "&", "^", "|"}

VARIABLES
  expr,      \* the Python expression, with the values of its arguments
  inst,      \* the instruction it becomes: its operation and sources
  out        \* what the VM makes of it
vars == <<expr, inst, out>>

None == [form |-> "none"]

CmpKinds == {"==", "!=", "<", "<=", ">", ">="}
Signed   == {"Eq", "Ne", "Gt", "Ge", "Lt", "Le"}
Classes  == Signed \cup {"GtU", "GeU", "LtU", "LeU"}

-----------------------------------------------------------------------------
(* The instruction classes.  TstLt is TstGt with a and b swapped, and so   *)
(* on; there is no MOV_NE, so MovNe swaps the values to choose from.       *)

AbSwapped == [Lt |-> "Gt", Le |-> "Ge", LtU |-> "GtU", LeU |-> "GeU"]
TstOp == [Eq |-> "TST_EQ", Ne |-> "TST_NE", Gt |-> "TST_GT", Ge |-> "TST_GE",
          GtU |-> "TST_GT_U", GeU |-> "TST_GE_U"]
BrOp  == [Eq |-> "BR_EQ", Ne |-> "BR_NE", Gt |-> "BR_GT", Ge |-> "BR_GE",
          GtU |-> "BR_GT_U", GeU |-> "BR_GE_U"]
MovOp == [Eq |-> "MOV_EQ", Gt |-> "MOV_GT", Ge |-> "MOV_GE", GtU |-> "MOV_GT_U",
          GeU |-> "MOV_GE_U"]

Inst(op, s) == [op |-> op, srcs |-> s]

\* cls.from_ab_swap(a, b) where the class is derived, else cls(a, b).
FromAb(table, c, a, b, more) ==
  IF c \in DOMAIN AbSwapped
  THEN Inst(table[AbSwapped[c]], <<b, a>> \o more)
  ELSE Inst(table[c], <<a, b>> \o more)
Tst(c, a, b) == FromAb(TstOp, c, a, b, <<>>)
Br(c, a, b)  == FromAb(BrOp, c, a, b, <<>>)
Mov_Unswapped(c, a, b, x, y) ==
  IF c = "Ne" THEN Inst("MOV_EQ", <<a, b, x, y>>) ELSE FromAb(MovOp, c, a, b, <<x, y>>)
Mov(c, a, b, x, y) ==
  IF c = "Ne" THEN Inst("MOV_EQ", <<a, b, y, x>>) ELSE FromAb(MovOp, c, a, b, <<x, y>>)

-----------------------------------------------------------------------------
(* Comparisons and operators. *)

IfClass ==
  [k \in CmpKinds |-> CASE k = "==" -> "Eq" [] k = "!=" -> "Ne" [] k = "<"  -> "Lt"
                        [] k = "<=" -> "Le" [] k = ">"  -> "Gt" [] k = ">=" -> "Ge"]
ElseClass_Mirrored ==
  [k \in CmpKinds |-> CASE k = "==" -> "Ne" [] k = "!=" -> "Eq" [] k = "<"  -> "Gt"
                        [] k = "<=" -> "Ge" [] k = ">"  -> "Lt" [] k = ">=" -> "Le"]
ElseClass ==
  [k \in CmpKinds |-> CASE k = "==" -> "Ne" [] k = "!=" -> "Eq" [] k = "<"  -> "Ge"
                        [] k = "<=" -> "Gt" [] k = ">"  -> "Le" [] k = ">=" -> "Lt"]

\* Python calls the mirrored method of the register when a plain int is on the
\* left: 5 < r is r > 5.
Mirrored ==
  [k \in CmpKinds |-> CASE k = "<" -> ">" [] k = "<=" -> ">=" [] k = ">" -> "<"
                        [] k = ">=" -> "<=" [] OTHER -> k]
Comparison(e) ==
  IF e.int_first THEN [kind |-> Mirrored[e.kind], a |-> e.b, b |-> e.a]
  ELSE [kind |-> e.kind, a |-> e.a, b |-> e.b]

BinaryOp(k) ==
  CASE k = "+"  -> "ADD" [] k = "-" -> "SUB" [] k = "*" -> "MUL"
    [] k \in {"/", "//"} -> "DIV" [] k = "%" -> "REM"
    [] k = "<<" -> "R_SHIFT_U" [] k = ">>" -> "R_SHIFT"
    [] k = "&"  -> "BIT_AND" [] k = "^" -> "BIT_XOR" [] k = "|" -> "BIT_OR"
UnaryOp(k) == CASE k = "neg" -> "NEG" [] k = "abs" -> "ABS" [] k = "~" -> "INV"

-----------------------------------------------------------------------------
Init == expr = None /\ inst = None /\ out = None

CompareForms == {"assign", "if", "else"}

WriteComparison ==
  /\ expr = None
  /\ \E f \in CompareForms, k \in CmpKinds, a, b \in Vals, i \in BOOLEAN :
       expr' = [form |-> f, kind |-> k, a |-> a, b |-> b, int_first |-> i]
  /\ UNCHANGED <<inst, out>>

WriteMove ==
  /\ expr = None
  /\ \E c \in Classes, a, b \in Vals :
       expr' = [form |-> "mov", kind |-> c, a |-> a, b |-> b, x |-> 1, y |-> 2]
  /\ UNCHANGED <<inst, out>>

WriteOperator ==
  /\ expr = None
  /\ \/ \E k \in BinOps, a, b \in Vals :
          expr' = [form |-> "binary", kind |-> k, a |-> a, b |-> b]
     \/ \E k \in {"neg", "abs", "~"}, a \in Vals :
          expr' = [form |-> "unary", kind |-> k, a |-> a]
  /\ UNCHANGED <<inst, out>>

\* An instruction class without an operator, used by its name.
NamedOps == {"L_SHIFT", "R_SHIFT_U", "DIV_U", "REM_U"} \cup LongOps
WriteInstruction ==
  /\ expr = None
  /\ \E k \in NamedOps, a, b \in Vals :
       expr' = [form |-> "named", kind |-> k, a |-> a, b |-> b]
  /\ UNCHANGED <<inst, out>>

Assembling == expr # None /\ inst = None /\ UNCHANGED <<expr, out>>

AssembleComparison ==
  /\ Assembling /\ expr.form \in CompareForms
  /\ LET c == Comparison(expr) IN
       inst' = CASE expr.form = "assign" -> Tst(IfClass[c.kind], c.a, c.b)
                 [] expr.form = "if"     -> Br(IfClass[c.kind], c.a, c.b)
                 [] expr.form = "else"   -> Br(ElseClass[c.kind], c.a, c.b)

AssembleMove ==
  /\ Assembling /\ expr.form = "mov"
  /\ inst' = Mov(expr.kind, expr.a, expr.b, expr.x, expr.y)

AssembleOperator ==
  /\ Assembling /\ expr.form \in {"binary", "unary", "named"}
  /\ inst' = CASE expr.form = "binary" -> Inst(BinaryOp(expr.kind), <<expr.a, expr.b>>)
               [] expr.form = "unary"  -> Inst(UnaryOp(expr.kind), <<expr.a>>)
               [] expr.form = "named"  -> Inst(expr.kind, <<expr.a, expr.b>>)

\* A conditional branch has no result: it is taken or not.  A long product has
\* two: v and high.
Run ==
  /\ inst # None /\ out = None
  /\ out' = IF inst.op \in BranchIfOps
            THEN [form |-> "branch", v |-> Truth(Holds(inst.op, inst.srcs))]
            ELSE LET e == AluError(inst.op, inst.srcs)
                     r == Results(inst.op, inst.srcs)
                 IN  IF e = "OK" THEN [form |-> "value", v |-> r[1], high |-> r[Len(r)]]
                     ELSE [form |-> "error", v |-> e]
  /\ UNCHANGED <<expr, inst>>

Ran == out # None /\ UNCHANGED vars

Next ==
  \/ WriteComparison \/ WriteMove \/ WriteOperator \/ WriteInstruction
  \/ AssembleComparison \/ AssembleMove \/ AssembleOperator
  \/ Run \/ Ran
Spec == Init /\ [][Next]_vars

-----------------------------------------------------------------------------
(* Properties: what each expression means, said without the tables above. *)

Done(forms) == out # None /\ expr.form \in forms

Relation(k, a, b) ==
  CASE k \in {"==", "Eq"} -> a = b   [] k \in {"!=", "Ne"} -> a # b
    [] k \in {"<", "Lt"}  -> a < b   [] k \in {"<=", "Le"} -> a <= b
    [] k \in {">", "Gt"}  -> a > b   [] k \in {">=", "Ge"} -> a >= b
    [] k = "LtU" -> Unsigned(a) < Unsigned(b) [] k = "LeU" -> Unsigned(a) <= Unsigned(b)
    [] k = "GtU" -> Unsigned(a) > Unsigned(b) [] k = "GeU" -> Unsigned(a) >= Unsigned(b)

\* A comparison stored in a register, and the branches when() and case() make
\* of it, all decide by the relation written, also with the int on the left:
\* the "else" branch is taken exactly when the comparison is false.
ComparisonsDecide ==
  Done(CompareForms) =>
    out.v = Truth(Relation(expr.kind, expr.a, expr.b) = (expr.form # "else"))

\* A conditional move takes its first value exactly when its relation holds,
\* for all ten of them made from five opcodes.
MovesChoose ==
  Done({"mov"}) =>
    out.v = IF Relation(expr.kind, expr.a, expr.b) THEN expr.x ELSE expr.y

Bits(v) == {k \in BitPlaces : Bit(v, k) = 1}

\* a / b and a % b are the truncating division: they fail exactly when b is 0
\* or the quotient does not fit a word, and a is b times the quotient plus the
\* remainder, which is smaller than b and has the sign of a.
DivisionTruncates ==
  Done({"binary"}) /\ expr.kind \in {"/", "//", "%"} =>
    LET a == expr.a  b == expr.b IN
    IF b = 0 THEN out.v = "ZERO_DIVISION"
    ELSE IF expr.kind = "%"
    THEN /\ (a - out.v) % Magnitude(b) = 0 /\ Magnitude(out.v) < Magnitude(b)
         /\ out.v = 0 \/ (out.v < 0 <=> a < 0)
    ELSE IF b = -1 /\ a = IntMin THEN out.v = "INTEGER_OVERFLOW"
    ELSE LET r == a - b * out.v
         IN  Magnitude(r) < Magnitude(b) /\ (r = 0 \/ (r < 0 <=> a < 0))

\* The other operators are Python's on integers, reduced to a word; shifting
\* right by any unsigned amount is the floor of the division by a power of 2.
OperatorsMean ==
  Done({"binary", "unary"}) =>
    LET a == expr.a IN
    CASE expr.kind = "+"   -> out.v = Wrap(a + expr.b)
      [] expr.kind = "-"   -> out.v = Wrap(a - expr.b)
      [] expr.kind = "*"   -> (out.v - a * expr.b) % Values(4) = 0
      [] expr.kind = "&"   -> Bits(out.v) = Bits(a) \cap Bits(expr.b)
      [] expr.kind = "|"   -> Bits(out.v) = Bits(a) \cup Bits(expr.b)
      [] expr.kind = "^"   -> Bits(out.v) = (Bits(a) \cup Bits(expr.b)) \ (Bits(a) \cap Bits(expr.b))
      [] expr.kind = ">>"  -> \A k \in BitPlaces :
                                k \in Bits(out.v) <=>
                                  IF k + Unsigned(expr.b) < WordBits
                                  THEN k + Unsigned(expr.b) \in Bits(a) ELSE a < 0
      [] expr.kind = "~"   -> Bits(out.v) = (BitPlaces) \ Bits(a)
      [] expr.kind = "neg" -> (out.v + a) % Values(4) = 0
      [] expr.kind = "abs" -> (out.v - Magnitude(a)) % Values(4) = 0
      [] OTHER -> TRUE

\* The instructions without an operator, on any words: shifting left past the
\* width leaves 0, unsigned division is Euclid's, and the two results of a long
\* multiplication are the whole product.
NamedInstructionsMean ==
  Done({"named"}) =>
    LET a == Unsigned(expr.a)  b == Unsigned(expr.b) IN
    CASE expr.kind = "L_SHIFT"   -> Bits(out.v) = {k + b : k \in Bits(a)} \cap BitPlaces
      [] expr.kind = "R_SHIFT_U" -> Bits(out.v) = {k - b : k \in Bits(a)} \cap BitPlaces
      [] expr.kind \in {"DIV_U", "REM_U"} /\ b = 0 -> out.v = "ZERO_DIVISION"
      [] expr.kind = "DIV_U" /\ b # 0 -> a - b * Unsigned(out.v) \in 0 .. b - 1
      [] expr.kind = "REM_U" /\ b # 0 ->
           Unsigned(out.v) < b /\ (a - Unsigned(out.v)) % b = 0
      [] expr.kind = "LONG_MUL" ->
           out.high * Values(4) + Unsigned(out.v) = expr.a * expr.b
      [] expr.kind = "LONG_MUL_U" ->
           Unsigned(out.high) * Values(4) + Unsigned(out.v) = a * b

\* The operator << moves the bits to the left.
LeftShiftShiftsLeft ==
  Done({"binary"}) /\ expr.kind = "<<" /\ expr.b \in BitPlaces =>
    out.v = Wrap(expr.a * 2 ^ expr.b)
=============================================================================
