-------------------------------- MODULE Isa --------------------------------
(***************************************************************************)
(* The assembler's side of the instruction set: the instruction classes of *)
(* core.py with the arguments their constructors take, their opcode        *)
(* numbers, and the C header the build script makes of these.  OpSpec is   *)
(* the interpreter's side, a table kept by hand in another language.       *)
(*                                                                         *)
(* A class goes by the name that header gives it: "DivU" is "DIV_U".  The  *)
(* order in which a constructor takes its arguments is left out: all take  *)
(* targets before sources, but for the Sys classes, where func is first.   *)
(***************************************************************************)
EXTENDS Integers, Sequences, FiniteSets

\* Targets and sources of a constructor; "more" if any number of further ones
\* may follow, which is when the encoding has their number.
Sig(t, s) == [tgts |-> t, srcs |-> s, more_tgts |-> FALSE, more_srcs |-> FALSE]
TA       == Sig(1, 1)
TAB      == Sig(1, 2)
TVarSrc  == [Sig(1, 1) EXCEPT !.more_srcs = TRUE]
BranchIf == Sig(0, 3)
MoveIf   == Sig(1, 4)

ArithmeticClasses == {"ADD", "SUB", "MUL", "DIV", "DIV_U", "REM", "REM_U"}
LogicClasses      == {"AND", "OR"}
BitClasses        == {"BIT_AND", "BIT_OR", "BIT_XOR"}
InvClass          == {"INV"}
ShiftClasses      == {"L_SHIFT", "R_SHIFT", "R_SHIFT_U"}
TestClasses       == {"TST_EQ", "TST_NE", "TST_GT", "TST_GE", "TST_GT_U", "TST_GE_U"}
JumpSigs  == [JMP |-> Sig(0, 1), JMP_LNK |-> Sig(1, 1), BR |-> Sig(0, 1), BR_LNK |-> Sig(1, 1)]
BranchIfClasses   == {"BR_EQ", "BR_NE", "BR_GT", "BR_GE", "BR_GT_U", "BR_GE_U"}
MoveIfClasses     == {"MOV_EQ", "MOV_GT", "MOV_GE", "MOV_GT_U", "MOV_GE_U"}
LoadStoreClasses  == {"LD_B", "LD_H", "LD_B_U", "LD_H_U", "ST_B", "ST_H"}
SysSig  == [tgts |-> 0, srcs |-> 1, more_tgts |-> TRUE, more_srcs |-> TRUE]
ExitSig == Sig(0, 1)
NopSig  == Sig(0, 0)
SysNoResult == [SYS00 |-> Sig(0, 1), SYS01 |-> Sig(0, 2), SYS02 |-> Sig(0, 3),
                SYS03 |-> Sig(0, 4), SYS04 |-> Sig(0, 5)]
SysOneResult == [SYS10 |-> Sig(1, 1), SYS11 |-> Sig(1, 2), SYS12 |-> Sig(1, 3),
                 SYS13 |-> Sig(1, 4), SYS14 |-> Sig(1, 5)]
SysTwoResults == [SYS20 |-> Sig(2, 1), SYS21 |-> Sig(2, 2), SYS22 |-> Sig(2, 3),
                  SYS23 |-> Sig(2, 4), SYS24 |-> Sig(2, 5)]
UnaryClasses    == {"MOV", "NEG", "ABS"}
Logic2Classes   == {"AND2", "OR2"}
ExtremumClasses == {"MAX", "MIN"}
TruthClasses    == {"NOT", "BOOL"}
LongMulClasses  == {"LONG_MUL", "LONG_MUL_U"}

TAClasses  == InvClass \cup LoadStoreClasses \cup UnaryClasses \cup TruthClasses
TABClasses == ArithmeticClasses \cup BitClasses \cup ShiftClasses \cup TestClasses
                \cup Logic2Classes
TVarSrcClasses == LogicClasses \cup ExtremumClasses

\* The numbers 0, 1, 2, ... are assigned in this order.
Numbered ==
  <<"NOP", "ADD", "SUB", "MUL", "DIV", "DIV_U", "REM", "REM_U", "AND", "OR", "BIT_AND",
    "BIT_OR", "BIT_XOR", "INV", "L_SHIFT", "R_SHIFT", "R_SHIFT_U", "TST_EQ", "TST_NE",
    "TST_GT", "TST_GE", "TST_GT_U", "TST_GE_U", "JMP", "JMP_LNK", "BR", "BR_LNK",
    "BR_EQ", "BR_NE", "BR_GT", "BR_GE", "BR_GT_U", "BR_GE_U", "MOV_EQ", "MOV_GT",
    "MOV_GE", "MOV_GT_U", "MOV_GE_U", "LD_B", "LD_H", "LD_B_U", "LD_H_U", "ST_B",
    "ST_H", "SYS", "EXIT", "SYS00", "SYS01", "SYS02", "SYS03", "SYS04", "SYS10",
    "SYS11", "SYS12", "SYS13", "SYS14", "SYS20", "SYS21", "SYS22", "SYS23", "SYS24",
    "MOV", "NEG", "ABS", "AND2", "OR2", "MAX", "MIN", "NOT", "BOOL", "LONG_MUL",
    "LONG_MUL_U">>
Classes == {Numbered[k] : k \in DOMAIN Numbered}

Signature ==
  [c \in Classes |->
     CASE c \in TAClasses       -> TA
       [] c \in TABClasses      -> TAB
       [] c \in TVarSrcClasses  -> TVarSrc
       [] c \in BranchIfClasses -> BranchIf
       [] c \in MoveIfClasses   -> MoveIf
       [] c \in LongMulClasses  -> Sig(2, 2)
       [] c \in DOMAIN JumpSigs -> JumpSigs[c]
       [] c \in DOMAIN SysNoResult   -> SysNoResult[c]
       [] c \in DOMAIN SysOneResult  -> SysOneResult[c]
       [] c \in DOMAIN SysTwoResults -> SysTwoResults[c]
       [] c = "SYS"  -> SysSig
       [] c = "EXIT" -> ExitSig
       [] c = "NOP"  -> NopSig]

\* Python raises TypeError unless the arguments fit the constructor.
Accepts(c, ntgts, nsrcs) ==
  LET s == Signature[c]
  IN  /\ IF s.more_tgts THEN ntgts >= s.tgts ELSE ntgts = s.tgts
      /\ IF s.more_srcs THEN nsrcs >= s.srcs ELSE nsrcs = s.srcs

Opcode == [c \in Classes |-> (CHOOSE k \in DOMAIN Numbered : Numbered[k] = c) - 1]

\* create_h(): the enumeration of the C program, and its largest number.
ClassOf    == [n \in {Opcode[c] : c \in Classes} |-> CHOOSE c \in Classes : Opcode[c] = n]
MAX_OPCODE == CHOOSE n \in DOMAIN ClassOf : \A k \in DOMAIN ClassOf : k <= n
=============================================================================
