-------------------------------- MODULE OpSpec ------------------------------
(***************************************************************************)
(* The interpreter's table opspecs: its operations, how many targets and   *)
(* sources each has, and the access size of their operands.                *)
(***************************************************************************)
EXTENDS Naturals

TestOps  == {"TST_EQ", "TST_NE", "TST_GT", "TST_GE", "TST_GT_U", "TST_GE_U"}
BranchIfOps == {"BR_EQ", "BR_NE", "BR_GT", "BR_GE", "BR_GT_U", "BR_GE_U"}
MoveIfOps == {"MOV_EQ", "MOV_GT", "MOV_GE", "MOV_GT_U", "MOV_GE_U"}
DivOps   == {"DIV", "DIV_U", "REM", "REM_U"}
VarSrcOps == {"AND", "OR", "MAX", "MIN"}
UnaryOps == {"NEG", "ABS", "INV", "NOT", "BOOL", "MOV"}
LoadOps  == {"LD_B", "LD_H", "LD_B_U", "LD_H_U"}
StoreOps == {"ST_B", "ST_H"}
BinaryOps ==
  {"ADD", "SUB", "MUL", "AND2", "OR2", "BIT_AND", "BIT_OR", "BIT_XOR",
   "L_SHIFT", "R_SHIFT", "R_SHIFT_U"} \cup DivOps \cup TestOps
LongOps  == {"LONG_MUL", "LONG_MUL_U"}
ComputeOps ==
  UnaryOps \cup LoadOps \cup StoreOps \cup BinaryOps \cup LongOps \cup MoveIfOps
    \cup VarSrcOps

SysArity ==
  [SYS00 |-> <<0, 1>>, SYS01 |-> <<0, 2>>, SYS02 |-> <<0, 3>>, SYS03 |-> <<0, 4>>,
   SYS04 |-> <<0, 5>>, SYS10 |-> <<1, 1>>, SYS11 |-> <<1, 2>>, SYS12 |-> <<1, 3>>,
   SYS13 |-> <<1, 4>>, SYS14 |-> <<1, 5>>, SYS20 |-> <<2, 1>>, SYS21 |-> <<2, 2>>,
   SYS22 |-> <<2, 3>>, SYS23 |-> <<2, 4>>, SYS24 |-> <<2, 5>>]
SysOps  == DOMAIN SysArity \cup {"SYS"}
JumpOps == {"BR", "JMP"}
LinkOps == {"BR_LNK", "JMP_LNK"}
Ops == ComputeOps \cup SysOps \cup JumpOps \cup LinkOps \cup BranchIfOps \cup {"EXIT", "NOP"}

VarTgts(op) == op = "SYS"
VarSrcs(op) == op \in VarSrcOps \cup {"SYS"}
Arity(op) ==
  CASE op \in DOMAIN SysArity -> SysArity[op]
    [] op \in UnaryOps \cup LoadOps \cup StoreOps \cup LinkOps -> <<1, 1>>
    [] op \in BinaryOps   -> <<1, 2>>
    [] op \in LongOps     -> <<2, 2>>
    [] op \in MoveIfOps   -> <<1, 4>>
    [] op \in BranchIfOps -> <<0, 3>>
    [] op \in JumpOps \cup {"EXIT"} -> <<0, 1>>
    [] op \in VarSrcOps   -> <<1, 0>>
    [] op = "NOP"         -> <<0, 0>>
TgtSize(op) == IF op = "ST_B" THEN 1 ELSE IF op = "ST_H" THEN 2 ELSE 4
SrcSize(op) ==
  IF op \in {"LD_B", "LD_B_U"} THEN 1 ELSE IF op \in {"LD_H", "LD_H_U"} THEN 2 ELSE 4
=============================================================================
