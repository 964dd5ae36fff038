------------------------------- MODULE VmCode -------------------------------
(***************************************************************************)
(* What the interpreter and its specification share: instructions and      *)
(* operands as they lie in memory, the host's memory, the value of an      *)
(* operand and the effect of dispatch().                                   *)
(*                                                                         *)
(* An operand is a sequence of cells.  Every cell but the last is "ind":   *)
(* its word plus the value of the rest of the sequence is an address.  The *)
(* last cell is an immediate or a memory address.  A cell, an opcode or an *)
(* operand count is one varint of 1 to 5 bytes in the program and takes    *)
(* one address here.                                                       *)
(***************************************************************************)
EXTENDS Alu

CONSTANTS
  RamSize,      \* RAM is at addresses 0 .. RamSize - 1
  CodeBase,     \* address of the first instruction
  CodeByte,     \* the byte read as data from any code address
  MaxTgts, MaxSrcs,  \* MAX_TGTS, MAX_SRCS
  Funcs,        \* numbers of the host functions
  Programs,     \* the programs to run
  Rams,         \* the contents of RAM they may find
  HostWords     \* words a host call may leave in a result

ASSUME MapAssumption ==
  /\ RamSize \in Nat /\ CodeBase \in Addrs /\ RamSize <= CodeBase
  /\ CodeByte \in 0 .. Values(1) - 1
ASSUME LimitsAssumption == MaxTgts \in Nat /\ MaxSrcs \in Nat
ASSUME HostAssumption == Funcs \subseteq Words /\ HostWords \subseteq Words

-----------------------------------------------------------------------------
(* Instructions in memory.  A program is a sequence of instructions, the   *)
(* last "cut" cells of which are missing from the image.                   *)

Cell == [mode : {"imm"}, v : Words] \cup [mode : {"mem", "ind"}, v : Addrs]
IsOperand(c, last) ==
  /\ c # <<>> /\ \A k \in DOMAIN c : c[k] \in Cell
  /\ \A k \in DOMAIN c : c[k].mode = "ind" <=> k < Len(c)
  /\ c[Len(c)].mode \in last \/ Len(c) > 1
Instr ==
  [op : Ops \cup {"UNDEF"}, m : BOOLEAN, tgts : Seq(Seq(Cell)), srcs : Seq(Seq(Cell))]
WellFormed(x) ==
  /\ \A j \in DOMAIN x.tgts : IsOperand(x.tgts[j], {"mem"})
  /\ \A j \in DOMAIN x.srcs : IsOperand(x.srcs[j], {"mem", "imm"})
  /\ \/ x.op = "UNDEF"
     \/ /\ VarTgts(x.op) \/ Len(x.tgts) = Arity(x.op)[1]
        /\ VarSrcs(x.op) \/ Len(x.srcs) = Arity(x.op)[2]

\* With the m flag the first source is the first target and is not encoded.
EncodedSrcs(x) == IF x.m /\ x.srcs # <<>> THEN Tail(x.srcs) ELSE x.srcs
Cells(s, n) == SumTo([j \in DOMAIN s |-> Len(s[j])], n)
Count(var) == IF var THEN 1 ELSE 0
TgtCells(x) == 1 + Count(VarTgts(x.op)) + Cells(x.tgts, Len(x.tgts))
Size(x) ==
  TgtCells(x) + Count(VarSrcs(x.op)) + Cells(EncodedSrcs(x), Len(EncodedSrcs(x)))

StartOf(pr, k) == CodeBase + SumTo([j \in DOMAIN pr.insts |-> Size(pr.insts[j])], k - 1)
ASSUME ProgramsAssumption ==
  \A pr \in Programs :
    /\ pr \in [insts : Seq(Instr), cut : Nat]
    /\ \A k \in DOMAIN pr.insts : WellFormed(pr.insts[k])
    /\ StartOf(pr, Len(pr.insts) + 1) <= Values(4)   \* it fits the address space
ASSUME RamsAssumption == Rams \subseteq [0 .. RamSize - 1 -> 0 .. Values(1) - 1]

CodeEnd(pr)    == StartOf(pr, Len(pr.insts) + 1) - pr.cut
Present(pr, a) == CodeBase <= a /\ a < CodeEnd(pr)
At(pr, a)      == {k \in DOMAIN pr.insts : StartOf(pr, k) = a /\ Present(pr, a)}
Unmapped(pr, a) == a >= RamSize /\ ~Present(pr, a)

-----------------------------------------------------------------------------
(* The read and write callbacks of the host.                               *)

InRam(a, size)      == a + size <= RamSize
InCode(pr, a, size) == Present(pr, a) /\ Present(pr, a + size - 1)
Readable(pr, a, size) == InRam(a, size) \/ InCode(pr, a, size)
HostRead(pr, ram, a, size) ==
  IF InRam(a, size) THEN Load(ram, a, size)
  ELSE IF InCode(pr, a, size) THEN Load([b \in Addrs |-> CodeByte], a, size)
  ELSE 0

-----------------------------------------------------------------------------
(* Operands.  A value comes with the set of errors me->err may be left     *)
(* with, {} when nothing failed.  Decoding goes on after a failed read.    *)

ReadAt(pr, ram, a, size) ==
  IF Readable(pr, a.v, size)
  THEN [v |-> HostRead(pr, ram, a.v, size), faults |-> a.faults]
  ELSE [v |-> 0, faults |-> {"BAD_ADDR"}]

\* C does not order the read of the base and the rest of the operand, so
\* either may be the one to set me->err last.
Indirect(pr, ram, base, rest) ==
  LET b == ReadAt(pr, ram, [v |-> base, faults |-> {}], 4)
  IN  [v |-> Unsigned(b.v + rest.v), faults |-> b.faults \cup rest.faults]

\* A missing head reads as 0: __builtin_ctz(0) is undefined, so the varint is
\* found too long or just 0.
MissingCell == [v |-> 0, faults |-> {"BAD_VARINT", "BAD_ADDR"}]

\* read_src() of a cell at address at, where rest is what follows it.
CellValue(pr, ram, cell, at, size, rest) ==
  IF ~Present(pr, at) THEN MissingCell
  ELSE LET v == cell.v
       IN  CASE cell.mode = "imm" ->
                  [v |-> IF size < 4 THEN ZeroExtend(v, size) ELSE v, faults |-> {}]
             [] cell.mode = "mem" -> ReadAt(pr, ram, [v |-> v, faults |-> {}], size)
             [] OTHER -> ReadAt(pr, ram, Indirect(pr, ram, v, rest), size)

\* read_src() of the rest of operand c from its k-th cell; c is at address at.
Rest(pr, ram, c, at, size) ==
  LET R[k \in DOMAIN c] ==
        CellValue(pr, ram, c[k], at + k - 1, IF k = 1 THEN size ELSE 4, R[k + 1])
  IN  R

\* read_src() and read_dst() of a whole operand.
SrcValue(pr, ram, c, at, size) == Rest(pr, ram, c, at, size)[1]
TgtAddr(pr, ram, c, at) ==
  IF ~Present(pr, at) THEN MissingCell
  ELSE IF c[1].mode = "mem" THEN [v |-> c[1].v, faults |-> {}]
  ELSE Indirect(pr, ram, c[1].v, Rest(pr, ram, c, at, 4)[2])

-----------------------------------------------------------------------------
(* dispatch(): the possible outcomes of operation op with nt targets and   *)
(* sources s, when the program counter is past the instruction.            *)

Outcome_Unwrapped(err, results, pc) == [err |-> err, results |-> results, pc |-> pc]
Outcome(err, results, pc) == [err |-> err, results |-> results, pc |-> Unsigned(pc)]

\* A host function may leave a result unset: it is then whatever the stack
\* holds, so the words of HostWords stand for garbage too.
Call(s, nt, pc) ==
  IF s = <<>> THEN {Outcome("BAD_OPERAND", <<>>, pc)}
  ELSE IF s[1] \in Funcs THEN {Outcome("OK", r, pc) : r \in [1 .. nt -> HostWords]}
  ELSE {Outcome("UNKNOWN_FUNC", <<>>, pc)}

\* dispatch() reports these with pc past the instruction: the host can go on.
Resumable == {"EXIT", "UNKNOWN_FUNC", "ZERO_DIVISION", "INTEGER_OVERFLOW"}

Dispatch(op, s, nt, pc) ==
  CASE op \in ComputeOps ->
         {LET e == AluError(op, s)
          IN  Outcome(e, IF e = "OK" THEN Results(op, s) ELSE <<>>, pc)}
    [] op \in BranchIfOps -> {Outcome("OK", <<>>, IF Holds(op, s) THEN pc + s[3] ELSE pc)}
    [] op = "BR"      -> {Outcome("OK", <<>>, pc + s[1])}
    [] op = "BR_LNK"  -> {Outcome("OK", <<Wrap(pc)>>, pc + s[1])}
    [] op = "JMP"     -> {Outcome("OK", <<>>, s[1])}
    [] op = "JMP_LNK" -> {Outcome("OK", <<Wrap(pc)>>, s[1])}
    [] op \in SysOps  -> Call(s, nt, pc)
    [] op = "EXIT"    -> {Outcome("EXIT", <<>>, pc)}
    [] op = "NOP"     -> {Outcome("OK", <<>>, pc)}
=============================================================================
