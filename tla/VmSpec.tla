------------------------------- MODULE VmSpec -------------------------------
(***************************************************************************)
(* What the interpreter promises: one instruction is one step.  All of its *)
(* operands are evaluated in the memory it finds, the first source like    *)
(* any other; a failed evaluation or operation stops the machine with its  *)
(* error and changes nothing; otherwise the results are stored, a later    *)
(* target over an earlier one, and the next instruction is the one that    *)
(* follows in memory or the one the branch chooses.                        *)
(***************************************************************************)
EXTENDS VmCode

VARIABLES
  prog,      \* the program
  ram,       \* the bytes of RAM
  pc,        \* address of the next instruction
  rc,        \* "OK", or why the machine stopped
  exit_rc    \* the EXIT instruction's argument

vars == <<prog, ram, pc, rc, exit_rc>>

\* Where the operands of instruction k start: an optimized first source IS
\* the first target.
TgtAt(k, j) ==
  LET x == prog.insts[k] IN StartOf(prog, k) + 1 + Count(VarTgts(x.op)) + Cells(x.tgts, j - 1)
SrcAt(k, j) ==
  LET x == prog.insts[k]
      skipped == IF x.m THEN Len(x.srcs[1]) ELSE 0
  IN  IF x.m /\ j = 1 THEN TgtAt(k, 1)
      ELSE StartOf(prog, k) + TgtCells(x) + Count(VarSrcs(x.op))
             + Cells(x.srcs, j - 1) - skipped

Tgt(k, j) == TgtAddr(prog, ram, prog.insts[k].tgts[j], TgtAt(k, j))
Src(k, j) ==
  SrcValue(prog, ram, prog.insts[k].srcs[j], SrcAt(k, j), SrcSize(prog.insts[k].op))

CountFaults(var, n, max, a) ==
  IF ~var THEN {}
  ELSE IF ~Present(prog, a) THEN MissingCell.faults
  ELSE IF n > max THEN {"BAD_OPERAND"} ELSE {}

\* Every reason for which instruction k cannot even start.
Faults(k) ==
  LET x == prog.insts[k] IN
    CountFaults(VarTgts(x.op), Len(x.tgts), MaxTgts, StartOf(prog, k) + 1)
    \cup CountFaults(VarSrcs(x.op), Len(x.srcs), MaxSrcs, StartOf(prog, k) + TgtCells(x))
    \cup (UNION {Tgt(k, j).faults : j \in DOMAIN x.tgts})
    \cup (UNION {Src(k, j).faults : j \in DOMAIN x.srcs})

\* The memory after the first n results are stored, a later target over an
\* earlier one; a target that is not in RAM is skipped.
Stored(k, results, n) ==
  LET size == TgtSize(prog.insts[k].op)
      Writers(b) ==
        {j \in 1 .. n : InRam(Tgt(k, j).v, size) /\ b \in Span(Tgt(k, j).v, size)}
      Last(b) == Max(Writers(b))
  IN  [b \in DOMAIN ram |->
         IF Writers(b) = {} THEN ram[b]
         ELSE Store(ram, Tgt(k, Last(b)).v, results[Last(b)], size)[b]]
AllStored(k) ==
  \A j \in DOMAIN prog.insts[k].tgts : InRam(Tgt(k, j).v, TgtSize(prog.insts[k].op))

Init ==
  /\ prog \in Programs /\ ram \in Rams
  /\ pc = CodeBase /\ rc = "OK" /\ exit_rc = 0

Stop(e) == rc' = e /\ UNCHANGED <<prog, ram, pc, exit_rc>>

RunOff == rc = "OK" /\ Unmapped(prog, pc) /\ Stop("BAD_ADDR")

Refuse ==
  /\ rc = "OK"
  /\ \E k \in At(prog, pc) :
       \/ prog.insts[k].op = "UNDEF" /\ Stop("UNKNOWN_OPCODE")
       \/ prog.insts[k].op # "UNDEF" /\ \E e \in Faults(k) : Stop(e)

Execute ==
  /\ rc = "OK"
  /\ \E k \in At(prog, pc) :
       LET x == prog.insts[k]
           n == Len(x.tgts)
           s == [j \in DOMAIN x.srcs |-> Src(k, j).v]
       IN  /\ x.op # "UNDEF" /\ Faults(k) = {}
           /\ \E o \in Dispatch(x.op, s, n, StartOf(prog, k) + Size(x)) :
                /\ IF o.err = "OK"
                   THEN /\ ram' = Stored(k, o.results, n)
                        /\ rc' = (IF AllStored(k) THEN "OK" ELSE "BAD_ADDR")
                   ELSE ram' = ram /\ rc' = o.err
                /\ exit_rc' = (IF o.err = "EXIT" THEN s[1] ELSE exit_rc)
                /\ pc' = (IF rc' \in {"OK"} \cup Resumable THEN o.pc ELSE pc)
  /\ UNCHANGED prog

\* The host may run on after an error that leaves pc at an instruction.
Resume == rc \in Resumable /\ rc' = "OK" /\ UNCHANGED <<prog, ram, pc, exit_rc>>

Next == RunOff \/ Refuse \/ Execute \/ Resume
Spec == Init /\ [][Next]_vars
=============================================================================
