--------------------------------- MODULE Vm ---------------------------------
(***************************************************************************)
(* The C interpreter: bajo_run() over bajo_step(), an operand at a time,   *)
(* with the host of tests/vm.py behind the callbacks.  bajo_step() does    *)
(* not stop at the first failed read: it goes on decoding and looks at     *)
(* me->err twice, before and after dispatch().  The stores come last.      *)
(*                                                                         *)
(* A definition named X_Y is X with one plausible mistake Y: no action     *)
(* uses it, it shows that a property notices the mistake.                  *)
(***************************************************************************)
EXTENDS VmCode

VARIABLES
  prog,          \* the program in code memory
  ram,           \* the host's RAM
  pc, err, exit_rc,   \* the fields of bajo_t
  st,            \* where bajo_step() is
  inst,          \* the decoded opcode with its operands
  ntgts, nsrcs,  \* how many operands to read
  tgts, srcs,    \* addresses and values read so far
  results,       \* what dispatch() left for the targets
  w,             \* stores done
  rc,            \* what bajo_step() returned last
  faulted,       \* a callback reported an error during this step
  ram0, pc0, exit0   \* ram, pc and exit_rc when this step began

fixedVars  == <<prog, ram0, pc0, exit0>>
decodeVars == <<inst, ntgts, nsrcs>>
dataVars   == <<tgts, srcs, results, w>>
hostVars   == <<ram, exit_rc>>
vars == <<fixedVars, decodeVars, dataVars, hostVars, pc, err, st, rc, faulted>>

NopInst == [op |-> "NOP", m |-> FALSE, tgts |-> <<>>, srcs |-> <<>>]

Init ==
  /\ prog \in Programs /\ ram \in Rams
  /\ pc = CodeBase /\ err = "OK" /\ exit_rc = 0
  /\ st = "fetch" /\ inst = NopInst /\ ntgts = 0 /\ nsrcs = 0
  /\ tgts = <<>> /\ srcs = <<>> /\ results = <<>> /\ w = 0
  /\ rc = "OK" /\ faulted = FALSE
  /\ ram0 = ram /\ pc0 = pc /\ exit0 = exit_rc

Advance(n) == pc' = Unsigned(pc + n)

Return(e) ==
  /\ st' = "returned" /\ rc' = e

\* The error of the latest access only.
Note_Cleared(r) ==
  /\ faulted' = (faulted \/ r.faults # {})
  /\ IF r.faults = {} THEN err' = "OK" ELSE err' \in r.faults

\* me->err after an access that may have failed; it is never cleared here.
Note(r) ==
  /\ faulted' = (faulted \/ r.faults # {})
  /\ IF r.faults = {} THEN err' = err ELSE err' \in r.faults

-----------------------------------------------------------------------------
(* The opcode. *)

Fetch ==
  /\ st = "fetch"
  /\ Advance(1)
  /\ tgts' = <<>> /\ srcs' = <<>> /\ results' = <<>> /\ w' = 0
  /\ UNCHANGED <<fixedVars, hostVars>>

\* The opcode reads as 0, which is NOP: the error shows after the decoding.
FetchUnmapped ==
  /\ Fetch /\ Unmapped(prog, pc)
  /\ err' = "BAD_ADDR" /\ faulted' = TRUE
  /\ inst' = NopInst /\ ntgts' = 0 /\ nsrcs' = 0
  /\ st' = "tgts" /\ UNCHANGED rc

FetchUndefined ==
  /\ Fetch
  /\ \E k \in At(prog, pc) : prog.insts[k].op = "UNDEF"
  /\ err' = "UNKNOWN_OPCODE" /\ faulted' = FALSE
  /\ UNCHANGED decodeVars
  /\ Return(err')

FetchInst ==
  /\ Fetch
  /\ err' = "OK" /\ faulted' = FALSE
  /\ \E k \in At(prog, pc) : inst' = prog.insts[k]
  /\ inst'.op # "UNDEF"
  /\ ntgts' = Len(inst'.tgts) /\ nsrcs' = Len(inst'.srcs)
  /\ st' = (IF VarTgts(inst'.op) THEN "ntgts" ELSE "tgts")
  /\ UNCHANGED rc

-----------------------------------------------------------------------------
(* Operand counts of a variadic operation, and the targets.                *)

Decoding == UNCHANGED <<fixedVars, hostVars, inst, results, w>>

\* The count of the n operands that follow, if it can be read.
CountRead(n) ==
  IF Present(prog, pc) THEN [v |-> n, faults |-> {}] ELSE MissingCell

CountTgts_Unbounded ==
  /\ st = "ntgts" /\ Decoding /\ Advance(1)
  /\ LET c == CountRead(ntgts) IN ntgts' = c.v /\ Note(c)
  /\ st' = "tgts" /\ UNCHANGED <<nsrcs, tgts, srcs, rc>>

CountTgts ==
  /\ st = "ntgts" /\ Decoding /\ Advance(1)
  /\ LET c == CountRead(ntgts) IN
       /\ ntgts' = c.v
       /\ IF c.v > MaxTgts
          THEN err' = "BAD_OPERAND" /\ Return(err') /\ UNCHANGED faulted
          ELSE Note(c) /\ st' = "tgts" /\ UNCHANGED rc
  /\ UNCHANGED <<nsrcs, tgts, srcs>>

ReadTgt ==
  /\ st = "tgts" /\ Len(tgts) < ntgts
  /\ Decoding
  /\ LET c == inst.tgts[Len(tgts) + 1]
         r == TgtAddr(prog, ram, c, pc)
     IN  /\ tgts' = Append(tgts, r.v) /\ Note(r) /\ Advance(Len(c))
  /\ UNCHANGED <<ntgts, nsrcs, srcs, st, rc>>

TgtsRead ==
  /\ st = "tgts" /\ Len(tgts) = ntgts
  /\ Decoding
  /\ st' = (IF VarSrcs(inst.op) THEN "nsrcs" ELSE "rmw")
  /\ UNCHANGED <<ntgts, nsrcs, tgts, srcs, pc, err, rc, faulted>>

CountSrcs ==
  /\ st = "nsrcs" /\ Decoding /\ Advance(1)
  /\ LET c == CountRead(nsrcs) IN
       /\ nsrcs' = c.v
       /\ IF c.v > MaxSrcs
          THEN err' = "BAD_OPERAND" /\ Return(err') /\ UNCHANGED faulted
          ELSE Note(c) /\ st' = "rmw" /\ UNCHANGED rc
  /\ UNCHANGED <<ntgts, tgts, srcs>>

-----------------------------------------------------------------------------
(* The m flag: the first source is read from the first target.             *)

NoRmw ==
  /\ st = "rmw" /\ ~inst.m
  /\ Decoding /\ st' = "srcs"
  /\ UNCHANGED <<ntgts, nsrcs, tgts, srcs, pc, err, rc, faulted>>

Rmw_WordSize ==
  /\ st = "rmw" /\ inst.m /\ ntgts > 0 /\ nsrcs > 0
  /\ Decoding /\ st' = "srcs"
  /\ LET r == ReadAt(prog, ram, [v |-> tgts[1], faults |-> {}], 4)
     IN  srcs' = <<r.v>> /\ Note(r)
  /\ UNCHANGED <<ntgts, nsrcs, tgts, pc, rc>>

Rmw ==
  /\ st = "rmw" /\ inst.m /\ ntgts > 0 /\ nsrcs > 0
  /\ Decoding /\ st' = "srcs"
  /\ LET r == ReadAt(prog, ram, [v |-> tgts[1], faults |-> {}], SrcSize(inst.op))
     IN  srcs' = <<r.v>> /\ Note(r)
  /\ UNCHANGED <<ntgts, nsrcs, tgts, pc, rc>>

\* return (me->err == BAJO_BAD_OPERAND): 0, since err was not set to it, and
\* it would be 1, which is BAJO_EXIT, if it had been.
RmwWithoutOperand ==
  /\ st = "rmw" /\ inst.m /\ (ntgts = 0 \/ nsrcs = 0)
  /\ Return(IF err = "BAD_OPERAND" THEN "EXIT" ELSE "OK")
  /\ Decoding
  /\ UNCHANGED <<ntgts, nsrcs, tgts, srcs, pc, err, faulted>>

ReadSrc ==
  /\ st = "srcs" /\ Len(srcs) < nsrcs
  /\ Decoding
  /\ LET c == inst.srcs[Len(srcs) + 1]
         r == SrcValue(prog, ram, c, pc, SrcSize(inst.op))
     IN  /\ srcs' = Append(srcs, r.v) /\ Note(r) /\ Advance(Len(c))
  /\ UNCHANGED <<ntgts, nsrcs, tgts, st, rc>>

-----------------------------------------------------------------------------
(* Two looks at me->err, dispatch(), the stores, and the loop of           *)
(* bajo_run().                                                             *)

SrcsRead_Unchecked ==
  /\ st = "srcs" /\ Len(srcs) = nsrcs
  /\ st' = "dispatch" /\ rc' = rc
  /\ Decoding
  /\ UNCHANGED <<ntgts, nsrcs, tgts, srcs, pc, err, faulted>>

SrcsRead ==
  /\ st = "srcs" /\ Len(srcs) = nsrcs
  /\ IF err # "OK" THEN Return(err) ELSE st' = "dispatch" /\ rc' = rc
  /\ Decoding
  /\ UNCHANGED <<ntgts, nsrcs, tgts, srcs, pc, err, faulted>>

Dispatched(o) ==
  /\ err' = (IF o.err = "OK" THEN err ELSE o.err)
  /\ pc' = o.pc
  /\ exit_rc' = (IF o.err = "EXIT" THEN srcs[1] ELSE exit_rc)
  /\ faulted' = (faulted \/ o.err = "UNKNOWN_FUNC")
  /\ UNCHANGED <<fixedVars, decodeVars, ram, tgts, srcs, w>>

\* The results were never set when dispatch() failed.
Execute_Unchecked ==
  /\ st = "dispatch"
  /\ \E o \in Dispatch(inst.op, srcs, ntgts, pc) :
       /\ Dispatched(o)
       /\ results' = (IF o.err = "OK" THEN o.results ELSE [j \in 1 .. ntgts |-> 0])
       /\ st' = "write" /\ rc' = rc

Execute ==
  /\ st = "dispatch"
  /\ \E o \in Dispatch(inst.op, srcs, ntgts, pc) :
       /\ Dispatched(o)
       /\ results' = o.results
       /\ IF err' # "OK" THEN Return(err') ELSE st' = "write" /\ rc' = rc

\* The store loop goes on after a store the host refuses.
Store1 ==
  LET a == tgts[w + 1]
      size == TgtSize(inst.op)
  IN  IF InRam(a, size)
      THEN ram' = Store(ram, a, results[w + 1], size) /\ UNCHANGED <<err, faulted>>
      ELSE err' = "BAD_ADDR" /\ faulted' = TRUE /\ UNCHANGED ram

Write_Retried ==
  /\ st = "write" /\ w < ntgts
  /\ Store1
  /\ w' = (IF err' = "OK" THEN w + 1 ELSE w)
  /\ UNCHANGED <<fixedVars, decodeVars, tgts, srcs, results, exit_rc, pc, st, rc>>

Write ==
  /\ st = "write" /\ w < ntgts
  /\ Store1
  /\ w' = w + 1
  /\ UNCHANGED <<fixedVars, decodeVars, tgts, srcs, results, exit_rc, pc, st, rc>>

Written ==
  /\ st = "write" /\ w = ntgts
  /\ Return(err)
  /\ UNCHANGED <<fixedVars, decodeVars, dataVars, hostVars, pc, err, faulted>>

NextStep ==
  /\ st = "returned" /\ rc = "OK"
  /\ st' = "fetch"
  /\ ram0' = ram /\ pc0' = pc /\ exit0' = exit_rc
  /\ UNCHANGED <<prog, decodeVars, dataVars, hostVars, pc, err, rc, faulted>>

RunReturns ==
  /\ st = "returned" /\ rc # "OK"
  /\ st' = "stopped"
  /\ ram0' = ram /\ pc0' = (IF rc \in Resumable THEN pc ELSE pc0) /\ exit0' = exit_rc
  /\ UNCHANGED <<prog, decodeVars, dataVars, hostVars, pc, err, rc, faulted>>

\* The host calls bajo_run() again; me->err is still set.
Rerun ==
  /\ st = "stopped" /\ rc \in Resumable
  /\ st' = "fetch" /\ rc' = "OK"
  /\ UNCHANGED <<fixedVars, decodeVars, dataVars, hostVars, pc, err, faulted>>

Stopped == st = "stopped" /\ UNCHANGED vars

Next ==
  \/ FetchUnmapped \/ FetchUndefined \/ FetchInst
  \/ CountTgts \/ ReadTgt \/ TgtsRead \/ CountSrcs
  \/ NoRmw \/ Rmw \/ RmwWithoutOperand \/ ReadSrc
  \/ SrcsRead \/ Execute \/ Write \/ Written \/ NextStep \/ RunReturns
  \/ Rerun \/ Stopped

Spec == Init /\ [][Next]_vars
\* bajo_step() is sequential code: a step that began goes on.
FairSpec == Spec /\ WF_vars(Next /\ st # "stopped")

-----------------------------------------------------------------------------
(* Properties. *)

Places == {"fetch", "ntgts", "tgts", "nsrcs", "rmw", "srcs", "dispatch", "write",
           "returned", "stopped"}
Errors == {"OK", "EXIT", "BAD_VARINT", "UNKNOWN_OPCODE", "BAD_OPERAND",
           "ZERO_DIVISION", "INTEGER_OVERFLOW", "BAD_ADDR", "UNKNOWN_FUNC"}

\* Words and addresses stay 32 bits wide, pc too; every target has a result
\* when the stores begin.
TypeOK ==
  /\ ram \in [0 .. RamSize - 1 -> 0 .. Values(1) - 1] /\ ram0 \in [DOMAIN ram -> 0 .. Values(1) - 1]
  /\ pc \in Addrs /\ pc0 \in Addrs /\ exit_rc \in Words /\ exit0 \in Words
  /\ st \in Places /\ err \in Errors /\ rc \in Errors /\ faulted \in BOOLEAN
  /\ ntgts \in Nat /\ nsrcs \in Nat /\ w \in 0 .. ntgts
  /\ \A j \in DOMAIN tgts : tgts[j] \in Addrs
  /\ \A j \in DOMAIN srcs : srcs[j] \in Words
  /\ \A j \in DOMAIN results : results[j] \in Words
  /\ st = "write" => Len(results) = ntgts

\* The arrays tgts and srcs of bajo_step() hold what is read into them, also
\* when the code says how many operands there are.
BuffersHold ==
  /\ Len(tgts) <= ntgts /\ Len(srcs) <= nsrcs
  /\ VarTgts(inst.op) => Len(tgts) <= MaxTgts
  /\ VarSrcs(inst.op) => Len(srcs) <= MaxSrcs

\* A step that fails, in whichever read, count or operation, leaves the RAM as
\* it was; only when a store itself is refused may the others have been made.
FailedStepWritesNothing ==
  st = "returned" /\ rc # "OK" /\ ram # ram0 =>
    /\ rc = "BAD_ADDR" /\ w = ntgts
    /\ \E j \in 1 .. ntgts : ~InRam(tgts[j], TgtSize(inst.op))

\* The assembler sets the m flag of an instruction that has a target equal to
\* its first source.  The image must not end before its operand counts.
Assembled(pr) ==
  \A k \in DOMAIN pr.insts :
    LET x == pr.insts[k]
        a == StartOf(pr, k)
    IN  x.m /\ x.op \notin {"NOP", "UNDEF"} =>
          /\ x.tgts # <<>> /\ x.srcs # <<>> /\ x.srcs[1] = x.tgts[1]
          /\ VarTgts(x.op) => Present(pr, a + 1)
          /\ VarSrcs(x.op) => Present(pr, a + TgtCells(x))

\* A step in which a callback set me->err does not return 0: later successful
\* accesses do not hide the error from bajo_run().
StepReportsErrors == st = "returned" /\ faulted => rc # "OK"

\* bajo_step() returns, whatever fails on the way.
StepReturns == st = "fetch" ~> st = "returned"

\* Operand by operand, with the m flag, with late error checks and with stores
\* one by one, a step is one atomic instruction.
Abs == INSTANCE VmSpec WITH
  ram <- ram0, pc <- pc0, exit_rc <- exit0, rc <- IF st = "stopped" THEN rc ELSE "OK"
AtomicSteps == Abs!Spec
=============================================================================
