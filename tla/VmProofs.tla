------------------------------ MODULE VmProofs ------------------------------
(***************************************************************************)
(* What holds of the interpreter for every program, RAM, host and width of *)
(* a byte: its types, its buffers, what a failed step leaves behind, and   *)
(* that a step is one atomic step of VmSpec.                               *)
(***************************************************************************)
EXTENDS Vm, WordProofs, TLAPS

Before == {"ntgts", "tgts", "nsrcs", "rmw", "srcs", "dispatch"}

\* The current instruction and the operand counts are well typed.
CodeInv ==
  /\ prog \in Programs
  /\ inst \in Instr
  /\ ntgts \in Nat /\ nsrcs \in Nat

LEMMA NopIsInstr == NopInst \in Instr
  <1>1. "NOP" \in Ops BY DEF Ops
  <1>2. <<>> \in Seq(Seq(Cell)) OBVIOUS
  <1> QED BY <1>1, <1>2 DEF NopInst, Instr

\* Whatever is fetched is an instruction of the program.
LEMMA Fetched ==
  ASSUME NEW pr \in Programs, NEW a, NEW k \in At(pr, a)
  PROVE  pr.insts[k] \in Instr
  <1>1. pr.insts \in Seq(Instr) BY ProgramsAssumption
  <1>2. k \in DOMAIN pr.insts BY DEF At
  <1> QED BY <1>1, <1>2

LEMMA CountInNat ==
  ASSUME NEW n \in Nat
  PROVE  CountRead(n).v \in Nat /\ CountRead(n).v <= n
  BY DEF CountRead, MissingCell

LEMMA CodeInvInit == Init => CodeInv
  BY NopIsInstr DEF Init, CodeInv

LEMMA CodeInvNext == CodeInv /\ [Next]_vars => CodeInv'
  <1> SUFFICES ASSUME CodeInv, [Next]_vars PROVE CodeInv'
    OBVIOUS
  <1> USE DEF CodeInv, fixedVars, decodeVars
  <1>1. CASE FetchUnmapped
    BY <1>1, NopIsInstr DEF FetchUnmapped, Fetch
  <1>2. CASE FetchUndefined
    BY <1>2 DEF FetchUndefined, Fetch
  <1>3. CASE FetchInst
    <2>1. inst' \in Instr
      BY <1>3, Fetched DEF FetchInst
    <2>2. Len(inst'.tgts) \in Nat /\ Len(inst'.srcs) \in Nat
      <3>1. inst'.tgts \in Seq(Seq(Cell)) /\ inst'.srcs \in Seq(Seq(Cell))
        BY <2>1 DEF Instr
      <3> QED BY <3>1
    <2> QED BY <1>3, <2>1, <2>2 DEF FetchInst, Fetch
  <1>4. CASE CountTgts
    BY <1>4, CountInNat DEF CountTgts, Decoding
  <1>5. CASE ReadTgt
    BY <1>5 DEF ReadTgt, Decoding
  <1>6. CASE TgtsRead
    BY <1>6 DEF TgtsRead, Decoding
  <1>7. CASE CountSrcs
    BY <1>7, CountInNat DEF CountSrcs, Decoding
  <1>8. CASE NoRmw \/ Rmw \/ RmwWithoutOperand
    BY <1>8 DEF NoRmw, Rmw, RmwWithoutOperand, Decoding
  <1>9. CASE ReadSrc
    BY <1>9 DEF ReadSrc, Decoding
  <1>10. CASE SrcsRead
    BY <1>10 DEF SrcsRead, Decoding
  <1>11. CASE Execute
    BY <1>11 DEF Execute, Dispatched
  <1>12. CASE Write
    BY <1>12 DEF Write
  <1>13. CASE Written \/ NextStep \/ RunReturns \/ Rerun
    BY <1>13 DEF Written, NextStep, RunReturns, Rerun
  <1>14. CASE Stopped \/ UNCHANGED vars
    BY <1>14 DEF Stopped, vars
  <1> QED
    BY <1>1, <1>2, <1>3, <1>4, <1>5, <1>6, <1>7, <1>8, <1>9, <1>10, <1>11, <1>12,
       <1>13, <1>14 DEF Next

-----------------------------------------------------------------------------
(* A failed step leaves the RAM alone.  FailedStepWritesNothing looks at a *)
(* step that returned; RamInv says how far the step was when RAM changed.  *)

\* A store of the current instruction among the first n was refused.
Refused(n) == \E j \in 1 .. n : ~InRam(tgts[j], TgtSize(inst.op))

RamInv ==
  /\ w \in Nat
  /\ st \in Before => w = 0
  /\ st \notin {"write", "returned"} => ram = ram0
  /\ st = "dispatch" => err = "OK"
  /\ st = "write" => /\ w <= ntgts
                     /\ err = "OK" \/ (err = "BAD_ADDR" /\ Refused(w))
  /\ FailedStepWritesNothing

LEMMA RamInvInit == Init => RamInv
  BY DEF Init, RamInv, Before, FailedStepWritesNothing

\* Reading the opcode and the operands: no store yet.
LEMMA RamInvDecode ==
  ASSUME CodeInv, RamInv,
         \/ FetchUnmapped \/ FetchUndefined \/ FetchInst \/ CountTgts \/ ReadTgt
         \/ TgtsRead \/ CountSrcs \/ NoRmw \/ Rmw \/ RmwWithoutOperand \/ ReadSrc
         \/ SrcsRead
  PROVE  RamInv'
  <1> USE DEF CodeInv, RamInv, Before, FailedStepWritesNothing, fixedVars, hostVars,
              Return
  <1>1. CASE FetchUnmapped \/ FetchUndefined \/ FetchInst
    BY <1>1 DEF FetchUnmapped, FetchUndefined, FetchInst, Fetch
  <1>2. CASE CountTgts \/ CountSrcs
    BY <1>2 DEF CountTgts, CountSrcs, Decoding
  <1>3. CASE ReadTgt \/ ReadSrc
    BY <1>3 DEF ReadTgt, ReadSrc, Decoding
  <1>4. CASE TgtsRead \/ NoRmw \/ Rmw \/ RmwWithoutOperand
    BY <1>4 DEF TgtsRead, NoRmw, Rmw, RmwWithoutOperand, Decoding
  <1>5. CASE SrcsRead
    BY <1>5 DEF SrcsRead, Decoding
  <1> QED BY <1>1, <1>2, <1>3, <1>4, <1>5

\* Only an error-free dispatch() is followed by stores.
LEMMA RamInvExecute ==
  ASSUME CodeInv, RamInv, Execute
  PROVE  RamInv'
  <1>1. PICK o \in Dispatch(inst.op, srcs, ntgts, pc) :
          /\ Dispatched(o)
          /\ IF err' # "OK" THEN Return(err') ELSE st' = "write" /\ rc' = rc
    BY DEF Execute
  <1>2. st = "dispatch" /\ w = 0 /\ ram = ram0 /\ ntgts \in Nat
    BY DEF Execute, RamInv, CodeInv, Before
  <1>3. ram' = ram /\ ram0' = ram0 /\ w' = 0 /\ ntgts' = ntgts
    BY <1>1, <1>2 DEF Dispatched, fixedVars, decodeVars
  <1>4. CASE err' # "OK"
    BY <1>1, <1>2, <1>3, <1>4 DEF Return, RamInv, Before, FailedStepWritesNothing
  <1>5. CASE err' = "OK"
    BY <1>1, <1>2, <1>3, <1>5 DEF RamInv, Before, FailedStepWritesNothing
  <1> QED BY <1>4, <1>5

\* A refused store is one of those done.
LEMMA RamInvWrite ==
  ASSUME CodeInv, RamInv, Write
  PROVE  RamInv'
  <1>1. /\ st = "write" /\ st' = "write" /\ w < ntgts /\ w' = w + 1
        /\ ntgts' = ntgts /\ tgts' = tgts /\ inst' = inst
        /\ w \in Nat /\ ntgts \in Nat
    BY DEF Write, decodeVars, RamInv, CodeInv
  <1>2. err' = "OK" \/ (err' = "BAD_ADDR" /\ Refused(w)')
    <2>1. CASE InRam(tgts[w + 1], TgtSize(inst.op))
      <3>1. err' = err
        BY <2>1 DEF Write, Store1
      <3>2. Refused(w) => Refused(w)'
        BY <1>1 DEF Refused
      <3> QED BY <3>1, <3>2, <1>1 DEF RamInv
    <2>2. CASE ~InRam(tgts[w + 1], TgtSize(inst.op))
      <3>1. err' = "BAD_ADDR"
        BY <2>2 DEF Write, Store1
      <3>2. Refused(w)'
        BY <1>1, <2>2 DEF Refused
      <3> QED BY <3>1, <3>2
    <2> QED BY <2>1, <2>2
  <1> QED BY <1>1, <1>2 DEF RamInv, Before, FailedStepWritesNothing

LEMMA RamInvNext == CodeInv /\ RamInv /\ [Next]_vars => RamInv'
  <1> SUFFICES ASSUME CodeInv, RamInv, [Next]_vars PROVE RamInv'
    OBVIOUS
  <1>1. CASE Written
    BY <1>1 DEF Written, Return, RamInv, Refused, Before, FailedStepWritesNothing, CodeInv,
                fixedVars, decodeVars, dataVars, hostVars
  <1>2. CASE NextStep \/ RunReturns
    BY <1>2 DEF NextStep, RunReturns, RamInv, Before, FailedStepWritesNothing,
                decodeVars, dataVars, hostVars
  <1>3. CASE Rerun
    BY <1>3 DEF Rerun, RamInv, Before, FailedStepWritesNothing,
                fixedVars, dataVars, hostVars
  <1>4. CASE Stopped \/ UNCHANGED vars
    BY <1>4 DEF Stopped, vars, RamInv, Refused, Before, FailedStepWritesNothing,
                fixedVars, decodeVars, dataVars, hostVars
  <1> QED
    BY <1>1, <1>2, <1>3, <1>4, RamInvDecode, RamInvExecute, RamInvWrite DEF Next

\* A step that fails leaves the RAM as it was, unless a store was refused.
THEOREM FailedStepHarmless == Spec => []FailedStepWritesNothing
  <1>1. Init => CodeInv /\ RamInv
    BY CodeInvInit, RamInvInit
  <1>2. CodeInv /\ RamInv /\ [Next]_vars => (CodeInv /\ RamInv)'
    BY CodeInvNext, RamInvNext
  <1>3. RamInv => FailedStepWritesNothing
    BY DEF RamInv
  <1> QED BY <1>1, <1>2, <1>3, PTL DEF Spec

-----------------------------------------------------------------------------
(* The operand arrays never overflow: a count above the limit is refused   *)
(* before any of the operands it counts is read.                           *)

IsSeq(s) == \E S : s \in Seq(S)

\* Until its count is checked an array is empty.
BufferInv ==
  /\ IsSeq(tgts) /\ IsSeq(srcs)
  /\ st = "ntgts" => tgts = <<>>
  /\ st \in {"ntgts", "tgts", "nsrcs", "rmw"} => srcs = <<>>
  /\ st \in {"tgts", "nsrcs", "rmw", "srcs", "dispatch", "write"} =>
       (VarTgts(inst.op) => ntgts <= MaxTgts)
  /\ st \in {"rmw", "srcs", "dispatch", "write"} => (VarSrcs(inst.op) => nsrcs <= MaxSrcs)
  /\ BuffersHold

LEMMA EmptyIsSeq == IsSeq(<<>>) /\ Len(<<>>) = 0
  <1>1. <<>> \in Seq({}) /\ Len(<<>>) = 0
    OBVIOUS
  <1> QED BY <1>1 DEF IsSeq

LEMMA OneIsSeq ==
  ASSUME NEW e
  PROVE  IsSeq(<<e>>) /\ Len(<<e>>) = 1
  <1>1. <<e>> \in Seq({e}) /\ Len(<<e>>) = 1
    OBVIOUS
  <1> QED BY <1>1 DEF IsSeq

LEMMA AppendIsSeq ==
  ASSUME NEW s, NEW e, IsSeq(s)
  PROVE  IsSeq(Append(s, e)) /\ Len(s) \in Nat /\ Len(Append(s, e)) = Len(s) + 1
  <1>1. PICK S : s \in Seq(S)
    BY DEF IsSeq
  <1> DEFINE T == S \cup {e}
  <1>2. s \in Seq(T)
    BY <1>1
  <1>3. Append(s, e) \in Seq(T) /\ Len(s) \in Nat /\ Len(Append(s, e)) = Len(s) + 1
    BY <1>2
  <1> QED BY <1>3 DEF IsSeq

LEMMA NopHasNoCount == ~VarTgts(NopInst.op) /\ ~VarSrcs(NopInst.op)
  BY DEF NopInst, VarTgts, VarSrcs, VarSrcOps

LEMMA BufferInvInit == Init => BufferInv
  BY EmptyIsSeq, NopHasNoCount, LimitsAssumption DEF Init, BufferInv, BuffersHold

LEMMA BufferInvFetch ==
  ASSUME CodeInv, CodeInv', BufferInv, FetchUnmapped \/ FetchUndefined \/ FetchInst
  PROVE  BufferInv'
  <1>1. tgts' = <<>> /\ srcs' = <<>>
    BY DEF FetchUnmapped, FetchUndefined, FetchInst, Fetch
  <1>2. BuffersHold'
    BY <1>1, EmptyIsSeq, LimitsAssumption DEF BuffersHold, CodeInv
  <1>3. CASE FetchUnmapped
    BY <1>1, <1>2, <1>3, EmptyIsSeq, NopHasNoCount DEF FetchUnmapped, BufferInv
  <1>4. CASE FetchUndefined
    BY <1>1, <1>2, <1>4, EmptyIsSeq DEF FetchUndefined, Return, BufferInv
  <1>5. CASE FetchInst
    BY <1>1, <1>2, <1>5, EmptyIsSeq DEF FetchInst, BufferInv
  <1> QED BY <1>3, <1>4, <1>5

LEMMA BufferInvCounts ==
  ASSUME CodeInv, BufferInv, CountTgts \/ CountSrcs
  PROVE  BufferInv'
  <1>1. CASE CountTgts
    <2>1. /\ st = "ntgts" /\ tgts' = tgts /\ srcs' = srcs /\ tgts = <<>> /\ srcs = <<>>
          /\ inst' = inst /\ nsrcs' = nsrcs /\ nsrcs \in Nat
      BY <1>1 DEF CountTgts, Decoding, BufferInv, CodeInv
    <2>2. ntgts' \in Nat /\ st' \in {"returned", "tgts"}
          /\ (st' = "tgts" => ntgts' <= MaxTgts)
      BY <1>1, CountInNat, LimitsAssumption DEF CountTgts, CodeInv, Return
    <2> QED
      BY <2>1, <2>2, EmptyIsSeq, LimitsAssumption DEF BufferInv, BuffersHold
  <1>2. CASE CountSrcs
    <2>1. /\ st = "nsrcs" /\ tgts' = tgts /\ srcs' = srcs /\ srcs = <<>>
          /\ inst' = inst /\ ntgts' = ntgts
      BY <1>2 DEF CountSrcs, Decoding, BufferInv
    <2>2. nsrcs' \in Nat /\ st' \in {"returned", "rmw"}
          /\ (st' = "rmw" => nsrcs' <= MaxSrcs)
      BY <1>2, CountInNat, LimitsAssumption DEF CountSrcs, CodeInv, Return
    <2> QED
      BY <2>1, <2>2, EmptyIsSeq, LimitsAssumption DEF BufferInv, BuffersHold
  <1> QED BY <1>1, <1>2

LEMMA BufferInvReads ==
  ASSUME CodeInv, BufferInv, ReadTgt \/ ReadSrc \/ Rmw
  PROVE  BufferInv'
  <1>1. CASE ReadTgt
    <2>1. PICK v : tgts' = Append(tgts, v)
      BY <1>1 DEF ReadTgt
    <2>2. /\ st = "tgts" /\ st' = st /\ Len(tgts) < ntgts /\ srcs' = srcs /\ srcs = <<>>
          /\ inst' = inst /\ ntgts' = ntgts /\ nsrcs' = nsrcs /\ ntgts \in Nat
      BY <1>1 DEF ReadTgt, Decoding, BufferInv, CodeInv
    <2>3. IsSeq(tgts') /\ Len(tgts) \in Nat /\ Len(tgts') = Len(tgts) + 1
      BY <2>1, AppendIsSeq DEF BufferInv
    <2> QED BY <2>2, <2>3, LimitsAssumption DEF BufferInv, BuffersHold
  <1>2. CASE ReadSrc
    <2>1. PICK v : srcs' = Append(srcs, v)
      BY <1>2 DEF ReadSrc
    <2>2. /\ st = "srcs" /\ st' = st /\ Len(srcs) < nsrcs /\ tgts' = tgts
          /\ inst' = inst /\ ntgts' = ntgts /\ nsrcs' = nsrcs /\ nsrcs \in Nat
      BY <1>2 DEF ReadSrc, Decoding, BufferInv, CodeInv
    <2>3. IsSeq(srcs') /\ Len(srcs) \in Nat /\ Len(srcs') = Len(srcs) + 1
      BY <2>1, AppendIsSeq DEF BufferInv
    <2> QED BY <2>2, <2>3, LimitsAssumption DEF BufferInv, BuffersHold
  <1>3. CASE Rmw
    <2>1. PICK v : srcs' = <<v>>
      BY <1>3 DEF Rmw
    <2>2. /\ st = "rmw" /\ st' = "srcs" /\ 0 < nsrcs /\ tgts' = tgts
          /\ inst' = inst /\ ntgts' = ntgts /\ nsrcs' = nsrcs /\ nsrcs \in Nat
      BY <1>3 DEF Rmw, Decoding, CodeInv
    <2>3. IsSeq(srcs') /\ Len(srcs') = 1
      BY <2>1, OneIsSeq
    <2> QED BY <2>2, <2>3, LimitsAssumption DEF BufferInv, BuffersHold
  <1> QED BY <1>1, <1>2, <1>3

LEMMA BufferInvNext == CodeInv /\ CodeInv' /\ BufferInv /\ [Next]_vars => BufferInv'
  <1> SUFFICES ASSUME CodeInv, CodeInv', BufferInv, [Next]_vars PROVE BufferInv'
    OBVIOUS
  <1> USE DEF BufferInv, BuffersHold, decodeVars, dataVars
  <1>1. CASE TgtsRead \/ NoRmw \/ RmwWithoutOperand \/ SrcsRead
    BY <1>1 DEF TgtsRead, NoRmw, RmwWithoutOperand, SrcsRead, Decoding, Return
  <1>2. CASE Execute
    BY <1>2 DEF Execute, Dispatched, Return
  <1>3. CASE Write \/ Written
    BY <1>3 DEF Write, Written, Return
  <1>4. CASE NextStep \/ RunReturns \/ Rerun
    BY <1>4 DEF NextStep, RunReturns, Rerun
  <1>5. CASE Stopped \/ UNCHANGED vars
    BY <1>5 DEF Stopped, vars
  <1> QED
    BY <1>1, <1>2, <1>3, <1>4, <1>5, BufferInvFetch, BufferInvCounts, BufferInvReads
    DEF Next

\* No instruction reads more targets or sources than bajo_step() has room for.
THEOREM BuffersAlwaysHold == Spec => []BuffersHold
  <1>1. Init => CodeInv /\ BufferInv
    BY CodeInvInit, BufferInvInit
  <1>2. CodeInv /\ BufferInv /\ [Next]_vars => (CodeInv /\ BufferInv)'
    BY CodeInvNext, BufferInvNext
  <1>3. BufferInv => BuffersHold
    BY DEF BufferInv
  <1> QED BY <1>1, <1>2, <1>3, PTL DEF Spec

-----------------------------------------------------------------------------
(* Words and addresses stay 32 bits wide.  First where instructions lie in *)
(* memory, and what reading one byte, cell or operand gives.               *)

LEMMA CellsType ==
  ASSUME NEW s \in Seq(Seq(Cell)), NEW n \in 0 .. Len(s)
  PROVE  Cells(s, n) \in Nat /\ Cells(s, 0) = 0
  <1> DEFINE f == [j \in DOMAIN s |-> Len(s[j])]
             N == Len(s)
  <1>1. N \in Nat /\ DOMAIN s = 1 .. N
    OBVIOUS
  <1>2. ASSUME NEW j \in 1 .. N PROVE f[j] \in Nat
    <2>1. s[j] \in Seq(Cell) /\ j \in DOMAIN s
      BY <1>1
    <2> QED BY <2>1
  <1>3. Cells(s, n) = SumTo(f, n) /\ Cells(s, 0) = SumTo(f, 0)
    BY DEF Cells
  <1> HIDE DEF f
  <1>4. SumTo(f, n) \in Nat
    <2> HIDE DEF N
    <2>1. n \in 0 .. N /\ n \in Int /\ n <= n
      BY <1>1 DEF N
    <2> QED BY <1>1, <1>2, <2>1, SumToMonotone
  <1> QED BY <1>3, <1>4, SumToZero

LEMMA EncodedSrcsType ==
  ASSUME NEW x \in Instr
  PROVE  EncodedSrcs(x) \in Seq(Seq(Cell))
  <1>1. x.srcs \in Seq(Seq(Cell))
    BY DEF Instr
  <1> QED BY <1>1 DEF EncodedSrcs

LEMMA SizeType ==
  ASSUME NEW x \in Instr
  PROVE  /\ TgtCells(x) \in Nat /\ Size(x) \in Nat
         /\ 1 <= TgtCells(x) /\ TgtCells(x) <= Size(x)
  <1>1. x.tgts \in Seq(Seq(Cell)) /\ Len(x.tgts) \in 0 .. Len(x.tgts)
    BY DEF Instr
  <1>2. EncodedSrcs(x) \in Seq(Seq(Cell)) /\ Len(EncodedSrcs(x)) \in 0 .. Len(EncodedSrcs(x))
    BY EncodedSrcsType
  <1>3. Cells(x.tgts, Len(x.tgts)) \in Nat
        /\ Cells(EncodedSrcs(x), Len(EncodedSrcs(x))) \in Nat
    BY <1>1, <1>2, CellsType
  <1>4. \A b : Count(b) \in {0, 1}
    BY DEF Count
  <1> QED BY <1>3, <1>4 DEF TgtCells, Size

LEMMA ProgramType ==
  ASSUME NEW pr \in Programs
  PROVE  /\ pr.insts \in Seq(Instr) /\ pr.cut \in Nat /\ Len(pr.insts) \in Nat
         /\ DOMAIN pr.insts = 1 .. Len(pr.insts)
         /\ \A k \in DOMAIN pr.insts : pr.insts[k] \in Instr /\ WellFormed(pr.insts[k])
  BY ProgramsAssumption

\* Addresses of code are addresses.
LEMMA StartOfType ==
  ASSUME NEW pr \in Programs, NEW k \in 1 .. Len(pr.insts) + 1
  PROVE  /\ StartOf(pr, k) \in Nat /\ CodeBase <= StartOf(pr, k)
         /\ StartOf(pr, 1) = CodeBase
         /\ k <= Len(pr.insts) => StartOf(pr, k + 1) = StartOf(pr, k) + Size(pr.insts[k])
         /\ StartOf(pr, k) <= StartOf(pr, Len(pr.insts) + 1)
  <1> DEFINE f == [j \in DOMAIN pr.insts |-> Size(pr.insts[j])]
             N == Len(pr.insts)
  <1>1. N \in Nat /\ DOMAIN pr.insts = 1 .. N /\ CodeBase \in Nat
    BY ProgramType, MapAssumption, AddrRange
  <1>2. ASSUME NEW j \in 1 .. N PROVE f[j] \in Nat /\ f[j] = Size(pr.insts[j])
    <2>1. pr.insts[j] \in Instr
      BY <1>1, ProgramType
    <2> QED BY <1>1, <2>1, SizeType
  <1>3. \A i : StartOf(pr, i) = CodeBase + SumTo(f, i - 1)
    BY DEF StartOf
  <1> HIDE DEF f, N
  <1>4. k \in 1 .. N + 1 /\ k - 1 \in 0 .. N /\ 0 \in 0 .. N /\ N \in 0 .. N
        /\ N + 1 - 1 = N /\ 1 - 1 = 0
    BY <1>1 DEF N
  <1>5. SumTo(f, k - 1) \in Nat /\ SumTo(f, k - 1) <= SumTo(f, N) /\ SumTo(f, N) \in Nat
    <2>1. \A j \in 1 .. N : f[j] \in Nat
      BY <1>2
    <2>2. SumTo(f, N) \in Nat
      BY <1>1, <1>4, <2>1, SumToMonotone
    <2> DEFINE q == k - 1
    <2>3. q \in 0 .. N /\ q <= N
      BY <1>4
    <2> HIDE DEF q
    <2>4. SumTo(f, q) \in Nat /\ SumTo(f, q) <= SumTo(f, N)
      BY <1>1, <1>4, <2>1, <2>3, SumToMonotone
    <2> QED BY <2>2, <2>4 DEF q
  <1>6. SumTo(f, 0) = 0
    BY SumToZero
  <1>7. ASSUME k <= N
        PROVE  SumTo(f, k) = SumTo(f, k - 1) + Size(pr.insts[k])
    <2> DEFINE q == k - 1
    <2>1. q \in Nat /\ q < N /\ q + 1 = k /\ k \in 1 .. N
      BY <1>4, <1>7, <1>1
    <2>3. q = k - 1
      OBVIOUS
    <2> HIDE DEF q
    <2>2. SumTo(f, q + 1) = SumTo(f, q) + f[q + 1]
      BY <1>1, <1>2, <2>1, SumToNext
    <2> QED BY <1>2, <2>1, <2>2, <2>3
  <1>8. StartOf(pr, k) \in Nat /\ CodeBase <= StartOf(pr, k)
    BY <1>1, <1>3, <1>5
  <1>9. StartOf(pr, 1) = CodeBase
    BY <1>1, <1>3, <1>4, <1>6
  <1>10. StartOf(pr, k) <= StartOf(pr, N + 1)
    BY <1>1, <1>3, <1>4, <1>5
  <1>11. ASSUME k <= N PROVE StartOf(pr, k + 1) = StartOf(pr, k) + Size(pr.insts[k])
    <2>1. k + 1 - 1 = k /\ k \in 1 .. N
      BY <1>4, <1>11, <1>1
    <2>2. Size(pr.insts[k]) \in Nat
      BY <1>2, <2>1
    <2>3. StartOf(pr, k + 1) = CodeBase + SumTo(f, k)
      BY <1>3, <2>1
    <2> QED BY <1>1, <1>3, <1>5, <1>7, <1>11, <2>2, <2>3
  <1> QED BY <1>8, <1>9, <1>10, <1>11 DEF N

LEMMA CodeEndType ==
  ASSUME NEW pr \in Programs
  PROVE  CodeEnd(pr) \in Int /\ CodeEnd(pr) <= Values(4)
         /\ CodeEnd(pr) <= StartOf(pr, Len(pr.insts) + 1)
  <1>1. Len(pr.insts) + 1 \in 1 .. Len(pr.insts) + 1 /\ pr.cut \in Nat
    BY ProgramType
  <1>2. StartOf(pr, Len(pr.insts) + 1) \in Nat /\ StartOf(pr, Len(pr.insts) + 1) <= Values(4)
    BY <1>1, StartOfType, ProgramsAssumption
  <1> QED BY <1>1, <1>2, ByteValues DEF CodeEnd

-----------------------------------------------------------------------------
(* Operands. *)

RamType == [0 .. RamSize - 1 -> 0 .. Values(1) - 1]
Sizes   == {1, 2, 4}
CellFaults == {"BAD_VARINT", "BAD_ADDR"}
Value   == [v : Words, faults : SUBSET CellFaults]

LEMMA HostReadType ==
  ASSUME NEW pr \in Programs, NEW m \in RamType, NEW a \in Addrs, NEW size \in Sizes
  PROVE  HostRead(pr, m, a, size) \in Words
  <1>0. a \in Nat /\ a \in Int /\ Values(1) \in Nat
    BY AddrRange, ByteValues
  <1>1. CASE InRam(a, size)
    <2>1. ASSUME NEW b \in Span(a, size) PROVE m[b] \in Int
      <3>1. b \in 0 .. RamSize - 1
        BY <1>0, <1>1, MapAssumption DEF Span, InRam, Sizes
      <3> QED BY <3>1, <1>0 DEF RamType
    <2>2. Load(m, a, size) \in Words
      BY <1>0, <2>1, LoadType DEF Sizes
    <2> QED BY <1>1, <2>2 DEF HostRead
  <1>2. CASE ~InRam(a, size) /\ InCode(pr, a, size)
    <2> DEFINE code == [b \in Addrs |-> CodeByte]
    <2>1. ASSUME NEW b \in Span(a, size) PROVE code[b] \in Int
      <3>1. b \in Nat /\ b < Values(4)
        BY <1>0, <1>2, CodeEndType, ByteValues DEF InCode, Present, Span, Sizes
      <3>2. b \in Addrs
        BY <3>1, ByteValues DEF Addrs
      <3> QED BY <3>2, <1>0, MapAssumption
    <2> HIDE DEF code
    <2>2. Load(code, a, size) \in Words
      BY <1>0, <2>1, LoadType DEF Sizes
    <2> QED BY <1>2, <2>2 DEF HostRead, code
  <1>3. CASE ~InRam(a, size) /\ ~InCode(pr, a, size)
    BY <1>3, WordsAreIntegers DEF HostRead
  <1> QED BY <1>1, <1>2, <1>3

LEMMA ReadAtType ==
  ASSUME NEW pr \in Programs, NEW m \in RamType, NEW size \in Sizes,
         NEW r, r.v \in Addrs, r.faults \in SUBSET CellFaults
  PROVE  ReadAt(pr, m, r, size) \in Value
  BY HostReadType, WordsAreIntegers DEF ReadAt, Value, CellFaults

LEMMA IndirectType ==
  ASSUME NEW pr \in Programs, NEW m \in RamType, NEW base \in Addrs, NEW rest \in Value
  PROVE  /\ Indirect(pr, m, base, rest).v \in Addrs
         /\ Indirect(pr, m, base, rest).faults \in SUBSET CellFaults
  <1> DEFINE b == ReadAt(pr, m, [v |-> base, faults |-> {}], 4)
  <1>1. b \in Value
    BY ReadAtType DEF Sizes
  <1> HIDE DEF b
  <1>2. b.v \in Int /\ rest.v \in Int
    BY <1>1, WordsAreIntegers DEF Value
  <1>3. Unsigned(b.v + rest.v) \in Addrs
    BY <1>2, UnsignedType
  <1>4. Indirect(pr, m, base, rest) =
          [v |-> Unsigned(b.v + rest.v), faults |-> b.faults \cup rest.faults]
    BY DEF Indirect, b
  <1> QED BY <1>1, <1>3, <1>4 DEF Value

LEMMA MissingType == MissingCell \in Value
  BY WordsAreIntegers DEF MissingCell, Value, CellFaults

\* What a cell is worth, case by case; only an "ind" one looks at the rest.
LEMMA CellValueIs ==
  ASSUME NEW pr, NEW m, NEW c \in Cell, NEW at, NEW size, NEW rest
  PROVE  CellValue(pr, m, c, at, size, rest) =
           IF ~Present(pr, at) THEN MissingCell
           ELSE IF c.mode = "imm"
                THEN [v |-> IF size < 4 THEN ZeroExtend(c.v, size) ELSE c.v, faults |-> {}]
           ELSE IF c.mode = "mem" THEN ReadAt(pr, m, [v |-> c.v, faults |-> {}], size)
           ELSE ReadAt(pr, m, Indirect(pr, m, c.v, rest), size)
  <1>1. c.mode \in {"imm", "mem", "ind"}
    BY DEF Cell
  <1>2. CASE ~Present(pr, at)
    BY <1>2 DEF CellValue
  <1>3. CASE Present(pr, at) /\ c.mode = "imm"
    BY <1>3 DEF CellValue
  <1>4. CASE Present(pr, at) /\ c.mode = "mem"
    BY <1>4 DEF CellValue
  <1>5. CASE Present(pr, at) /\ c.mode = "ind"
    BY <1>5 DEF CellValue
  <1> QED BY <1>1, <1>2, <1>3, <1>4, <1>5

LEMMA CellValueType ==
  ASSUME NEW pr \in Programs, NEW m \in RamType, NEW c \in Cell, NEW at,
         NEW size \in Sizes, NEW rest \in Value
  PROVE  CellValue(pr, m, c, at, size, rest) \in Value
  <1>1. c.mode \in {"imm", "mem", "ind"} /\ (c.mode = "imm" => c.v \in Words)
        /\ (c.mode \in {"mem", "ind"} => c.v \in Addrs)
    BY DEF Cell
  <1>2. CASE ~Present(pr, at)
    BY <1>2, CellValueIs, MissingType
  <1>3. CASE Present(pr, at) /\ c.mode = "imm"
    <2> DEFINE v == IF size < 4 THEN ZeroExtend(c.v, size) ELSE c.v
    <2>1. v \in Words
      <3>1. size < 4 => size \in {1, 2}
        BY DEF Sizes
      <3>2. c.v \in Words /\ c.v \in Int
        BY <1>1, <1>3, WordsAreIntegers
      <3>3. ASSUME size \in {1, 2} PROVE ZeroExtend(c.v, size) \in Words
        BY <3>2, <3>3, ZeroExtendType
      <3> QED BY <3>1, <3>2, <3>3
    <2>2. CellValue(pr, m, c, at, size, rest) = [v |-> v, faults |-> {}]
      BY <1>3, CellValueIs
    <2> HIDE DEF v
    <2> QED BY <2>1, <2>2 DEF Value
  <1>4. CASE Present(pr, at) /\ c.mode = "mem"
    <2> DEFINE r == [v |-> c.v, faults |-> {}]
    <2>1. CellValue(pr, m, c, at, size, rest) = ReadAt(pr, m, r, size)
      BY <1>4, CellValueIs
    <2>2. r.v \in Addrs /\ r.faults \in SUBSET CellFaults
      BY <1>1, <1>4
    <2> HIDE DEF r
    <2> QED BY <2>1, <2>2, ReadAtType
  <1>5. CASE Present(pr, at) /\ c.mode = "ind"
    <2> DEFINE r == Indirect(pr, m, c.v, rest)
    <2>1. r.v \in Addrs /\ r.faults \in SUBSET CellFaults
      BY <1>1, <1>5, IndirectType
    <2>2. CellValue(pr, m, c, at, size, rest) = ReadAt(pr, m, r, size)
      BY <1>5, CellValueIs
    <2> HIDE DEF r
    <2> QED BY <2>1, <2>2, ReadAtType
  <1> QED BY <1>1, <1>2, <1>3, <1>4, <1>5

-----------------------------------------------------------------------------
(* read_src() goes over the cells of an operand from its end, which is     *)
(* where the recursion of Rest() stops: the last cell is not "ind".        *)

\* How each cell of an operand follows from the next one.
Reads(c, R, pr, m, at, size) ==
  \A k \in DOMAIN c :
    R[k] = CellValue(pr, m, c[k], at + k - 1, IF k = 1 THEN size ELSE 4, R[k + 1])

LEMMA LastCell ==
  ASSUME NEW pr, NEW m, NEW c \in Cell, NEW at, NEW size, NEW r1, NEW r2, c.mode # "ind"
  PROVE  CellValue(pr, m, c, at, size, r1) = CellValue(pr, m, c, at, size, r2)
  <1>1. c.mode \in {"imm", "mem"}
    BY DEF Cell
  <1> QED BY <1>1, CellValueIs

LEMMA OperandCells ==
  ASSUME NEW c, NEW L, IsOperand(c, L), c \in Seq(Cell)
  PROVE  /\ Len(c) \in Nat /\ Len(c) >= 1 /\ DOMAIN c = 1 .. Len(c)
         /\ \A k \in 1 .. Len(c) : c[k] \in Cell /\ (c[k].mode = "ind" <=> k < Len(c))
  BY DEF IsOperand

LEMMA RestMeans ==
  ASSUME NEW pr \in Programs, NEW m \in RamType, NEW c \in Seq(Cell), NEW L,
         IsOperand(c, L), NEW at \in Int, NEW size \in Sizes
  PROVE  /\ Rest(pr, m, c, at, size) \in [DOMAIN c -> Value]
         /\ Reads(c, Rest(pr, m, c, at, size), pr, m, at, size)
  <1> DEFINE N == Len(c)
             sz(k) == IF k = 1 THEN size ELSE 4
             V(k, r) == CellValue(pr, m, c[k], at + k - 1, sz(k), r)
             h == [p \in Value \X Nat |-> IF p[2] < N THEN V(N - p[2], p[1]) ELSE p[1]]
             a == V(N, MissingCell)
  <1>1. /\ N \in Nat /\ N >= 1 /\ DOMAIN c = 1 .. N
        /\ \A k \in 1 .. N : c[k] \in Cell /\ (c[k].mode = "ind" <=> k < N)
    BY OperandCells
  <1>2. ASSUME NEW k \in 1 .. N, NEW r \in Value PROVE V(k, r) \in Value
    <2>1. c[k] \in Cell /\ sz(k) \in Sizes
      BY <1>1 DEF Sizes
    <2> HIDE DEF sz
    <2> QED BY <2>1, CellValueType
  <1>3. \A k : \A r : V(k, r) = CellValue(pr, m, c[k], at + k - 1, IF k = 1 THEN size ELSE 4, r)
    OBVIOUS
  <1>4. \A r1, r2 : V(N, r1) = V(N, r2)
    <2>1. c[N] \in Cell /\ c[N].mode # "ind"
      BY <1>1
    <2> QED BY <2>1, LastCell
  <1> HIDE DEF V, N
  <1>5. a \in Value
    <2>1. N \in 1 .. N
      BY <1>1
    <2> QED BY <2>1, <1>2, MissingType
  <1>6. h \in [Value \X Nat -> Value]
    <2>1. ASSUME NEW p \in Value \X Nat
          PROVE  (IF p[2] < N THEN V(N - p[2], p[1]) ELSE p[1]) \in Value
      <3>1. p[1] \in Value /\ p[2] \in Nat
        OBVIOUS
      <3>2. CASE p[2] < N
        <4>1. N - p[2] \in 1 .. N
          BY <1>1, <3>1, <3>2
        <4> QED BY <1>2, <3>1, <3>2, <4>1
      <3>3. CASE ~(p[2] < N)
        BY <3>1, <3>3
      <3> QED BY <3>2, <3>3
    <2> QED BY <2>1
  <1>7. ASSUME NEW r \in Value, NEW i \in Nat, i < N
        PROVE  h[<<r, i>>] = V(N - i, r)
    <2>1. <<r, i>> \in Value \X Nat /\ <<r, i>>[1] = r /\ <<r, i>>[2] = i
      OBVIOUS
    <2> QED BY <2>1, <1>7
  <1> HIDE DEF h, a
  <1>8. PICK u \in [Nat -> Value] : u[0] = a /\ \A i \in Nat : u[i + 1] = h[<<u[i], i + 1>>]
    <2>1. Recursive(Value, a, h) # {}
      BY <1>5, <1>6, Recursion
    <2> QED BY <2>1 DEF Recursive
  <1> DEFINE F == [k \in DOMAIN c |-> u[N - k]]
  <1>9. F \in [DOMAIN c -> Value]
    <2>1. \A k \in 1 .. N : N - k \in Nat
      BY <1>1
    <2> QED BY <1>1, <1>8, <2>1
  <1>10. ASSUME NEW k \in DOMAIN c PROVE F[k] = V(k, F[k + 1])
    <2>1. k \in 1 .. N /\ F[k] = u[N - k]
      BY <1>1
    <2>2. CASE k = N
      <3>1. F[k] = a
        BY <1>1, <1>8, <2>1, <2>2
      <3> QED BY <3>1, <1>4, <2>2 DEF a
    <2>3. CASE k < N
      <3> DEFINE i == N - (k + 1)
      <3>1. i \in Nat /\ i + 1 = N - k /\ i + 1 < N /\ N - (i + 1) = k /\ k + 1 \in 1 .. N
            /\ i + 1 \in Nat
        BY <1>1, <2>1, <2>3
      <3>2. F[k + 1] = u[i]
        BY <1>1, <3>1
      <3> HIDE DEF i, F
      <3>3. u[i + 1] = h[<<u[i], i + 1>>] /\ u[i] \in Value
        BY <1>8, <3>1
      <3>4. h[<<u[i], i + 1>>] = V(N - (i + 1), u[i])
        BY <1>7, <3>1, <3>3
      <3> QED BY <2>1, <3>1, <3>2, <3>3, <3>4
    <2> QED BY <1>1, <2>1, <2>2, <2>3
  <1> DEFINE G(R) == [k \in DOMAIN c |->
                CellValue(pr, m, c[k], at + k - 1, IF k = 1 THEN size ELSE 4, R[k + 1])]
  <1>11. F = G(F)
    <2>1. F = [k \in DOMAIN c |-> V(k, F[k + 1])]
      BY <1>10
    <2> QED BY <2>1, <1>3
  <1>12. Rest(pr, m, c, at, size) = CHOOSE R : R = G(R)
    BY DEF Rest
  <1> DEFINE T == CHOOSE R : R = G(R)
  <1> HIDE DEF F
  <1>13. T = G(T)
    <2> HIDE DEF G
    <2> QED BY <1>11
  <1>21. T = CHOOSE R : R = G(R)
    OBVIOUS
  <1> HIDE DEF T
  <1>14. Reads(c, T, pr, m, at, size)
    BY <1>13 DEF Reads
  <1>15. DOMAIN T = DOMAIN c /\ T = [k \in DOMAIN c |-> T[k]]
    BY <1>13
  <1>16. \A k \in DOMAIN c : T[k] = V(k, T[k + 1])
    BY <1>14, <1>3 DEF Reads
  \* The equations have one solution.
  <1> DEFINE P == {i \in Nat : i < N => T[N - i] = u[i]}
  <1>17. 0 \in P
    <2>1. N \in DOMAIN c /\ N - 0 = N
      BY <1>1
    <2>2. T[N] = a
      BY <2>1, <1>4, <1>16 DEF a
    <2> QED BY <1>8, <2>1, <2>2
  <1>18. ASSUME NEW i \in Nat, i \in P PROVE i + 1 \in P
    <2> SUFFICES ASSUME i + 1 < N PROVE T[N - (i + 1)] = u[i + 1]
      OBVIOUS
    <2> DEFINE k == N - (i + 1)
    <2>1. k \in 1 .. N /\ k \in DOMAIN c /\ k + 1 = N - i /\ i < N /\ i + 1 \in Nat
      BY <1>1
    <2>2. T[k] = V(k, T[k + 1]) /\ T[k + 1] = u[i]
      BY <1>16, <1>18, <2>1
    <2>3. u[i + 1] = h[<<u[i], i + 1>>] /\ u[i] \in Value
      BY <1>8
    <2>4. h[<<u[i], i + 1>>] = V(N - (i + 1), u[i])
      BY <1>7, <2>1, <2>3
    <2> QED BY <2>2, <2>3, <2>4
  <1> HIDE DEF P
  <1>19. \A i \in Nat : i \in P
    BY <1>17, <1>18, SetInduction
  <1>20. ASSUME NEW k \in DOMAIN c PROVE T[k] \in Value
    <2> DEFINE i == N - k
    <2>1. i \in Nat /\ i < N /\ N - i = k
      BY <1>1
    <2> HIDE DEF i
    <2>2. T[N - i] = u[i]
      BY <2>1, <1>19 DEF P
    <2> QED BY <1>8, <2>1, <2>2
  <1> QED BY <1>12, <1>14, <1>15, <1>20, <1>21

LEMMA SrcValueType ==
  ASSUME NEW pr \in Programs, NEW m \in RamType, NEW c \in Seq(Cell), NEW L,
         IsOperand(c, L), NEW at \in Int, NEW size \in Sizes
  PROVE  SrcValue(pr, m, c, at, size) \in Value
  <1>1. 1 \in DOMAIN c
    BY OperandCells
  <1>2. Rest(pr, m, c, at, size) \in [DOMAIN c -> Value]
    BY RestMeans
  <1> QED BY <1>1, <1>2 DEF SrcValue

LEMMA TgtAddrType ==
  ASSUME NEW pr \in Programs, NEW m \in RamType, NEW c \in Seq(Cell),
         IsOperand(c, {"mem"}), NEW at \in Int
  PROVE  /\ TgtAddr(pr, m, c, at).v \in Addrs
         /\ TgtAddr(pr, m, c, at).faults \in SUBSET CellFaults
  <1>1. /\ Len(c) \in Nat /\ Len(c) >= 1 /\ DOMAIN c = 1 .. Len(c)
        /\ c[1] \in Cell /\ (c[1].mode = "ind" <=> 1 < Len(c))
        /\ c[1].mode \in {"mem", "ind"}
    BY OperandCells DEF IsOperand
  <1>2. c[1].v \in Addrs
    BY <1>1 DEF Cell
  <1>3. CASE ~Present(pr, at)
    <2>1. TgtAddr(pr, m, c, at) = MissingCell
      BY <1>3 DEF TgtAddr
    <2>2. 0 \in Addrs
      BY AddrRange, HalfFacts
    <2> QED BY <2>1, <2>2 DEF MissingCell, CellFaults
  <1>4. CASE Present(pr, at) /\ c[1].mode = "mem"
    BY <1>2, <1>4 DEF TgtAddr
  <1>5. CASE Present(pr, at) /\ c[1].mode = "ind"
    <2> DEFINE rest == Rest(pr, m, c, at, 4)[2]
    <2>1. TgtAddr(pr, m, c, at) = Indirect(pr, m, c[1].v, rest)
      BY <1>5 DEF TgtAddr
    <2>2. rest \in Value
      <3>1. 2 \in DOMAIN c
        BY <1>1, <1>5
      <3>2. Rest(pr, m, c, at, 4) \in [DOMAIN c -> Value]
        BY RestMeans DEF Sizes
      <3> QED BY <3>1, <3>2
    <2> HIDE DEF rest
    <2> QED BY <1>2, <2>1, <2>2, IndirectType
  <1> QED BY <1>1, <1>3, <1>4, <1>5

-----------------------------------------------------------------------------
(* dispatch(). *)

\* The kinds of operations exclude each other.
LEMMA Kinds ==
  ASSUME NEW op
  PROVE  /\ op \in ComputeOps =>
              op \notin BranchIfOps \cup SysOps \cup JumpOps \cup LinkOps \cup {"EXIT", "NOP"}
         /\ op \in BranchIfOps =>
              op \notin ComputeOps \cup SysOps \cup JumpOps \cup LinkOps \cup {"EXIT", "NOP"}
         /\ op \in SysOps =>
              op \notin ComputeOps \cup BranchIfOps \cup JumpOps \cup LinkOps \cup {"EXIT", "NOP"}
         /\ op \in JumpOps \cup LinkOps \cup {"EXIT", "NOP"} =>
              op \notin ComputeOps \cup BranchIfOps \cup SysOps
  BY SysArityDomain
  DEF ComputeOps, UnaryOps, LoadOps, StoreOps, BinaryOps, DivOps, TestOps, LongOps, MoveIfOps,
      VarSrcOps, BranchIfOps, SysOps, SysNames, JumpOps, LinkOps

LEMMA DispatchComputes ==
  ASSUME NEW op \in ComputeOps, NEW s, NEW nt, NEW p
  PROVE  Dispatch(op, s, nt, p) =
           {Outcome(AluError(op, s), IF AluError(op, s) = "OK" THEN Results(op, s) ELSE <<>>, p)}
  <1>1. op \notin BranchIfOps \cup SysOps \cup {"BR", "JMP", "BR_LNK", "JMP_LNK", "EXIT", "NOP"}
    BY Kinds DEF JumpOps, LinkOps
  <1> QED BY <1>1, SMT DEF Dispatch

LEMMA DispatchBranches ==
  ASSUME NEW op \in BranchIfOps, NEW s, NEW nt, NEW p
  PROVE  Dispatch(op, s, nt, p) = {Outcome("OK", <<>>, IF Holds(op, s) THEN p + s[3] ELSE p)}
  <1>1. op \notin ComputeOps \cup SysOps \cup {"BR", "JMP", "BR_LNK", "JMP_LNK", "EXIT", "NOP"}
    BY Kinds DEF JumpOps, LinkOps
  <1> QED BY <1>1, SMT DEF Dispatch

LEMMA DispatchCalls ==
  ASSUME NEW op \in SysOps, NEW s, NEW nt, NEW p
  PROVE  Dispatch(op, s, nt, p) = Call(s, nt, p)
  <1>1. op \notin ComputeOps \cup BranchIfOps
             \cup {"BR", "JMP", "BR_LNK", "JMP_LNK", "EXIT", "NOP"}
    BY Kinds DEF JumpOps, LinkOps
  <1> QED BY <1>1, SMT DEF Dispatch

LEMMA OtherOps ==
  ASSUME NEW op \in {"BR", "BR_LNK", "JMP", "JMP_LNK", "EXIT", "NOP"}
  PROVE  op \notin ComputeOps /\ op \notin BranchIfOps /\ op \notin SysOps
  BY Kinds DEF JumpOps, LinkOps

LEMMA DispatchBr ==
  ASSUME NEW s, NEW nt, NEW p
  PROVE  Dispatch("BR", s, nt, p) = {Outcome("OK", <<>>, p + s[1])}
  BY OtherOps, SMT DEF Dispatch

LEMMA DispatchBrLnk ==
  ASSUME NEW s, NEW nt, NEW p
  PROVE  Dispatch("BR_LNK", s, nt, p) = {Outcome("OK", <<Wrap(p)>>, p + s[1])}
  BY OtherOps, SMT DEF Dispatch

LEMMA DispatchJmp ==
  ASSUME NEW s, NEW nt, NEW p
  PROVE  Dispatch("JMP", s, nt, p) = {Outcome("OK", <<>>, s[1])}
  BY OtherOps, SMT DEF Dispatch

LEMMA DispatchJmpLnk ==
  ASSUME NEW s, NEW nt, NEW p
  PROVE  Dispatch("JMP_LNK", s, nt, p) = {Outcome("OK", <<Wrap(p)>>, s[1])}
  BY OtherOps, SMT DEF Dispatch

LEMMA DispatchExit ==
  ASSUME NEW s, NEW nt, NEW p
  PROVE  Dispatch("EXIT", s, nt, p) = {Outcome("EXIT", <<>>, p)}
  BY OtherOps, SMT DEF Dispatch

LEMMA DispatchNop ==
  ASSUME NEW s, NEW nt, NEW p
  PROVE  Dispatch("NOP", s, nt, p) = {Outcome("OK", <<>>, p)}
  BY OtherOps, SMT DEF Dispatch

\* The operands that dispatch() gets fit the operation.
Fits(op, s, nt) ==
  /\ op \notin VarSrcOps \cup {"SYS"} => Len(s) = Arity(op)[2]
  /\ op # "SYS" => nt = Arity(op)[1]

LEMMA OutcomeIs ==
  ASSUME NEW e, NEW r, NEW p \in Int
  PROVE  /\ Outcome(e, r, p).err = e /\ Outcome(e, r, p).results = r
         /\ Outcome(e, r, p).pc \in Addrs /\ Outcome(e, r, p).pc = Unsigned(p)
  BY UnsignedType DEF Outcome

LEMMA DispatchType ==
  ASSUME NEW op \in Ops, NEW s \in Seq(Words), NEW nt \in Nat, NEW p \in Addrs,
         Fits(op, s, nt), NEW o \in Dispatch(op, s, nt, p)
  PROVE  /\ o.pc \in Addrs /\ o.err \in Errors /\ o.results \in Seq(Words)
         /\ o.err \notin {"BAD_VARINT", "BAD_ADDR", "UNKNOWN_OPCODE"}
         /\ o.err = "OK" => Len(o.results) = nt
         /\ o.err = "EXIT" => s[1] \in Words
  <1>1. Len(s) \in Nat /\ p \in Int /\ p \in Nat
    BY AddrRange
  <1>0. <<>> \in Seq(Words) /\ Len(<<>>) = 0
    OBVIOUS
  <1>2. CASE op \in ComputeOps
    <2> DEFINE e == AluError(op, s)
               r == IF e = "OK" THEN Results(op, s) ELSE <<>>
    <2>1. o = Outcome(e, r, p)
      <3>1. Dispatch(op, s, nt, p) = {Outcome(e, r, p)}
        BY <1>2, DispatchComputes
      <3> HIDE DEF e, r
      <3> QED BY <3>1
    <2>2. e \in {"OK", "BAD_OPERAND", "ZERO_DIVISION", "INTEGER_OVERFLOW"}
      BY DEF AluError
    <2>3. ASSUME e = "OK" PROVE Results(op, s) \in Seq(Words) /\ Len(Results(op, s)) = nt
      <3>1. op # "SYS"
        BY <1>2 DEF ComputeOps, UnaryOps, LoadOps, StoreOps, BinaryOps, DivOps, TestOps,
                    LongOps, MoveIfOps, VarSrcOps
      <3>2. FitsSources(op, s)
        BY <3>1 DEF FitsSources, Fits
      <3> QED BY <1>2, <2>3, <3>1, <3>2, ResultsType DEF Fits
    <2> HIDE DEF e
    <2>4. r \in Seq(Words) /\ (e = "OK" => Len(r) = nt)
      BY <1>0, <2>3
    <2> HIDE DEF r
    <2>5. /\ o.err = e /\ o.results = r /\ o.pc \in Addrs
      BY <1>1, <2>1, OutcomeIs
    <2> QED BY <2>2, <2>4, <2>5 DEF Errors
  <1>3. CASE op \in BranchIfOps
    <2>1. op \notin VarSrcOps \cup {"SYS"} /\ Arity(op) = <<0, 3>>
      BY <1>3, ArityOfBranch DEF BranchIfOps, VarSrcOps
    <2>2. nt = 0 /\ Len(s) = 3
      BY <2>1 DEF Fits
    <2>3. s[3] \in Int
      BY <2>2, ArgInWords, 3 \in 1 .. 3
    <2> DEFINE q == IF Holds(op, s) THEN p + s[3] ELSE p
    <2>6. Dispatch(op, s, nt, p) = {Outcome("OK", <<>>, q)}
      BY <1>3, DispatchBranches
    <2>4. o = Outcome("OK", <<>>, q) /\ q \in Int
      BY <1>1, <2>3, <2>6
    <2> HIDE DEF q
    <2>5. o.err = "OK" /\ o.results = <<>> /\ o.pc \in Addrs
      BY <2>4, OutcomeIs
    <2> QED BY <1>0, <2>2, <2>5 DEF Errors
  <1>4. CASE op \in JumpOps \cup LinkOps \cup {"EXIT"}
    <2>1. op \notin VarSrcOps \cup {"SYS"} /\ Arity(op)[2] = 1
      BY <1>4, ArityOfJump, ArityOfOne DEF JumpOps, LinkOps, VarSrcOps
    <2>2. nt = Arity(op)[1] /\ Len(s) = 1
      BY <2>1 DEF Fits
    <2>3. s[1] \in Int /\ s[1] \in Words /\ p + s[1] \in Int
      <3>1. 1 \in 1 .. Len(s)
        BY <2>2
      <3>2. s[1] \in Int /\ s[1] \in Words
        BY <3>1, ArgInWords
      <3> QED BY <1>1, <3>2
    <2>4. Wrap(p) \in Words
      BY <1>1, WrapType
    <2>5. <<Wrap(p)>> \in Seq(Words) /\ Len(<<Wrap(p)>>) = 1
      BY <2>4
    <2>6. CASE op \in LinkOps
      <3>1. nt = 1
        BY <2>2, <2>6, ArityOfOne
      <3>2. o.err = "OK" /\ o.results = <<Wrap(p)>> /\ o.pc \in Addrs
        <4>1. CASE op = "BR_LNK"
          <5>1. o = Outcome("OK", <<Wrap(p)>>, p + s[1])
            <6>1. Dispatch("BR_LNK", s, nt, p) = {Outcome("OK", <<Wrap(p)>>, p + s[1])}
              BY DispatchBrLnk
            <6> QED BY <6>1, <4>1
          <5> QED BY <2>3, <5>1, OutcomeIs
        <4>2. CASE op = "JMP_LNK"
          <5>1. o = Outcome("OK", <<Wrap(p)>>, s[1])
            <6>1. Dispatch("JMP_LNK", s, nt, p) = {Outcome("OK", <<Wrap(p)>>, s[1])}
              BY DispatchJmpLnk
            <6> QED BY <6>1, <4>2
          <5> QED BY <2>3, <5>1, OutcomeIs
        <4> QED BY <2>6, <4>1, <4>2 DEF LinkOps
      <3> QED BY <2>5, <3>1, <3>2 DEF Errors
    <2>7. CASE op \in JumpOps
      <3>1. nt = 0
        BY <2>2, <2>7, ArityOfJump
      <3>2. o.err = "OK" /\ o.results = <<>> /\ o.pc \in Addrs
        <4>1. CASE op = "BR"
          <5>1. o = Outcome("OK", <<>>, p + s[1])
            <6>1. Dispatch("BR", s, nt, p) = {Outcome("OK", <<>>, p + s[1])}
              BY DispatchBr
            <6> QED BY <6>1, <4>1
          <5> QED BY <2>3, <5>1, OutcomeIs
        <4>2. CASE op = "JMP"
          <5>1. o = Outcome("OK", <<>>, s[1])
            <6>1. Dispatch("JMP", s, nt, p) = {Outcome("OK", <<>>, s[1])}
              BY DispatchJmp
            <6> QED BY <6>1, <4>2
          <5> QED BY <2>3, <5>1, OutcomeIs
        <4> QED BY <2>7, <4>1, <4>2 DEF JumpOps
      <3> QED BY <1>0, <3>1, <3>2 DEF Errors
    <2>8. CASE op = "EXIT"
      <3>2. o.err = "EXIT" /\ o.results = <<>> /\ o.pc \in Addrs
        <4>1. o = Outcome("EXIT", <<>>, p)
          <5>1. Dispatch("EXIT", s, nt, p) = {Outcome("EXIT", <<>>, p)}
            BY DispatchExit
          <5> QED BY <5>1, <2>8
        <4> QED BY <1>1, <4>1, OutcomeIs
      <3> QED BY <1>0, <2>3, <3>2 DEF Errors
    <2> QED BY <1>4, <2>6, <2>7, <2>8
  <1>5. CASE op = "NOP"
    <2>1. nt = 0
      BY <1>5, ArityOfNop DEF Fits
    <2>2. o.err = "OK" /\ o.results = <<>> /\ o.pc \in Addrs
      <3>1. o = Outcome("OK", <<>>, p)
        <4>1. Dispatch("NOP", s, nt, p) = {Outcome("OK", <<>>, p)}
          BY DispatchNop
        <4> QED BY <4>1, <1>5
      <3> QED BY <1>1, <3>1, OutcomeIs
    <2> QED BY <1>0, <2>1, <2>2 DEF Errors
  <1>6. CASE op \in SysOps
    <2>1. o \in Call(s, nt, p)
      BY <1>6, DispatchCalls
    <2>2. CASE s = <<>> \/ s[1] \notin Funcs
      <3>1. \E e \in {"BAD_OPERAND", "UNKNOWN_FUNC"} : o = Outcome(e, <<>>, p)
        BY <2>1, <2>2 DEF Call
      <3>2. /\ o.err \in {"BAD_OPERAND", "UNKNOWN_FUNC"} /\ o.results = <<>>
            /\ o.pc \in Addrs
        BY <1>1, <3>1, OutcomeIs
      <3> QED BY <1>0, <3>2 DEF Errors
    <2>3. CASE s # <<>> /\ s[1] \in Funcs
      <3>1. PICK r \in [1 .. nt -> HostWords] : o = Outcome("OK", r, p)
        BY <2>1, <2>3 DEF Call
      <3>2. r \in Seq(Words) /\ Len(r) = nt
        BY HostAssumption
      <3>3. o.err = "OK" /\ o.results = r /\ o.pc \in Addrs
        BY <1>1, <3>1, OutcomeIs
      <3> QED BY <3>2, <3>3 DEF Errors
    <2> QED BY <2>2, <2>3
  <1> QED BY <1>2, <1>3, <1>4, <1>5, <1>6 DEF Ops

-----------------------------------------------------------------------------
(* The type invariant needs to know how far the decoding is: an operand is *)
(* an element of the instruction, and the counts bound how many are read.  *)

Decoded == {"ntgts", "tgts", "nsrcs", "rmw", "srcs", "dispatch", "write"}

\* The operands read so far are the first ones of the current instruction.
OperandInv ==
  /\ WellFormed(inst)
  /\ st \in Decoded => inst.op \in Ops
  /\ ntgts \in {0, Len(inst.tgts)} /\ (~VarTgts(inst.op) => ntgts = Len(inst.tgts))
  /\ nsrcs \in {0, Len(inst.srcs)} /\ (~VarSrcs(inst.op) => nsrcs = Len(inst.srcs))
  /\ tgts \in Seq(Addrs) /\ srcs \in Seq(Words) /\ results \in Seq(Words)
  /\ st \in {"nsrcs", "rmw", "srcs", "dispatch", "write"} => Len(tgts) = ntgts
  /\ st \in {"dispatch", "write"} => Len(srcs) = nsrcs
  /\ st = "write" => Len(results) = ntgts
  /\ (st = "ntgts" => VarTgts(inst.op)) /\ (st = "nsrcs" => VarSrcs(inst.op))

MachineInv ==
  /\ ram \in RamType /\ ram0 \in RamType
  /\ pc \in Addrs /\ pc0 \in Addrs /\ exit_rc \in Words /\ exit0 \in Words
  /\ st \in Places /\ err \in Errors /\ rc \in Errors /\ faulted \in BOOLEAN
  /\ w \in 0 .. ntgts

TypeInv == CodeInv /\ RamInv /\ BufferInv /\ OperandInv /\ MachineInv

LEMMA NopIsWellFormed ==
  /\ WellFormed(NopInst) /\ NopInst.op \in Ops
  /\ Len(NopInst.tgts) = 0 /\ Len(NopInst.srcs) = 0
  /\ NopInst.tgts = <<>> /\ NopInst.srcs = <<>> /\ ~NopInst.m
  <1>1. /\ NopInst.op = "NOP" /\ NopInst.tgts = <<>> /\ NopInst.srcs = <<>>
        /\ ~NopInst.m /\ "NOP" \in Ops
    BY DEF NopInst, Ops
  <1>2. Len(<<>>) = 0 /\ DOMAIN <<>> = {}
    OBVIOUS
  <1>3. WellFormed(NopInst)
    <2>1. Len(NopInst.tgts) = Arity(NopInst.op)[1] /\ Len(NopInst.srcs) = Arity(NopInst.op)[2]
      BY <1>1, <1>2, ArityOfNop
    <2> HIDE DEF NopInst
    <2> QED BY <1>1, <1>2, <2>1 DEF WellFormed
  <1> QED BY <1>1, <1>2, <1>3

LEMMA SizesOfAccess == \A op : SrcSize(op) \in Sizes /\ TgtSize(op) \in Sizes
  BY DEF SrcSize, TgtSize, Sizes

LEMMA TypeInvInit == Init => OperandInv /\ MachineInv
  <1> SUFFICES ASSUME Init PROVE OperandInv /\ MachineInv
    OBVIOUS
  <1>1. OperandInv
    <2>1. tgts \in Seq(Addrs) /\ srcs \in Seq(Words) /\ results \in Seq(Words)
      BY DEF Init
    <2> QED BY <2>1, NopIsWellFormed DEF Init, OperandInv, Decoded
  <1>2. MachineInv
    <2>1. ram \in RamType
      BY RamsAssumption DEF Init, RamType
    <2>2. pc \in Addrs /\ pc0 \in Addrs /\ exit_rc \in Words /\ exit0 \in Words
      BY MapAssumption, WordsAreIntegers DEF Init
    <2>3. /\ st \in Places /\ err \in Errors /\ rc \in Errors /\ faulted \in BOOLEAN
          /\ w \in 0 .. ntgts
      <3>1. st = "fetch" /\ err = "OK" /\ rc = "OK" /\ w = 0 /\ ntgts = 0
        BY DEF Init
      <3>2. faulted \in BOOLEAN
        BY Zenon DEF Init
      <3> QED BY <3>1, <3>2 DEF Places, Errors
    <2>4. ram0 = ram
      BY DEF Init
    <2> QED BY <2>1, <2>2, <2>3, <2>4 DEF MachineInv
  <1> QED BY <1>1, <1>2

\* Errors of reads and counts are errors.
LEMMA NoteType ==
  ASSUME NEW r, r.faults \in SUBSET CellFaults, Note(r), err \in Errors, faulted \in BOOLEAN
  PROVE  err' \in Errors /\ faulted' \in BOOLEAN
  BY DEF Note, CellFaults, Errors

LEMMA CountFaultsType ==
  ASSUME NEW n \in Nat
  PROVE  CountRead(n).faults \in SUBSET CellFaults /\ CountRead(n).v \in {0, n}
  BY DEF CountRead, MissingCell, CellFaults

LEMMA AdvanceType ==
  ASSUME NEW n \in Int, Advance(n), pc \in Addrs
  PROVE  pc' \in Addrs
  BY UnsignedType, AddrRange DEF Advance

\* The opcode.
LEMMA TypeInvFetch ==
  ASSUME TypeInv, CodeInv', RamInv', FetchUnmapped \/ FetchUndefined \/ FetchInst
  PROVE  OperandInv' /\ MachineInv'
  <1>1. Fetch /\ MachineInv /\ CodeInv /\ OperandInv
    BY DEF TypeInv, FetchUnmapped, FetchUndefined, FetchInst
  <1>2. /\ ram' = ram /\ ram0' = ram0 /\ pc0' = pc0 /\ exit_rc' = exit_rc /\ exit0' = exit0
        /\ prog' = prog /\ tgts' = <<>> /\ srcs' = <<>> /\ results' = <<>> /\ w' = 0
        /\ st = "fetch"
    BY <1>1 DEF Fetch, fixedVars, hostVars
  <1>3. pc' \in Addrs
    BY <1>1, AdvanceType DEF Fetch, MachineInv
  <1>4. tgts' \in Seq(Addrs) /\ srcs' \in Seq(Words) /\ results' \in Seq(Words)
        /\ Len(tgts') = 0 /\ Len(srcs') = 0
    BY <1>2
  <1>5. w' \in 0 .. ntgts'
    BY <1>2 DEF CodeInv
  <1>6. ASSUME st' \in Places, err' \in Errors, rc' \in Errors, faulted' \in BOOLEAN
        PROVE  MachineInv'
    BY <1>1, <1>2, <1>3, <1>5, <1>6 DEF MachineInv
  <1>7. CASE FetchUnmapped
    <2>1. MachineInv'
      BY <1>1, <1>6, <1>7 DEF FetchUnmapped, Places, Errors, MachineInv
    <2>2. OperandInv'
      BY <1>4, <1>7, NopIsWellFormed DEF FetchUnmapped, OperandInv, Decoded
    <2> QED BY <2>1, <2>2
  <1>8. CASE FetchUndefined
    <2>1. MachineInv'
      BY <1>6, <1>8 DEF FetchUndefined, Return, Places, Errors
    <2>2. OperandInv'
      BY <1>1, <1>4, <1>8 DEF FetchUndefined, Return, OperandInv, Decoded, decodeVars
    <2> QED BY <2>1, <2>2
  <1>9. CASE FetchInst
    <2>1. MachineInv'
      <3>1. st' \in Places
        BY <1>9 DEF FetchInst, Places
      <3> QED BY <1>1, <1>6, <1>9, <3>1 DEF FetchInst, Errors, MachineInv
    <2>2. inst' \in Instr /\ WellFormed(inst') /\ inst'.op \in Ops
      <3>1. PICK k \in At(prog, pc) : inst' = prog.insts[k]
        BY <1>9 DEF FetchInst
      <3>2. inst' \in Instr /\ WellFormed(inst')
        BY <1>1, <3>1, ProgramType DEF CodeInv, At
      <3> QED BY <1>9, <3>2 DEF FetchInst, Instr
    <2>3. st' \in {"ntgts", "tgts"} /\ ntgts' = Len(inst'.tgts) /\ nsrcs' = Len(inst'.srcs)
          /\ (st' = "ntgts" => VarTgts(inst'.op))
      BY <1>9 DEF FetchInst
    <2>4. OperandInv'
      BY <1>4, <2>2, <2>3 DEF OperandInv
    <2> QED BY <2>1, <2>4
  <1> QED BY <1>7, <1>8, <1>9

\* What decoding leaves alone.
LEMMA TypeInvDecoding ==
  ASSUME TypeInv, Decoding, RamInv', w <= ntgts', ntgts' \in Nat,
         pc' \in Addrs, st' \in Places, err' \in Errors, rc' \in Errors, faulted' \in BOOLEAN
  PROVE  MachineInv'
  BY DEF TypeInv, MachineInv, Decoding, fixedVars, hostVars

LEMMA TypeInvCounts ==
  ASSUME TypeInv, CodeInv', RamInv', CountTgts \/ CountSrcs
  PROVE  OperandInv' /\ MachineInv'
  <1> USE DEF TypeInv
  <1>0. /\ pc \in Addrs /\ err \in Errors /\ rc \in Errors /\ faulted \in BOOLEAN
        /\ ntgts \in Nat /\ nsrcs \in Nat
    BY DEF MachineInv, CodeInv
  <1>1. CASE CountTgts
    <2> DEFINE c == CountRead(ntgts)
    <2>1. c.faults \in SUBSET CellFaults /\ c.v \in {0, ntgts}
      BY <1>0, CountFaultsType
    <2>2. /\ st = "ntgts" /\ Decoding /\ Advance(1) /\ ntgts' = c.v
          /\ nsrcs' = nsrcs /\ tgts' = tgts /\ srcs' = srcs
          /\ \/ c.v > MaxTgts /\ err' = "BAD_OPERAND" /\ Return(err') /\ UNCHANGED faulted
             \/ c.v <= MaxTgts /\ Note(c) /\ st' = "tgts" /\ UNCHANGED rc
      BY <1>0, <1>1, <2>1, LimitsAssumption DEF CountTgts
    <2> HIDE DEF c
    <2>3. pc' \in Addrs
      BY <1>0, <2>2, AdvanceType
    <2>4. /\ st' \in {"tgts", "returned"} /\ err' \in Errors /\ rc' \in Errors
          /\ faulted' \in BOOLEAN
      BY <1>0, <2>1, <2>2, NoteType DEF Return, Errors
    <2>5. w = 0
      BY <2>2 DEF RamInv, Before
    <2>6. MachineInv'
      BY <1>0, <2>1, <2>2, <2>3, <2>4, <2>5, TypeInvDecoding DEF Places
    <2>7. OperandInv'
      <3>1. /\ inst' = inst /\ results' = results
        BY <2>2 DEF Decoding
      <3>2. ntgts' \in {0, Len(inst.tgts)} /\ (~VarTgts(inst.op) => ntgts' = Len(inst.tgts))
        <4>1. ntgts \in {0, Len(inst.tgts)}
          BY DEF OperandInv
        <4>2. VarTgts(inst.op)
          BY <2>2 DEF OperandInv
        <4> QED BY <2>1, <2>2, <4>1, <4>2
      <3> QED BY <2>2, <2>4, <3>1, <3>2 DEF OperandInv, Decoded
    <2> QED BY <2>6, <2>7
  <1>2. CASE CountSrcs
    <2> DEFINE c == CountRead(nsrcs)
    <2>1. c.faults \in SUBSET CellFaults /\ c.v \in {0, nsrcs}
      BY <1>0, CountFaultsType
    <2>2. /\ st = "nsrcs" /\ Decoding /\ Advance(1) /\ nsrcs' = c.v
          /\ ntgts' = ntgts /\ tgts' = tgts /\ srcs' = srcs
          /\ \/ c.v > MaxSrcs /\ err' = "BAD_OPERAND" /\ Return(err') /\ UNCHANGED faulted
             \/ c.v <= MaxSrcs /\ Note(c) /\ st' = "rmw" /\ UNCHANGED rc
      BY <1>0, <1>2, <2>1, LimitsAssumption DEF CountSrcs
    <2> HIDE DEF c
    <2>3. pc' \in Addrs
      BY <1>0, <2>2, AdvanceType
    <2>4. /\ st' \in {"rmw", "returned"} /\ err' \in Errors /\ rc' \in Errors
          /\ faulted' \in BOOLEAN
      BY <1>0, <2>1, <2>2, NoteType DEF Return, Errors
    <2>5. w = 0
      BY <2>2 DEF RamInv, Before
    <2>6. MachineInv'
      BY <1>0, <2>1, <2>2, <2>3, <2>4, <2>5, TypeInvDecoding DEF Places
    <2>7. OperandInv'
      <3>1. inst' = inst /\ results' = results
        BY <2>2 DEF Decoding
      <3>2. nsrcs' \in {0, Len(inst.srcs)} /\ (~VarSrcs(inst.op) => nsrcs' = Len(inst.srcs))
        <4>1. nsrcs \in {0, Len(inst.srcs)}
          BY DEF OperandInv
        <4>2. VarSrcs(inst.op)
          BY <2>2 DEF OperandInv
        <4> QED BY <2>1, <2>2, <4>1, <4>2
      <3> QED BY <2>2, <2>4, <3>1, <3>2 DEF OperandInv, Decoded
    <2> QED BY <2>6, <2>7
  <1> QED BY <1>1, <1>2

\* The operands that remain to be read are operands of the instruction.
LEMMA NextTgt ==
  ASSUME TypeInv, Len(tgts) < ntgts
  PROVE  /\ Len(tgts) \in Nat /\ Len(tgts) + 1 \in 1 .. ntgts
         /\ Len(tgts) + 1 \in DOMAIN inst.tgts
         /\ inst.tgts[Len(tgts) + 1] \in Seq(Cell)
         /\ IsOperand(inst.tgts[Len(tgts) + 1], {"mem"})
         /\ Len(inst.tgts[Len(tgts) + 1]) \in Nat
  <1>1. /\ inst.tgts \in Seq(Seq(Cell)) /\ WellFormed(inst) /\ tgts \in Seq(Addrs)
        /\ ntgts \in {0, Len(inst.tgts)} /\ ntgts \in Nat
    BY DEF TypeInv, OperandInv, CodeInv, Instr
  <1>2. Len(tgts) \in Nat /\ Len(tgts) + 1 \in 1 .. ntgts /\ Len(inst.tgts) \in Nat
        /\ Len(tgts) + 1 \in DOMAIN inst.tgts
    BY <1>1
  <1>3. IsOperand(inst.tgts[Len(tgts) + 1], {"mem"})
    BY <1>1, <1>2 DEF WellFormed
  <1>4. inst.tgts[Len(tgts) + 1] \in Seq(Cell)
    BY <1>1, <1>2
  <1> QED BY <1>2, <1>3, <1>4

LEMMA NextSrc ==
  ASSUME TypeInv, Len(srcs) < nsrcs
  PROVE  /\ Len(srcs) \in Nat /\ Len(srcs) + 1 \in 1 .. nsrcs
         /\ Len(srcs) + 1 \in DOMAIN inst.srcs
         /\ inst.srcs[Len(srcs) + 1] \in Seq(Cell)
         /\ IsOperand(inst.srcs[Len(srcs) + 1], {"mem", "imm"})
         /\ Len(inst.srcs[Len(srcs) + 1]) \in Nat
  <1>1. /\ inst.srcs \in Seq(Seq(Cell)) /\ WellFormed(inst) /\ srcs \in Seq(Words)
        /\ nsrcs \in {0, Len(inst.srcs)} /\ nsrcs \in Nat
    BY DEF TypeInv, OperandInv, CodeInv, Instr
  <1>2. Len(srcs) \in Nat /\ Len(srcs) + 1 \in 1 .. nsrcs /\ Len(inst.srcs) \in Nat
        /\ Len(srcs) + 1 \in DOMAIN inst.srcs
    BY <1>1
  <1>3. IsOperand(inst.srcs[Len(srcs) + 1], {"mem", "imm"})
    BY <1>1, <1>2 DEF WellFormed
  <1>4. inst.srcs[Len(srcs) + 1] \in Seq(Cell)
    BY <1>1, <1>2
  <1> QED BY <1>2, <1>3, <1>4

LEMMA TypeInvReads ==
  ASSUME TypeInv, CodeInv', RamInv', ReadTgt \/ ReadSrc \/ Rmw
  PROVE  OperandInv' /\ MachineInv'
  <1>0. /\ pc \in Addrs /\ pc \in Int /\ err \in Errors /\ rc \in Errors /\ faulted \in BOOLEAN
        /\ ntgts \in Nat /\ nsrcs \in Nat /\ ram \in RamType /\ prog \in Programs
        /\ st \in Places /\ tgts \in Seq(Addrs) /\ srcs \in Seq(Words)
    BY AddrRange DEF TypeInv, MachineInv, CodeInv, OperandInv
  <1>1. CASE ReadTgt
    <2> DEFINE c == inst.tgts[Len(tgts) + 1]
               r == TgtAddr(prog, ram, c, pc)
    <2>1. /\ st = "tgts" /\ Len(tgts) < ntgts /\ Decoding
          /\ tgts' = Append(tgts, r.v) /\ Note(r) /\ Advance(Len(c))
          /\ ntgts' = ntgts /\ nsrcs' = nsrcs /\ srcs' = srcs /\ st' = st /\ rc' = rc
      BY <1>1 DEF ReadTgt
    <2>2. c \in Seq(Cell) /\ IsOperand(c, {"mem"}) /\ Len(c) \in Int
      BY <2>1, NextTgt
    <2> HIDE DEF c
    <2>3. r.v \in Addrs /\ r.faults \in SUBSET CellFaults
      BY <1>0, <2>2, TgtAddrType
    <2> HIDE DEF r
    <2>4. err' \in Errors /\ faulted' \in BOOLEAN /\ pc' \in Addrs
      BY <1>0, <2>1, <2>2, <2>3, NoteType, AdvanceType
    <2>5. w = 0
      BY <2>1 DEF TypeInv, RamInv, Before
    <2>6. MachineInv'
      BY <1>0, <2>1, <2>4, <2>5, TypeInvDecoding
    <2>7. tgts' \in Seq(Addrs)
      BY <1>0, <2>1, <2>3
    <2>8. OperandInv'
      BY <2>1, <2>7 DEF TypeInv, OperandInv, Decoded, Decoding
    <2> QED BY <2>6, <2>8
  <1>2. CASE ReadSrc
    <2> DEFINE c == inst.srcs[Len(srcs) + 1]
               r == SrcValue(prog, ram, c, pc, SrcSize(inst.op))
    <2>1. /\ st = "srcs" /\ Len(srcs) < nsrcs /\ Decoding
          /\ srcs' = Append(srcs, r.v) /\ Note(r) /\ Advance(Len(c))
          /\ ntgts' = ntgts /\ nsrcs' = nsrcs /\ tgts' = tgts /\ st' = st /\ rc' = rc
      BY <1>2 DEF ReadSrc
    <2>2. c \in Seq(Cell) /\ IsOperand(c, {"mem", "imm"}) /\ Len(c) \in Int
      BY <2>1, NextSrc
    <2> HIDE DEF c
    <2>3. r \in Value
      BY <1>0, <2>2, SrcValueType, SizesOfAccess
    <2> HIDE DEF r
    <2>9. r.v \in Words /\ r.faults \in SUBSET CellFaults
      BY <2>3 DEF Value
    <2>4. err' \in Errors /\ faulted' \in BOOLEAN /\ pc' \in Addrs
      BY <1>0, <2>1, <2>2, <2>9, NoteType, AdvanceType
    <2>5. w = 0
      BY <2>1 DEF TypeInv, RamInv, Before
    <2>6. MachineInv'
      BY <1>0, <2>1, <2>4, <2>5, TypeInvDecoding
    <2>7. srcs' \in Seq(Words)
      BY <1>0, <2>1, <2>9
    <2>8. OperandInv'
      BY <2>1, <2>7 DEF TypeInv, OperandInv, Decoded, Decoding
    <2> QED BY <2>6, <2>8
  <1>3. CASE Rmw
    <2> DEFINE a == [v |-> tgts[1], faults |-> {}]
               r == ReadAt(prog, ram, a, SrcSize(inst.op))
    <2>1. /\ st = "rmw" /\ ntgts > 0 /\ Decoding /\ st' = "srcs"
          /\ srcs' = <<r.v>> /\ Note(r)
          /\ ntgts' = ntgts /\ nsrcs' = nsrcs /\ tgts' = tgts /\ pc' = pc /\ rc' = rc
      BY <1>3 DEF Rmw
    <2>2. a.v \in Addrs /\ a.faults \in SUBSET CellFaults
      <3>1. Len(tgts) = ntgts
        BY <2>1 DEF TypeInv, OperandInv
      <3>2. tgts[1] \in Addrs
        BY <1>0, <2>1, <3>1
      <3> QED BY <3>2
    <2> HIDE DEF a
    <2>3. r \in Value
      BY <1>0, <2>2, ReadAtType, SizesOfAccess
    <2> HIDE DEF r
    <2>9. r.v \in Words /\ r.faults \in SUBSET CellFaults
      BY <2>3 DEF Value
    <2>4. err' \in Errors /\ faulted' \in BOOLEAN
      BY <1>0, <2>1, <2>9, NoteType
    <2>5. w = 0
      BY <2>1 DEF TypeInv, RamInv, Before
    <2>6. MachineInv'
      BY <1>0, <2>1, <2>4, <2>5, TypeInvDecoding DEF Places
    <2>7. srcs' \in Seq(Words)
      BY <2>1, <2>9
    <2>8. OperandInv'
      BY <2>1, <2>7 DEF TypeInv, OperandInv, Decoded, Decoding
    <2> QED BY <2>6, <2>8
  <1> QED BY <1>1, <1>2, <1>3

\* Places that are passed without an access.
LEMMA TypeInvChecks ==
  ASSUME TypeInv, CodeInv', RamInv',
         TgtsRead \/ NoRmw \/ RmwWithoutOperand \/ SrcsRead
  PROVE  OperandInv' /\ MachineInv'
  <1>0. /\ pc \in Addrs /\ err \in Errors /\ rc \in Errors /\ faulted \in BOOLEAN
        /\ ntgts \in Nat /\ nsrcs \in Nat
    BY DEF TypeInv, MachineInv, CodeInv
  <1>1. /\ Decoding /\ ntgts' = ntgts /\ nsrcs' = nsrcs /\ tgts' = tgts /\ srcs' = srcs
        /\ pc' = pc /\ err' = err /\ faulted' = faulted /\ st \in Before
    BY DEF TgtsRead, NoRmw, RmwWithoutOperand, SrcsRead, Before
  <1>2. w = 0
    BY <1>1 DEF TypeInv, RamInv
  <1>3. st' \in Places /\ rc' \in Errors
    BY <1>0 DEF TgtsRead, NoRmw, RmwWithoutOperand, SrcsRead, Return, Places, Errors
  <1>4. MachineInv'
    BY <1>0, <1>1, <1>2, <1>3, TypeInvDecoding
  <1>5. OperandInv'
    <2>1. CASE TgtsRead
      BY <1>1, <2>1 DEF TgtsRead, TypeInv, OperandInv, Decoded, Decoding
    <2>2. CASE NoRmw
      BY <1>1, <2>2 DEF NoRmw, TypeInv, OperandInv, Decoded, Decoding
    <2>3. CASE RmwWithoutOperand
      BY <1>1, <2>3 DEF RmwWithoutOperand, Return, TypeInv, OperandInv, Decoded, Decoding
    <2>4. CASE SrcsRead
      BY <1>1, <2>4 DEF SrcsRead, Return, TypeInv, OperandInv, Decoded, Decoding
    <2> QED BY <2>1, <2>2, <2>3, <2>4
  <1> QED BY <1>4, <1>5

\* When dispatch() is reached the counts are those of the operation.
LEMMA UndefinedOp == "UNDEF" \notin Ops
  BY SysArityDomain DEF Ops, ComputeOps, UnaryOps, LoadOps, StoreOps, BinaryOps, DivOps,
    TestOps, LongOps, MoveIfOps, VarSrcOps, SysOps, SysNames, JumpOps, LinkOps, BranchIfOps

LEMMA OperandsFit ==
  ASSUME TypeInv, st \in {"dispatch", "write"}
  PROVE  inst.op \in Ops /\ Fits(inst.op, srcs, ntgts) /\ srcs \in Seq(Words) /\ ntgts \in Nat
  <1>1. /\ inst.op \in Ops /\ WellFormed(inst) /\ Len(srcs) = nsrcs /\ srcs \in Seq(Words)
        /\ (~VarTgts(inst.op) => ntgts = Len(inst.tgts))
        /\ (~VarSrcs(inst.op) => nsrcs = Len(inst.srcs))
        /\ ntgts \in Nat
    BY DEF TypeInv, OperandInv, Decoded, CodeInv
  <1>2. inst.op # "UNDEF"
    BY <1>1, UndefinedOp
  <1>3. /\ VarTgts(inst.op) \/ Len(inst.tgts) = Arity(inst.op)[1]
        /\ VarSrcs(inst.op) \/ Len(inst.srcs) = Arity(inst.op)[2]
    BY <1>1, <1>2 DEF WellFormed
  <1>4. Fits(inst.op, srcs, ntgts)
    BY <1>1, <1>3 DEF Fits, VarTgts, VarSrcs
  <1> QED BY <1>1, <1>4

LEMMA TypeInvExecute ==
  ASSUME TypeInv, Execute
  PROVE  OperandInv' /\ MachineInv'
  <1>1. PICK o \in Dispatch(inst.op, srcs, ntgts, pc) :
          /\ Dispatched(o) /\ results' = o.results
          /\ IF err' # "OK" THEN Return(err') ELSE st' = "write" /\ rc' = rc
    BY DEF Execute
  <1>2. /\ st = "dispatch" /\ pc \in Addrs /\ err = "OK" /\ rc \in Errors
        /\ faulted \in BOOLEAN /\ exit_rc \in Words
    BY DEF Execute, TypeInv, MachineInv, RamInv
  <1>3. /\ inst.op \in Ops /\ Fits(inst.op, srcs, ntgts) /\ srcs \in Seq(Words)
        /\ ntgts \in Nat
    BY <1>2, OperandsFit
  <1>4. /\ o.pc \in Addrs /\ o.err \in Errors /\ o.results \in Seq(Words)
        /\ o.err = "OK" => Len(o.results) = ntgts
        /\ o.err = "EXIT" => srcs[1] \in Words
    BY <1>1, <1>2, <1>3, DispatchType
  <1>5. /\ err' = o.err /\ pc' = o.pc
        /\ exit_rc' = (IF o.err = "EXIT" THEN srcs[1] ELSE exit_rc)
        /\ faulted' = (faulted \/ o.err = "UNKNOWN_FUNC")
        /\ prog' = prog /\ ram0' = ram0 /\ pc0' = pc0 /\ exit0' = exit0
        /\ inst' = inst /\ ntgts' = ntgts /\ nsrcs' = nsrcs
        /\ ram' = ram /\ tgts' = tgts /\ srcs' = srcs /\ w' = w
    BY <1>1, <1>2 DEF Dispatched, fixedVars, decodeVars
  <1>6. /\ st' \in {"write", "returned"} /\ rc' \in Errors
        /\ (st' = "write" => o.err = "OK")
    BY <1>1, <1>2, <1>4, <1>5 DEF Return
  <1>7. exit_rc' \in Words
    BY <1>2, <1>4, <1>5
  <1>8. faulted' \in BOOLEAN
    BY <1>5
  <1>9. MachineInv'
    BY <1>4, <1>5, <1>6, <1>7, <1>8 DEF TypeInv, MachineInv, Places
  <1>10. OperandInv'
    BY <1>1, <1>2, <1>4, <1>5, <1>6 DEF TypeInv, OperandInv, Decoded
  <1> QED BY <1>9, <1>10

LEMMA TypeInvWrite ==
  ASSUME TypeInv, Write
  PROVE  OperandInv' /\ MachineInv'
  <1>1. /\ st = "write" /\ st' = st /\ w < ntgts /\ w' = w + 1 /\ ntgts' = ntgts
        /\ prog' = prog /\ ram0' = ram0 /\ pc0' = pc0 /\ exit0' = exit0
        /\ inst' = inst /\ nsrcs' = nsrcs /\ tgts' = tgts /\ srcs' = srcs
        /\ results' = results /\ exit_rc' = exit_rc /\ pc' = pc /\ rc' = rc
    BY DEF Write, fixedVars, decodeVars
  <1>2. /\ w \in Nat /\ ntgts \in Nat /\ tgts \in Seq(Addrs) /\ results \in Seq(Words)
        /\ Len(tgts) = ntgts /\ Len(results) = ntgts /\ ram \in RamType
        /\ err \in Errors /\ faulted \in BOOLEAN
    BY <1>1 DEF TypeInv, RamInv, CodeInv, OperandInv, MachineInv
  <1> DEFINE a == tgts[w + 1]
             v == results[w + 1]
             size == TgtSize(inst.op)
  <1>3. a \in Int /\ v \in Int /\ size \in {1, 2, 4}
    <2>1. w + 1 \in 1 .. Len(tgts) /\ w + 1 \in 1 .. Len(results)
      BY <1>1, <1>2
    <2>2. a \in Addrs /\ v \in Words
      BY <1>2, <2>1
    <2>3. size \in {1, 2, 4}
      BY SizesOfAccess DEF Sizes
    <2> HIDE DEF a, v, size
    <2>4. a \in Int /\ v \in Int
      BY <2>2, AddrRange, WordsAreIntegers
    <2> QED BY <2>3, <2>4
  <1>4. \/ ram' = Store(ram, a, v, size) /\ err' = err /\ faulted' = faulted
        \/ err' = "BAD_ADDR" /\ faulted' = TRUE /\ ram' = ram
    BY DEF Write, Store1
  <1> HIDE DEF a, v, size
  <1>5. Store(ram, a, v, size) \in RamType
    <2>1. (0 .. RamSize - 1) \in SUBSET Int
      OBVIOUS
    <2> QED BY <1>2, <1>3, <2>1, StoreType DEF RamType
  <1>6. ram' \in RamType /\ err' \in Errors /\ faulted' \in BOOLEAN
    BY <1>2, <1>4, <1>5 DEF Errors
  <1>7. w' \in 0 .. ntgts'
    BY <1>1, <1>2
  <1>8. MachineInv'
    BY <1>1, <1>6, <1>7 DEF TypeInv, MachineInv
  <1>9. OperandInv'
    BY <1>1 DEF TypeInv, OperandInv
  <1> QED BY <1>8, <1>9

LEMMA TypeInvReturns ==
  ASSUME TypeInv, Written \/ NextStep \/ RunReturns \/ Rerun
  PROVE  OperandInv' /\ MachineInv'
  <1>1. /\ inst' = inst /\ ntgts' = ntgts /\ nsrcs' = nsrcs /\ tgts' = tgts /\ srcs' = srcs
        /\ results' = results /\ w' = w /\ ram' = ram /\ exit_rc' = exit_rc /\ pc' = pc
        /\ err' = err /\ faulted' = faulted /\ prog' = prog
    BY DEF Written, NextStep, RunReturns, Rerun, fixedVars, decodeVars, dataVars, hostVars
  <1>2. ram0' \in RamType /\ pc0' \in Addrs /\ exit0' \in Words
    BY DEF Written, NextStep, RunReturns, Rerun, fixedVars, TypeInv, MachineInv
  <1>3. st' \in {"returned", "stopped", "fetch"} /\ rc' \in Errors
    BY DEF Written, NextStep, RunReturns, Rerun, Return, TypeInv, MachineInv, Errors
  <1>4. MachineInv'
    BY <1>1, <1>2, <1>3 DEF TypeInv, MachineInv, Places
  <1>5. OperandInv'
    BY <1>1, <1>3 DEF TypeInv, OperandInv, Decoded
  <1> QED BY <1>4, <1>5

LEMMA TypeInvNext == TypeInv /\ [Next]_vars => TypeInv'
  <1> SUFFICES ASSUME TypeInv, [Next]_vars PROVE TypeInv'
    OBVIOUS
  <1>1. CodeInv' /\ RamInv' /\ BufferInv'
    BY CodeInvNext, RamInvNext, BufferInvNext DEF TypeInv
  <1>2. OperandInv' /\ MachineInv'
    <2>1. CASE Stopped \/ UNCHANGED vars
      BY <2>1 DEF Stopped, vars, fixedVars, decodeVars, dataVars, hostVars, TypeInv,
                  OperandInv, MachineInv
    <2> QED
      BY <1>1, <2>1, TypeInvFetch, TypeInvCounts, TypeInvReads, TypeInvChecks,
         TypeInvExecute, TypeInvWrite, TypeInvReturns DEF Next
  <1> QED BY <1>1, <1>2 DEF TypeInv

LEMMA TypeInvIsTypeOK == TypeInv => TypeOK
  <1> SUFFICES ASSUME TypeInv PROVE TypeOK
    OBVIOUS
  <1>1. /\ ram \in RamType /\ ram0 \in [DOMAIN ram -> 0 .. Values(1) - 1]
    BY DEF TypeInv, MachineInv, RamType
  <1>2. /\ tgts \in Seq(Addrs) /\ srcs \in Seq(Words) /\ results \in Seq(Words)
        /\ (st = "write" => Len(results) = ntgts)
    BY DEF TypeInv, OperandInv
  <1>3. /\ \A j \in DOMAIN tgts : tgts[j] \in Addrs
        /\ \A j \in DOMAIN srcs : srcs[j] \in Words
        /\ \A j \in DOMAIN results : results[j] \in Words
    BY <1>2
  <1> QED BY <1>1, <1>2, <1>3 DEF TypeInv, MachineInv, CodeInv, RamType, TypeOK

\* Registers, addresses, the program counter and every operand stay in range,
\* and there is a result for every target that is stored.
THEOREM TypeCorrect == Spec => []TypeOK
  <1>1. Init => TypeInv
    BY CodeInvInit, RamInvInit, BufferInvInit, TypeInvInit DEF TypeInv
  <1> QED BY <1>1, TypeInvNext, TypeInvIsTypeOK, PTL DEF Spec

-----------------------------------------------------------------------------
(* Where the program counter is while an instruction is decoded.           *)

LEMMA UnsignedAdd ==
  ASSUME NEW a \in Int, NEW n \in Int
  PROVE  Unsigned(Unsigned(a) + n) = Unsigned(a + n) /\ Unsigned(Unsigned(a)) = Unsigned(a)
  <1> DEFINE V == Values(4)
             q == a \div V
             r == a % V
             p == (r + n) \div V
             s == (r + n) % V
  <1>1. V \in Nat \ {0}
    BY ByteValues
  <1>2. q \in Int /\ r \in Int /\ a = V * q + r /\ 0 <= r /\ r < V
    BY <1>1, DivMod
  <1>3. p \in Int /\ s \in Int /\ r + n = V * p + s /\ 0 <= s /\ s < V
    <2> HIDE DEF V, r
    <2>1. r + n \in Int
      BY <1>2
    <2> QED BY <1>1, <2>1, DivMod
  <1>6. Unsigned(a) = r /\ Unsigned(r + n) = s
    BY DEF Unsigned
  <1>7. \A v : Unsigned(v) = v % V
    BY DEF Unsigned
  <1> HIDE DEF V, q, r, p, s
  <1>4. (a + n) % V = s
    <2>1. a + n = V * (q + p) + s /\ q + p \in Int /\ a + n \in Int
      BY <1>1, <1>2, <1>3
    <2> QED BY <1>1, <1>3, <2>1, DivModUnique
  <1>5. r % V = r
    <2>1. r = V * 0 + r
      BY <1>1, <1>2
    <2> QED BY <1>1, <1>2, <2>1, DivModUnique
  <1> QED BY <1>4, <1>5, <1>6, <1>7

LEMMA AdvanceFrom ==
  ASSUME NEW a \in Int, NEW n \in Int, pc = Unsigned(a), Advance(n)
  PROVE  pc' = Unsigned(a + n)
  BY UnsignedAdd DEF Advance

LEMMA CellsNext ==
  ASSUME NEW s \in Seq(Seq(Cell)), NEW n \in Nat, n < Len(s)
  PROVE  /\ Cells(s, n + 1) = Cells(s, n) + Len(s[n + 1])
         /\ Cells(s, n) \in Nat /\ Cells(s, n + 1) \in Nat /\ Len(s[n + 1]) \in Nat
         /\ Cells(s, n + 1) <= Cells(s, Len(s))
  <1> DEFINE f == [j \in DOMAIN s |-> Len(s[j])]
             N == Len(s)
  <1>1. N \in Nat /\ DOMAIN s = 1 .. N
    OBVIOUS
  <1>2. ASSUME NEW j \in 1 .. N PROVE f[j] \in Nat /\ f[j] = Len(s[j])
    <2>1. s[j] \in Seq(Cell) /\ j \in DOMAIN s
      BY <1>1
    <2> QED BY <2>1
  <1>3. \A i : Cells(s, i) = SumTo(f, i)
    BY DEF Cells
  <1> HIDE DEF f, N
  <1>4. n < N /\ n + 1 \in 1 .. N /\ n + 1 \in 0 .. N /\ N \in 0 .. N /\ n \in 0 .. N
        /\ n + 1 <= N /\ n <= N
    BY <1>1 DEF N
  <1>5. SumTo(f, n + 1) = SumTo(f, n) + f[n + 1]
    <2>1. N \in Nat /\ n \in Nat /\ n < N
      BY <1>1, <1>4
    <2>2. \A j \in 1 .. N : f[j] \in Int
      BY <1>2
    <2> QED BY <2>1, <2>2, SumToNext
  <1>6. SumTo(f, n) \in Nat /\ SumTo(f, n + 1) \in Nat /\ SumTo(f, n + 1) <= SumTo(f, N)
    BY <1>1, <1>2, <1>4, SumToMonotone
  <1> QED BY <1>2, <1>3, <1>4, <1>5, <1>6 DEF N

\* Leaving out the first element.
LEMMA TailCells ==
  ASSUME NEW s \in Seq(Seq(Cell)), s # <<>>
  PROVE  /\ Cells(Tail(s), Len(Tail(s))) + Len(s[1]) = Cells(s, Len(s))
         /\ Cells(s, 1) = Len(s[1])
  <1> DEFINE t == Tail(s)
             P == {n \in Nat : n <= Len(t) => Cells(t, n) + Len(s[1]) = Cells(s, n + 1)}
  <1>1. /\ t \in Seq(Seq(Cell)) /\ Len(t) = Len(s) - 1 /\ Len(s) \in Nat /\ Len(s) >= 1
        /\ \A i \in 1 .. Len(t) : t[i] = s[i + 1]
        /\ s[1] \in Seq(Cell) /\ Len(s[1]) \in Nat
    OBVIOUS
  <1>2. Cells(s, 0) = 0 /\ Cells(t, 0) = 0
    BY <1>1, CellsType, 0 \in 0 .. Len(s), 0 \in 0 .. Len(t)
  <1>3. Cells(s, 1) = Len(s[1])
    <2>1. Cells(s, 0 + 1) = Cells(s, 0) + Len(s[0 + 1])
      BY <1>1, CellsNext, 0 \in Nat, 0 < Len(s)
    <2> QED BY <1>1, <1>2, <2>1
  <1>4. 0 \in P
    BY <1>1, <1>2, <1>3
  <1>5. ASSUME NEW n \in Nat, n \in P PROVE n + 1 \in P
    <2> SUFFICES ASSUME n + 1 <= Len(t) PROVE Cells(t, n + 1) + Len(s[1]) = Cells(s, (n + 1) + 1)
      OBVIOUS
    <2>1. n < Len(t) /\ n + 1 < Len(s) /\ n + 1 \in Nat /\ n + 1 \in 1 .. Len(t)
      BY <1>1
    <2>2. Cells(t, n + 1) = Cells(t, n) + Len(t[n + 1]) /\ Cells(t, n) \in Nat
          /\ Len(t[n + 1]) \in Nat
      BY <1>1, <2>1, CellsNext
    <2>3. Cells(s, (n + 1) + 1) = Cells(s, n + 1) + Len(s[(n + 1) + 1])
          /\ Cells(s, n + 1) \in Nat
      BY <2>1, CellsNext
    <2>4. t[n + 1] = s[(n + 1) + 1]
      BY <1>1, <2>1
    <2>5. Cells(t, n) + Len(s[1]) = Cells(s, n + 1)
      BY <1>1, <1>5, <2>1
    <2> HIDE DEF t, P
    <2> QED BY <1>1, <2>2, <2>3, <2>4, <2>5
  <1> HIDE DEF P
  <1>6. Len(t) \in P
    <2>1. \A n \in Nat : n \in P
      BY <1>4, <1>5, SetInduction
    <2> QED BY <1>1, <2>1
  <1>7. Len(t) + 1 = Len(s) /\ Len(t) \in Nat
    BY <1>1
  <1>8. Cells(t, Len(t)) + Len(s[1]) = Cells(s, Len(t) + 1)
    BY <1>6, <1>7 DEF P
  <1> QED BY <1>3, <1>7, <1>8

\* Addresses behind the first n targets, and the first n sources, of instruction k.
TgtPos(pr, k, n) ==
  LET x == pr.insts[k] IN StartOf(pr, k) + (1 + Count(VarTgts(x.op)) + Cells(x.tgts, n))
Skipped(x) == IF x.m THEN Len(x.srcs[1]) ELSE 0
SrcPos(pr, k, n) ==
  LET x == pr.insts[k]
  IN  (StartOf(pr, k) + TgtCells(x) + Count(VarSrcs(x.op)) + Cells(x.srcs, n)) - Skipped(x)
\* The first source that is encoded, and the one before it.
FirstSrc(x) == IF x.m THEN 1 ELSE 0

LEMMA CountFacts == \A b : Count(b) \in Nat /\ (b => Count(b) = 1) /\ (~b => Count(b) = 0)
  BY DEF Count

LEMMA InstructionEnds ==
  ASSUME NEW pr \in Programs, NEW k \in DOMAIN pr.insts
  PROVE  /\ StartOf(pr, k) \in Nat /\ Size(pr.insts[k]) \in Nat
         /\ StartOf(pr, k) + Size(pr.insts[k]) <= Values(4)
         /\ CodeEnd(pr) <= Values(4)
         /\ \A a \in Int : StartOf(pr, k) <= a /\ a < StartOf(pr, k) + Size(pr.insts[k])
                             => Unsigned(a) = a
  <1>1. /\ k \in 1 .. Len(pr.insts) /\ Len(pr.insts) \in Nat /\ pr.insts[k] \in Instr
        /\ k \in 1 .. Len(pr.insts) + 1 /\ k + 1 \in 1 .. Len(pr.insts) + 1
        /\ Len(pr.insts) + 1 \in 1 .. Len(pr.insts) + 1 /\ k <= Len(pr.insts)
    BY ProgramType
  <1>2. /\ StartOf(pr, k) \in Nat
        /\ StartOf(pr, k + 1) = StartOf(pr, k) + Size(pr.insts[k])
    BY <1>1, StartOfType
  <1>3. StartOf(pr, k + 1) <= StartOf(pr, Len(pr.insts) + 1) /\ StartOf(pr, k + 1) \in Nat
    BY <1>1, StartOfType
  <1>4. StartOf(pr, Len(pr.insts) + 1) \in Nat /\ StartOf(pr, Len(pr.insts) + 1) <= Values(4)
    BY <1>1, StartOfType, ProgramsAssumption
  <1>5. Size(pr.insts[k]) \in Nat /\ Values(4) \in Nat
    BY <1>1, SizeType, ByteValues
  <1>6. StartOf(pr, k) + Size(pr.insts[k]) <= Values(4)
    BY <1>2, <1>3, <1>4, <1>5
  <1>7. ASSUME NEW a \in Int, StartOf(pr, k) <= a, a < StartOf(pr, k) + Size(pr.insts[k])
        PROVE  Unsigned(a) = a
    <2>1. a \in Addrs
      BY <1>2, <1>5, <1>6, <1>7 DEF Addrs
    <2> QED BY <2>1, UnsignedOfAddr
  <1>8. CodeEnd(pr) <= Values(4)
    BY CodeEndType
  <1> QED BY <1>2, <1>5, <1>6, <1>7, <1>8

LEMMA TgtPositions ==
  ASSUME NEW pr \in Programs, NEW k \in DOMAIN pr.insts
  PROVE  LET x == pr.insts[k]  a == StartOf(pr, k) IN
         /\ TgtPos(pr, k, 0) = a + (1 + Count(VarTgts(x.op)))
         /\ TgtPos(pr, k, Len(x.tgts)) = a + TgtCells(x)
         /\ VarTgts(x.op) => a + 2 <= a + TgtCells(x)
         /\ \A n \in Nat : n < Len(x.tgts) =>
              /\ TgtPos(pr, k, n) \in Int /\ a <= TgtPos(pr, k, n)
              /\ TgtPos(pr, k, n + 1) = TgtPos(pr, k, n) + Len(x.tgts[n + 1])
              /\ TgtPos(pr, k, n) < a + Size(x)
  <1> DEFINE x == pr.insts[k]
             a == StartOf(pr, k)
  <1>1. /\ x \in Instr /\ WellFormed(x) /\ x.tgts \in Seq(Seq(Cell))
        /\ a \in Nat /\ Size(x) \in Nat
    BY ProgramType, InstructionEnds DEF Instr
  <1>2. TgtCells(x) \in Nat /\ TgtCells(x) <= Size(x) /\ Len(x.tgts) \in Nat
    BY <1>1, SizeType
  <1>3. \A n : TgtPos(pr, k, n) = a + (1 + Count(VarTgts(x.op)) + Cells(x.tgts, n))
    BY DEF TgtPos
  <1>4. TgtCells(x) = 1 + Count(VarTgts(x.op)) + Cells(x.tgts, Len(x.tgts))
    BY DEF TgtCells
  <1>5. Count(VarTgts(x.op)) \in Nat /\ (VarTgts(x.op) => Count(VarTgts(x.op)) = 1)
    BY CountFacts
  <1> HIDE DEF x, a
  <1>6. Cells(x.tgts, 0) = 0 /\ Cells(x.tgts, Len(x.tgts)) \in Nat
    BY <1>1, <1>2, CellsType, 0 \in 0 .. Len(x.tgts), Len(x.tgts) \in 0 .. Len(x.tgts)
  <1>7. TgtPos(pr, k, 0) = a + (1 + Count(VarTgts(x.op)))
    BY <1>1, <1>3, <1>5, <1>6
  <1>8. TgtPos(pr, k, Len(x.tgts)) = a + TgtCells(x)
    BY <1>3, <1>4
  <1>9. ASSUME VarTgts(x.op) PROVE a + 2 <= a + TgtCells(x)
    <2> DEFINE e == Cells(x.tgts, Len(x.tgts))
    <2>1. TgtCells(x) = 1 + 1 + e /\ e \in Nat
      BY <1>4, <1>5, <1>6, <1>9
    <2> HIDE DEF e
    <2> QED BY <1>1, <2>1
  <1>10. ASSUME NEW n \in Nat, n < Len(x.tgts)
         PROVE  /\ TgtPos(pr, k, n) \in Int /\ a <= TgtPos(pr, k, n)
                /\ TgtPos(pr, k, n + 1) = TgtPos(pr, k, n) + Len(x.tgts[n + 1])
                /\ TgtPos(pr, k, n) < a + Size(x)
    <2>1. /\ Cells(x.tgts, n + 1) = Cells(x.tgts, n) + Len(x.tgts[n + 1])
          /\ Cells(x.tgts, n) \in Nat /\ Len(x.tgts[n + 1]) \in Nat
          /\ Cells(x.tgts, n + 1) <= Cells(x.tgts, Len(x.tgts))
      BY <1>1, <1>10, CellsNext
    <2>2. Len(x.tgts[n + 1]) >= 1
      <3>1. n + 1 \in DOMAIN x.tgts
        BY <1>1, <1>2, <1>10
      <3>2. IsOperand(x.tgts[n + 1], {"mem"}) /\ x.tgts[n + 1] \in Seq(Cell)
        BY <1>1, <3>1 DEF WellFormed
      <3> QED BY <3>2, OperandCells
    <2> DEFINE c == Count(VarTgts(x.op))
               p == Cells(x.tgts, n)
               q == Cells(x.tgts, n + 1)
               l == Len(x.tgts[n + 1])
               e == Cells(x.tgts, Len(x.tgts))
    <2>3. /\ TgtPos(pr, k, n) = a + (1 + c + p) /\ TgtPos(pr, k, n + 1) = a + (1 + c + q)
          /\ q = p + l /\ p \in Nat /\ l \in Nat /\ c \in Nat /\ q <= e /\ e \in Nat /\ l >= 1
          /\ TgtCells(x) = 1 + c + e
      BY <1>3, <1>4, <1>5, <1>6, <2>1, <2>2
    <2> HIDE DEF c, p, q, l, e
    <2>4. TgtPos(pr, k, n) \in Int /\ a <= TgtPos(pr, k, n)
      BY <1>1, <2>3
    <2>5. TgtPos(pr, k, n + 1) = TgtPos(pr, k, n) + l
      BY <1>1, <2>3
    <2>6. TgtPos(pr, k, n) < a + Size(x)
      BY <1>1, <1>2, <2>3
    <2> QED BY <2>4, <2>5, <2>6 DEF l
  <1> QED BY <1>7, <1>8, <1>9, <1>10 DEF x, a

LEMMA SrcPositions ==
  ASSUME NEW pr \in Programs, NEW k \in DOMAIN pr.insts
  PROVE  LET x == pr.insts[k]  a == StartOf(pr, k) IN
         /\ VarSrcs(x.op) => a + TgtCells(x) < a + Size(x)
         /\ x.srcs = <<>> => a + Size(x) = a + (TgtCells(x) + Count(VarSrcs(x.op)))
         /\ ~x.m \/ x.srcs # <<>> =>
              /\ SrcPos(pr, k, FirstSrc(x)) = a + (TgtCells(x) + Count(VarSrcs(x.op)))
              /\ SrcPos(pr, k, Len(x.srcs)) = a + Size(x)
         /\ \A n \in Nat : FirstSrc(x) <= n /\ n < Len(x.srcs) =>
              /\ SrcPos(pr, k, n) \in Int /\ a <= SrcPos(pr, k, n)
              /\ SrcPos(pr, k, n + 1) = SrcPos(pr, k, n) + Len(x.srcs[n + 1])
              /\ SrcPos(pr, k, n) < a + Size(x)
  <1> DEFINE x == pr.insts[k]
             a == StartOf(pr, k)
             c == Count(VarSrcs(x.op))
             s == Skipped(x)
             L == Len(x.srcs)
             e == Cells(EncodedSrcs(x), Len(EncodedSrcs(x)))
             t == TgtCells(x)
  <1>1. /\ x \in Instr /\ WellFormed(x) /\ x.srcs \in Seq(Seq(Cell)) /\ x.m \in BOOLEAN
        /\ a \in Nat /\ Size(x) \in Nat
    BY ProgramType, InstructionEnds DEF Instr
  <1>2. t \in Nat /\ t >= 1 /\ L \in Nat
    BY <1>1, SizeType
  <1>3. \A n : SrcPos(pr, k, n) = (a + t + c + Cells(x.srcs, n)) - s
    BY DEF SrcPos
  <1>4. Size(x) = t + c + e
    BY DEF Size
  <1>5. c \in Nat /\ (VarSrcs(x.op) => c = 1)
    BY CountFacts
  <1>6. e \in Nat
    <2>1. EncodedSrcs(x) \in Seq(Seq(Cell)) /\ Len(EncodedSrcs(x)) \in 0 .. Len(EncodedSrcs(x))
      BY <1>1, EncodedSrcsType
    <2> QED BY <2>1, CellsType
  <1>7. Cells(x.srcs, 0) = 0 /\ Cells(x.srcs, L) \in Nat
    <2>1. 0 \in 0 .. L /\ L \in 0 .. L
      BY <1>2
    <2> QED BY <1>1, <2>1, CellsType
  <1>8. x.srcs = <<>> => e = 0
    <2> SUFFICES ASSUME x.srcs = <<>> PROVE e = 0
      OBVIOUS
    <2>1. EncodedSrcs(x) = <<>> /\ Len(<<>>) = 0
      BY DEF EncodedSrcs
    <2>2. <<>> \in Seq(Seq(Cell)) /\ 0 \in 0 .. Len(<<>>)
      BY <2>1
    <2>3. Cells(<<>>, 0) = 0
      BY <2>2, CellsType
    <2> QED BY <2>1, <2>3
  <1>9. ASSUME ~x.m
        PROVE  s = 0 /\ e = Cells(x.srcs, L) /\ FirstSrc(x) = 0
    BY <1>9 DEF Skipped, EncodedSrcs, FirstSrc
  <1>10. ASSUME x.m, x.srcs # <<>>
         PROVE  /\ s = Cells(x.srcs, 1) /\ e + s = Cells(x.srcs, L) /\ FirstSrc(x) = 1
                /\ s \in Nat
    <2>1. e = Cells(Tail(x.srcs), Len(Tail(x.srcs))) /\ s = Len(x.srcs[1])
      BY <1>10 DEF EncodedSrcs, Skipped
    <2>2. e + Len(x.srcs[1]) = Cells(x.srcs, L) /\ Cells(x.srcs, 1) = Len(x.srcs[1])
      BY <1>1, <1>10, <2>1, TailCells
    <2>3. Len(x.srcs[1]) \in Nat
      <3>1. x.srcs[1] \in Seq(Cell)
        BY <1>1, <1>10
      <3> QED BY <3>1
    <2> QED BY <1>10, <2>1, <2>2, <2>3 DEF FirstSrc
  <1> HIDE DEF x, a, c, s, L, e, t
  <1>11. VarSrcs(x.op) => a + t < a + Size(x)
    BY <1>1, <1>2, <1>4, <1>5, <1>6
  <1>12. x.srcs = <<>> => a + Size(x) = a + (t + c)
    BY <1>1, <1>2, <1>4, <1>5, <1>8
  <1>13. ASSUME ~x.m \/ x.srcs # <<>>
         PROVE  /\ SrcPos(pr, k, FirstSrc(x)) = a + (t + c)
                /\ SrcPos(pr, k, L) = a + Size(x)
                /\ s \in Nat
    <2>1. CASE ~x.m
      BY <1>1, <1>2, <1>3, <1>4, <1>5, <1>6, <1>7, <1>9, <2>1
    <2>2. CASE x.m
      <3>1. SrcPos(pr, k, 1) = (a + t + c + s) - s /\ SrcPos(pr, k, L) = (a + t + c + (e + s)) - s
            /\ s \in Nat /\ FirstSrc(x) = 1
        BY <1>3, <1>10, <1>13, <2>2
      <3> QED BY <1>1, <1>2, <1>4, <1>5, <1>6, <3>1
    <2> QED BY <1>1, <2>1, <2>2
  <1>14. ASSUME NEW n \in Nat, FirstSrc(x) <= n, n < L
         PROVE  /\ SrcPos(pr, k, n) \in Int /\ a <= SrcPos(pr, k, n)
                /\ SrcPos(pr, k, n + 1) = SrcPos(pr, k, n) + Len(x.srcs[n + 1])
                /\ SrcPos(pr, k, n) < a + Size(x)
    <2> DEFINE p == Cells(x.srcs, n)
               q == Cells(x.srcs, n + 1)
               l == Len(x.srcs[n + 1])
    <2>1. q = p + l /\ p \in Nat /\ l \in Nat /\ q <= Cells(x.srcs, L)
      BY <1>1, <1>14, CellsNext DEF L
    <2>2. l >= 1
      <3>1. n + 1 \in DOMAIN x.srcs
        BY <1>1, <1>2, <1>14 DEF L
      <3>2. IsOperand(x.srcs[n + 1], {"mem", "imm"}) /\ x.srcs[n + 1] \in Seq(Cell)
        BY <1>1, <3>1 DEF WellFormed
      <3> QED BY <3>2, OperandCells
    <2>3. x.srcs # <<>>
      BY <1>1, <1>2, <1>14 DEF L
    <2>4. s \in Nat /\ e + s = Cells(x.srcs, L)
      BY <1>1, <1>6, <1>7, <1>9, <1>10, <2>3
    <2>5. s <= p
      <3>1. CASE ~x.m
        BY <1>9, <2>1, <3>1
      <3>2. CASE x.m
        <4>1. s = Cells(x.srcs, 1) /\ 1 <= n
          BY <1>10, <1>14, <2>3, <3>2
        <4>2. Cells(x.srcs, 1) <= Cells(x.srcs, n)
          <5> DEFINE f == [j \in DOMAIN x.srcs |-> Len(x.srcs[j])]
          <5>1. \A i : Cells(x.srcs, i) = SumTo(f, i)
            BY DEF Cells
          <5>2. ASSUME NEW j \in 1 .. L PROVE f[j] \in Nat
            <6>1. j \in DOMAIN x.srcs /\ x.srcs[j] \in Seq(Cell)
              BY <1>1, <5>2 DEF L
            <6> QED BY <6>1
          <5> HIDE DEF f
          <5>3. 1 \in 0 .. L /\ n \in 0 .. L /\ L \in Nat /\ 1 <= n
            BY <1>2, <1>14, <4>1
          <5>4. SumTo(f, 1) <= SumTo(f, n)
            BY <5>2, <5>3, SumToMonotone
          <5> QED BY <5>1, <5>4
        <4> QED BY <4>1, <4>2
      <3> QED BY <3>1, <3>2
    <2>6. SrcPos(pr, k, n) = (a + t + c + p) - s /\ SrcPos(pr, k, n + 1) = (a + t + c + q) - s
      BY <1>3
    <2>7. Len(x.srcs[n + 1]) = l
      OBVIOUS
    <2> HIDE DEF p, q, l
    <2>8. p + 1 <= e + s
      BY <2>1, <2>2, <2>4, <1>6
    <2> QED BY <1>1, <1>2, <1>4, <1>5, <1>6, <2>1, <2>4, <2>5, <2>6, <2>7, <2>8
  <1> QED BY <1>11, <1>12, <1>13, <1>14 DEF x, a, c, L, t

-----------------------------------------------------------------------------
(* Which instruction is decoded, and how far.  A step is on track as long  *)
(* as the operand counts it has read are those of the instruction; where a *)
(* count is missing from the image it goes on without operands, lost.      *)

OnTrack(k) ==
  /\ ntgts = Len(inst.tgts) /\ nsrcs = Len(inst.srcs)
  /\ st = "ntgts" => pc = Unsigned(StartOf(prog, k) + 1)
  /\ st \in {"tgts", "nsrcs"} => pc = Unsigned(TgtPos(prog, k, Len(tgts)))
  /\ st = "rmw" =>
       pc = Unsigned(StartOf(prog, k) + (TgtCells(inst) + Count(VarSrcs(inst.op))))
  /\ st = "srcs" => pc = Unsigned(SrcPos(prog, k, Len(srcs))) /\ FirstSrc(inst) <= Len(srcs)
  /\ st = "dispatch" => pc = Unsigned(StartOf(prog, k) + Size(inst))
  /\ st # "ntgts" /\ VarTgts(inst.op) =>
       Present(prog, StartOf(prog, k) + 1) /\ ntgts <= MaxTgts
  /\ st \in {"rmw", "srcs", "dispatch", "write"} /\ VarSrcs(inst.op) =>
       Present(prog, StartOf(prog, k) + TgtCells(inst)) /\ nsrcs <= MaxSrcs
  /\ st \in {"ntgts", "tgts", "nsrcs", "rmw"} /\ tgts = <<>> => ~faulted

\* The count of the targets, or only that of the sources, is missing.
LostTgts(k) ==
  /\ VarTgts(inst.op) /\ ~Present(prog, StartOf(prog, k) + 1)
  /\ ntgts = 0 /\ err \in CellFaults
  /\ st \in {"tgts", "nsrcs", "rmw", "srcs"}
  /\ st \in {"tgts", "nsrcs"} => pc = StartOf(prog, k) + 2
  /\ st \in {"rmw", "srcs"} => nsrcs = 0
LostSrcs(k) ==
  /\ VarSrcs(inst.op) /\ ~Present(prog, StartOf(prog, k) + TgtCells(inst))
  /\ nsrcs = 0 /\ err \in CellFaults
  /\ st \in {"rmw", "srcs"}

\* There is no instruction at pc0.
Off ==
  /\ Unmapped(prog, pc0) /\ inst = NopInst /\ ntgts = 0 /\ nsrcs = 0
  /\ err = "BAD_ADDR" /\ st \in {"tgts", "rmw", "srcs"}

Track(k) == inst = prog.insts[k] /\ (OnTrack(k) \/ LostTgts(k) \/ LostSrcs(k))
TrackInv ==
  /\ st \in Decoded => Off \/ \E k \in At(prog, pc0) : Track(k)
  /\ st = "fetch" => pc = pc0
  /\ st = "stopped" /\ rc \in Resumable => pc = pc0

LEMMA TrackInvInit == Init => TrackInv
  BY DEF Init, TrackInv, Decoded

\* What is known of the instruction of a step.
LEMMA Current ==
  ASSUME TypeInv, NEW k \in At(prog, pc0), inst = prog.insts[k]
  PROVE  /\ prog \in Programs /\ k \in DOMAIN prog.insts /\ StartOf(prog, k) = pc0
         /\ inst \in Instr /\ WellFormed(inst) /\ pc0 \in Nat /\ TgtCells(inst) \in Nat
         /\ Size(inst) \in Nat /\ Len(inst.tgts) \in Nat /\ Len(inst.srcs) \in Nat
  <1>1. prog \in Programs /\ k \in DOMAIN prog.insts /\ StartOf(prog, k) = pc0
    BY DEF TypeInv, CodeInv, At
  <1>2. inst \in Instr /\ WellFormed(inst)
    BY <1>1, ProgramType
  <1>3. pc0 \in Nat
    BY AddrRange DEF TypeInv, MachineInv
  <1>4. Len(inst.tgts) \in Nat /\ Len(inst.srcs) \in Nat
    <2>1. inst.tgts \in Seq(Seq(Cell)) /\ inst.srcs \in Seq(Seq(Cell))
      BY <1>2 DEF Instr
    <2> QED BY <2>1
  <1> QED BY <1>1, <1>2, <1>3, <1>4, SizeType

LEMMA TrackInvFetch ==
  ASSUME TypeInv, TrackInv, FetchUnmapped \/ FetchUndefined \/ FetchInst
  PROVE  TrackInv'
  <1>1. /\ st = "fetch" /\ pc = pc0 /\ prog' = prog /\ pc0' = pc0 /\ Advance(1)
        /\ tgts' = <<>>
    BY DEF FetchUnmapped, FetchUndefined, FetchInst, Fetch, fixedVars, TrackInv
  <1>2. CASE FetchUnmapped
    <2>1. Off'
      BY <1>1, <1>2 DEF FetchUnmapped, Off, Unmapped
    <2> QED BY <1>2, <2>1 DEF FetchUnmapped, TrackInv
  <1>3. CASE FetchUndefined
    BY <1>3 DEF FetchUndefined, Return, TrackInv, Decoded
  <1>4. CASE FetchInst
    <2>1. PICK k \in At(prog, pc) : inst' = prog.insts[k]
      BY <1>4 DEF FetchInst
    <2>2. /\ ntgts' = Len(inst'.tgts) /\ nsrcs' = Len(inst'.srcs) /\ faulted' = FALSE
          /\ \/ VarTgts(inst'.op) /\ st' = "ntgts"
             \/ ~VarTgts(inst'.op) /\ st' = "tgts"
      BY <1>4 DEF FetchInst
    <2>3. prog \in Programs /\ k \in DOMAIN prog.insts /\ StartOf(prog, k) = pc0
          /\ pc0 \in Int
      BY <1>1, <2>1, AddrRange DEF TypeInv, CodeInv, At, MachineInv
    <2>4. pc' = Unsigned(pc0 + 1)
      BY <1>1 DEF Advance
    <2>5. TgtPos(prog, k, 0) = pc0 + (1 + Count(VarTgts(inst'.op)))
      BY <2>1, <2>3, TgtPositions
    <2>6. Len(tgts') = 0
      BY <1>1
    <2>7. CASE VarTgts(inst'.op)
      <3>1. OnTrack(k)'
        BY <1>1, <2>2, <2>3, <2>4, <2>7 DEF OnTrack
      <3> QED BY <1>1, <2>1, <2>2, <2>7, <3>1 DEF TrackInv, Track
    <2>8. CASE ~VarTgts(inst'.op)
      <3>1. TgtPos(prog, k, 0) = pc0 + 1
        BY <2>3, <2>5, <2>8, CountFacts
      <3>2. OnTrack(k)'
        BY <1>1, <2>2, <2>3, <2>4, <2>6, <2>8, <3>1 DEF OnTrack
      <3> QED BY <1>1, <2>1, <2>2, <2>8, <3>2 DEF TrackInv, Track
    <2> QED BY <2>7, <2>8
  <1> QED BY <1>2, <1>3, <1>4

LEMMA TrackInvCountTgts ==
  ASSUME TypeInv, TrackInv, CountTgts
  PROVE  TrackInv'
  <1> DEFINE c == CountRead(ntgts)
  <1>1. /\ st = "ntgts" /\ Decoding /\ Advance(1) /\ ntgts' = c.v /\ VarTgts(inst.op)
        /\ nsrcs' = nsrcs /\ tgts' = tgts /\ srcs' = srcs /\ tgts = <<>>
        /\ prog' = prog /\ pc0' = pc0 /\ inst' = inst /\ ntgts \in Nat
        /\ \/ err' = "BAD_OPERAND" /\ Return(err')
           \/ c.v <= MaxTgts /\ Note(c) /\ st' = "tgts"
    BY CountFaultsType, LimitsAssumption DEF CountTgts, TypeInv, BufferInv, OperandInv, CodeInv,
      Decoding, fixedVars
  <1>2. CASE Return(err')
    BY <1>2 DEF Return, TrackInv, Decoded
  <1>3. CASE c.v <= MaxTgts /\ Note(c) /\ st' = "tgts"
    <2>1. PICK k \in At(prog, pc0) : inst = prog.insts[k] /\ OnTrack(k)
      BY <1>1 DEF TrackInv, Off, Decoded, Track, LostTgts, LostSrcs
    <2> DEFINE a == StartOf(prog, k)
    <2>2. /\ prog \in Programs /\ k \in DOMAIN prog.insts /\ a \in Nat
          /\ Size(inst) \in Nat /\ TgtCells(inst) \in Nat /\ TgtCells(inst) <= Size(inst)
      BY <2>1, Current, SizeType
    <2>3. /\ TgtPos(prog, k, 0) = a + (1 + Count(VarTgts(inst.op)))
          /\ a + 2 <= a + TgtCells(inst) /\ Count(VarTgts(inst.op)) = 1
      BY <1>1, <2>1, <2>2, TgtPositions, CountFacts
    <2>4. a + 1 < a + Size(inst) /\ VarSrcs(inst.op)
      BY <1>1, <2>2, <2>3 DEF VarSrcs, VarTgts
    <2>9. a + TgtCells(inst) < a + Size(inst)
      BY <2>1, <2>2, <2>4, SrcPositions
    <2>5. pc = Unsigned(a + 1) /\ Unsigned(a + 1) = a + 1 /\ Unsigned(a + 2) = a + 2
      <3>1. pc = Unsigned(a + 1)
        BY <1>1, <2>1 DEF OnTrack
      <3>2. a + 1 \in Int /\ a <= a + 1 /\ a + 2 \in Int /\ a <= a + 2 /\ a + 2 < a + Size(inst)
        BY <2>2, <2>3, <2>9
      <3> HIDE DEF a
      <3>3. \A b \in Int : a <= b /\ b < a + Size(inst) => Unsigned(b) = b
        BY <2>1, <2>2, InstructionEnds DEF a
      <3> QED BY <2>4, <3>1, <3>2, <3>3
    <2>6. pc' = Unsigned(a + 2)
      <3>1. pc' = Unsigned(pc + 1)
        BY <1>1 DEF Advance
      <3> QED BY <2>2, <2>5, <3>1
    <2>7. CASE Present(prog, pc)
      <3>1. c = [v |-> ntgts, faults |-> {}]
        BY <2>7 DEF CountRead
      <3>2. ntgts' = ntgts /\ faulted' = (faulted \/ FALSE) /\ ntgts <= MaxTgts
        BY <1>1, <1>3, <3>1 DEF Note
      <3>6. Len(tgts') = 0 /\ tgts' = tgts
        BY <1>1
      <3>7. TgtPos(prog, k, 0) = a + 2
        BY <2>2, <2>3
      <3>3. TgtPos(prog, k, 0) = a + 2 /\ Len(tgts') = 0 /\ tgts' = tgts
        BY <3>6, <3>7
      <3>4. Present(prog, a + 1)
        BY <2>5, <2>7
      <3>5. OnTrack(k)'
        BY <1>1, <1>3, <2>1, <2>6, <3>2, <3>3, <3>4 DEF OnTrack
      <3> QED BY <1>1, <1>3, <2>1, <3>5 DEF TrackInv, Track
    <2>8. CASE ~Present(prog, pc)
      <3>1. c = MissingCell
        BY <2>8 DEF CountRead
      <3>2. ntgts' = 0 /\ err' \in CellFaults
        BY <1>1, <1>3, <3>1 DEF Note, MissingCell, CellFaults
      <3>3. LostTgts(k)'
        BY <1>1, <1>3, <2>1, <2>5, <2>6, <2>8, <3>2 DEF LostTgts
      <3> QED BY <1>1, <1>3, <2>1, <3>3 DEF TrackInv, Track
    <2> QED BY <2>7, <2>8
  <1> QED BY <1>1, <1>2, <1>3

LEMMA TrackInvReadTgt ==
  ASSUME TypeInv, TrackInv, ReadTgt
  PROVE  TrackInv'
  <1> DEFINE n == Len(tgts)
             c == inst.tgts[n + 1]
  <1>1. /\ st = "tgts" /\ n < ntgts /\ Decoding /\ Advance(Len(c)) /\ st' = st
        /\ (\E v : tgts' = Append(tgts, v)) /\ ntgts' = ntgts /\ nsrcs' = nsrcs
        /\ srcs' = srcs /\ prog' = prog /\ pc0' = pc0 /\ inst' = inst
    BY DEF ReadTgt, Decoding, fixedVars
  <1>2. PICK k \in At(prog, pc0) : inst = prog.insts[k] /\ OnTrack(k)
    <2>1. n \in Nat
      BY <1>1, NextTgt
    <2> QED BY <1>1, <2>1 DEF TrackInv, Off, Decoded, Track, LostTgts, LostSrcs
  <1>3. n \in Nat /\ n < Len(inst.tgts) /\ Len(c) \in Nat
    BY <1>1, <1>2, NextTgt DEF OnTrack
  <1>4. prog \in Programs /\ k \in DOMAIN prog.insts
    BY <1>2, Current
  <1>5. /\ TgtPos(prog, k, n + 1) = TgtPos(prog, k, n) + Len(c)
        /\ TgtPos(prog, k, n) \in Int
    BY <1>2, <1>3, <1>4, TgtPositions
  <1>6. Len(tgts') = n + 1 /\ tgts' # <<>>
    <2>1. PICK v : tgts' = Append(tgts, v)
      BY <1>1
    <2>2. IsSeq(tgts)
      BY DEF TypeInv, BufferInv
    <2>3. Len(tgts') = n + 1
      BY <2>1, <2>2, AppendIsSeq
    <2>4. Len(<<>>) = 0
      OBVIOUS
    <2> QED BY <1>3, <2>3, <2>4
  <1>7. pc' = Unsigned(TgtPos(prog, k, n + 1))
    <2>1. pc = Unsigned(TgtPos(prog, k, n))
      BY <1>1, <1>2 DEF OnTrack
    <2> DEFINE a == TgtPos(prog, k, n)
               l == Len(c)
    <2>2. pc = Unsigned(a) /\ Advance(l) /\ a \in Int /\ l \in Int
      BY <1>1, <1>3, <1>5, <2>1
    <2> HIDE DEF a, l
    <2>3. pc' = Unsigned(a + l)
      BY <2>2, AdvanceFrom
    <2> QED BY <1>5, <2>3 DEF a, l
  <1> HIDE DEF n, c
  <1>8. OnTrack(k)'
    BY <1>1, <1>2, <1>6, <1>7 DEF OnTrack
  <1> QED BY <1>1, <1>2, <1>8 DEF TrackInv, Track

LEMMA TrackInvTgtsRead ==
  ASSUME TypeInv, TrackInv, TgtsRead
  PROVE  TrackInv'
  <1>1. /\ st = "tgts" /\ Len(tgts) = ntgts /\ Decoding
        /\ ntgts' = ntgts /\ nsrcs' = nsrcs /\ tgts' = tgts /\ srcs' = srcs /\ pc' = pc
        /\ err' = err /\ faulted' = faulted
        /\ prog' = prog /\ pc0' = pc0 /\ inst' = inst
        /\ \/ VarSrcs(inst.op) /\ st' = "nsrcs"
           \/ ~VarSrcs(inst.op) /\ st' = "rmw"
    BY DEF TgtsRead, Decoding, fixedVars
  <1>2. CASE Off
    <2>1. ~VarSrcs(inst.op)
      BY <1>2, NopHasNoCount DEF Off
    <2> QED BY <1>1, <1>2, <2>1 DEF Off, TrackInv
  <1>3. CASE \E k \in At(prog, pc0) : Track(k)
    <2>1. PICK k \in At(prog, pc0) : Track(k)
      BY <1>3
    <2>2. inst = prog.insts[k]
      BY <2>1 DEF Track
    <2>3. CASE OnTrack(k)
      <3>1. prog \in Programs /\ k \in DOMAIN prog.insts
        BY <2>2, Current
      <3> DEFINE a == StartOf(prog, k)
      <3>2. TgtPos(prog, k, Len(inst.tgts)) = a + TgtCells(inst)
        BY <2>2, <3>1, TgtPositions
      <3>3. pc = Unsigned(a + TgtCells(inst))
        BY <1>1, <2>3, <3>2 DEF OnTrack
      <3>4. CASE VarSrcs(inst.op)
        <4>1. OnTrack(k)'
          BY <1>1, <2>3, <3>4 DEF OnTrack
        <4> QED BY <1>1, <2>1, <2>2, <3>4, <4>1 DEF TrackInv, Track
      <3>5. CASE ~VarSrcs(inst.op)
        <4>1. TgtCells(inst) + Count(VarSrcs(inst.op)) = TgtCells(inst)
          BY <2>1, <2>2, <3>5, Current, CountFacts
        <4>2. pc' = Unsigned(a + (TgtCells(inst) + Count(VarSrcs(inst.op))))
          BY <1>1, <3>3, <4>1
        <4>3. OnTrack(k)'
          BY <1>1, <2>3, <3>5, <4>2 DEF OnTrack
        <4> QED BY <1>1, <2>1, <2>2, <3>5, <4>3 DEF TrackInv, Track
      <3> QED BY <3>4, <3>5
    <2>4. CASE LostTgts(k)
      <3>1. VarSrcs(inst.op)
        BY <2>4 DEF LostTgts, VarTgts, VarSrcs
      <3>2. LostTgts(k)'
        BY <1>1, <2>4, <3>1 DEF LostTgts
      <3> QED BY <1>1, <2>1, <2>2, <3>1, <3>2 DEF TrackInv, Track
    <2>5. CASE LostSrcs(k)
      BY <1>1, <2>5 DEF LostSrcs
    <2> QED BY <2>1, <2>3, <2>4, <2>5 DEF Track
  <1> QED BY <1>1, <1>2, <1>3 DEF TrackInv, Decoded

LEMMA TrackInvCountSrcs ==
  ASSUME TypeInv, TrackInv, CountSrcs
  PROVE  TrackInv'
  <1> DEFINE c == CountRead(nsrcs)
  <1>1. /\ st = "nsrcs" /\ Decoding /\ Advance(1) /\ nsrcs' = c.v /\ VarSrcs(inst.op)
        /\ ntgts' = ntgts /\ tgts' = tgts /\ srcs' = srcs
        /\ prog' = prog /\ pc0' = pc0 /\ inst' = inst /\ nsrcs \in Nat /\ Len(tgts) = ntgts
        /\ \/ err' = "BAD_OPERAND" /\ Return(err')
           \/ c.v <= MaxSrcs /\ Note(c) /\ st' = "rmw"
    BY CountFaultsType, LimitsAssumption DEF CountSrcs, TypeInv, OperandInv, CodeInv,
      Decoding, fixedVars
  <1>2. CASE Return(err')
    BY <1>2 DEF Return, TrackInv, Decoded
  <1>3. CASE c.v <= MaxSrcs /\ Note(c) /\ st' = "rmw"
    <2>1. PICK k \in At(prog, pc0) : Track(k)
      BY <1>1 DEF TrackInv, Off, Decoded
    <2> DEFINE a == StartOf(prog, k)
               b == a + TgtCells(inst)
    <2>2. inst = prog.insts[k]
      BY <2>1 DEF Track
    <2>3. /\ prog \in Programs /\ k \in DOMAIN prog.insts /\ a \in Nat
          /\ Size(inst) \in Nat /\ TgtCells(inst) \in Nat /\ TgtCells(inst) <= Size(inst)
      BY <2>1, <2>2, Current, SizeType
    <2>4. /\ TgtPos(prog, k, Len(inst.tgts)) = b /\ b < a + Size(inst)
          /\ Count(VarSrcs(inst.op)) = 1 /\ b \in Nat /\ Unsigned(b) = b
      <3>1. TgtPos(prog, k, Len(inst.tgts)) = b /\ Count(VarSrcs(inst.op)) = 1
        BY <1>1, <2>2, <2>3, TgtPositions, CountFacts
      <3>2. b < a + Size(inst)
        BY <1>1, <2>2, <2>3, SrcPositions
      <3>3. b \in Int /\ a <= b /\ b \in Nat
        BY <2>3
      <3>4. Unsigned(b) = b
        <4>1. \A p \in Int : StartOf(prog, k) <= p /\ p < StartOf(prog, k) + Size(inst)
                => Unsigned(p) = p
          BY <2>2, <2>3, InstructionEnds
        <4> QED BY <3>2, <3>3, <4>1
      <3> QED BY <3>1, <3>2, <3>3, <3>4
    <2>5. CASE OnTrack(k)
      <3>1. pc = b
        BY <1>1, <2>4, <2>5 DEF OnTrack
      <3>2. pc' = Unsigned(a + (TgtCells(inst) + Count(VarSrcs(inst.op))))
        <4>1. pc' = Unsigned(b + 1)
          BY <1>1, <3>1 DEF Advance
        <4>2. b + 1 = a + (TgtCells(inst) + Count(VarSrcs(inst.op)))
          BY <2>3, <2>4
        <4> QED BY <4>1, <4>2
      <3>3. CASE Present(prog, pc)
        <4>1. c = [v |-> nsrcs, faults |-> {}]
          BY <3>3 DEF CountRead
        <4>2. nsrcs' = nsrcs /\ faulted' = (faulted \/ FALSE) /\ nsrcs <= MaxSrcs
          BY <1>1, <1>3, <4>1 DEF Note
        <4>3. Present(prog, b)
          BY <3>1, <3>3
        <4>4. OnTrack(k)'
          BY <1>1, <1>3, <2>5, <3>2, <4>2, <4>3 DEF OnTrack
        <4> QED BY <1>1, <1>3, <2>1, <2>2, <4>4 DEF TrackInv, Track
      <3>4. CASE ~Present(prog, pc)
        <4>1. c = MissingCell
          BY <3>4 DEF CountRead
        <4>2. nsrcs' = 0 /\ err' \in CellFaults
          BY <1>1, <1>3, <4>1 DEF Note, MissingCell, CellFaults
        <4>3. LostSrcs(k)'
          BY <1>1, <1>3, <3>1, <3>4, <4>2 DEF LostSrcs
        <4> QED BY <1>1, <1>3, <2>1, <2>2, <4>3 DEF TrackInv, Track
      <3> QED BY <3>3, <3>4
    <2>6. CASE LostTgts(k)
      \* The code ended before: this count is missing, too.
      <3>1. /\ pc = a + 2 /\ ~Present(prog, a + 1) /\ VarTgts(inst.op) /\ ntgts = 0
        BY <1>1, <2>6 DEF LostTgts
      <3>2. ~Present(prog, pc)
        <4>1. CodeEnd(prog) \in Int /\ CodeBase \in Nat /\ CodeBase <= a
          <5>1. k \in 1 .. Len(prog.insts) + 1
            BY <2>3, ProgramType
          <5> QED BY <2>3, <5>1, CodeEndType, StartOfType, MapAssumption, AddrRange
        <4> HIDE DEF a
        <4> QED BY <2>3, <3>1, <4>1 DEF Present
      <3>3. c = MissingCell
        BY <3>2 DEF CountRead
      <3>4. nsrcs' = 0 /\ err' \in CellFaults
        BY <1>1, <1>3, <3>3 DEF Note, MissingCell, CellFaults
      <3>5. LostTgts(k)'
        BY <1>1, <1>3, <3>1, <3>4 DEF LostTgts
      <3> QED BY <1>1, <1>3, <2>1, <2>2, <3>5 DEF TrackInv, Track
    <2>7. CASE LostSrcs(k)
      BY <1>1, <2>7 DEF LostSrcs
    <2> QED BY <2>1, <2>5, <2>6, <2>7 DEF Track
  <1> QED BY <1>1, <1>2, <1>3

LEMMA TrackInvRmw ==
  ASSUME TypeInv, TrackInv, NoRmw \/ Rmw \/ RmwWithoutOperand
  PROVE  TrackInv'
  <1>1. /\ st = "rmw" /\ Decoding /\ pc' = pc /\ inst' = inst /\ prog' = prog /\ pc0' = pc0
        /\ ntgts' = ntgts /\ nsrcs' = nsrcs /\ tgts' = tgts /\ srcs = <<>>
    BY DEF NoRmw, Rmw, RmwWithoutOperand, Decoding, fixedVars, TypeInv, BufferInv
  <1>2. CASE RmwWithoutOperand
    BY <1>2 DEF RmwWithoutOperand, Return, TrackInv, Decoded
  <1>3. CASE NoRmw \/ Rmw
    <2>1. /\ st' = "srcs"
          /\ \/ ~inst.m /\ srcs' = <<>> /\ err' = err
             \/ inst.m /\ nsrcs > 0 /\ ntgts > 0 /\ (\E v : srcs' = <<v>>)
                /\ (err' = err \/ err' \in CellFaults)
      <3>1. CASE NoRmw
        BY <1>1, <3>1 DEF NoRmw
      <3>2. CASE Rmw
        <4> DEFINE r == ReadAt(prog, ram, [v |-> tgts[1], faults |-> {}], SrcSize(inst.op))
        <4>1. srcs' = <<r.v>> /\ Note(r)
          BY <3>2 DEF Rmw
        <4>2. r.faults \subseteq CellFaults
          BY DEF ReadAt, CellFaults
        <4> HIDE DEF r
        <4>3. err' = err \/ err' \in CellFaults
          BY <4>1, <4>2 DEF Note
        <4> QED BY <3>2, <4>1, <4>3 DEF Rmw
      <3> QED BY <1>3, <3>1, <3>2
    <2>2. CASE Off
      <3>1. ~inst.m
        BY <2>2, NopIsWellFormed DEF Off
      <3> QED BY <1>1, <2>1, <2>2, <3>1 DEF Off, TrackInv
    <2>3. CASE \E k \in At(prog, pc0) : Track(k)
      <3>1. PICK k \in At(prog, pc0) : Track(k)
        BY <2>3
      <3>2. inst = prog.insts[k]
        BY <3>1 DEF Track
      <3>3. CASE OnTrack(k)
        <4>1. prog \in Programs /\ k \in DOMAIN prog.insts /\ Len(inst.srcs) \in Nat
              /\ inst \in Instr
          BY <3>2, Current
        <4> DEFINE a == StartOf(prog, k) + (TgtCells(inst) + Count(VarSrcs(inst.op)))
        <4>2. pc = Unsigned(a) /\ nsrcs = Len(inst.srcs)
          BY <1>1, <3>3 DEF OnTrack
        <4>3. ~inst.m \/ inst.srcs # <<>>
          BY <2>1, <4>2
        <4>4. SrcPos(prog, k, FirstSrc(inst)) = a
          BY <3>2, <4>1, <4>3, SrcPositions
        <4>5. Len(srcs') = FirstSrc(inst)
          <5>1. CASE ~inst.m
            BY <2>1, <5>1 DEF FirstSrc
          <5>2. CASE inst.m
            BY <2>1, <5>2 DEF FirstSrc
          <5> QED BY <5>1, <5>2
        <4> HIDE DEF a
        <4>7. FirstSrc(inst) <= Len(srcs')
          BY <4>5 DEF FirstSrc
        <4>6. OnTrack(k)'
          BY <1>1, <2>1, <3>3, <4>2, <4>4, <4>5, <4>7 DEF OnTrack
        <4> QED BY <1>1, <2>1, <3>1, <3>2, <4>6 DEF TrackInv, Track
      <3>4. CASE LostTgts(k)
        <4>1. LostTgts(k)'
          BY <1>1, <2>1, <3>4 DEF LostTgts
        <4> QED BY <1>1, <2>1, <3>1, <3>2, <4>1 DEF TrackInv, Track
      <3>5. CASE LostSrcs(k)
        <4>1. LostSrcs(k)'
          BY <1>1, <2>1, <3>5 DEF LostSrcs
        <4> QED BY <1>1, <2>1, <3>1, <3>2, <4>1 DEF TrackInv, Track
      <3> QED BY <3>1, <3>3, <3>4, <3>5 DEF Track
    <2> QED BY <1>1, <2>2, <2>3 DEF TrackInv, Decoded
  <1> QED BY <1>2, <1>3

LEMMA TrackInvReadSrc ==
  ASSUME TypeInv, TrackInv, ReadSrc
  PROVE  TrackInv'
  <1> DEFINE n == Len(srcs)
             c == inst.srcs[n + 1]
  <1>1. /\ st = "srcs" /\ n < nsrcs /\ Decoding /\ Advance(Len(c)) /\ st' = st
        /\ (\E v : srcs' = Append(srcs, v)) /\ ntgts' = ntgts /\ nsrcs' = nsrcs
        /\ tgts' = tgts /\ prog' = prog /\ pc0' = pc0 /\ inst' = inst
    BY DEF ReadSrc, Decoding, fixedVars
  <1>2. PICK k \in At(prog, pc0) : inst = prog.insts[k] /\ OnTrack(k)
    <2>1. n \in Nat
      BY <1>1, NextSrc
    <2> QED BY <1>1, <2>1 DEF TrackInv, Off, Decoded, Track, LostTgts, LostSrcs
  <1>3. n \in Nat /\ n < Len(inst.srcs) /\ Len(c) \in Nat /\ FirstSrc(inst) <= n
    BY <1>1, <1>2, NextSrc DEF OnTrack
  <1>4. prog \in Programs /\ k \in DOMAIN prog.insts
    BY <1>2, Current
  <1>5. /\ SrcPos(prog, k, n + 1) = SrcPos(prog, k, n) + Len(c)
        /\ SrcPos(prog, k, n) \in Int
    BY <1>2, <1>3, <1>4, SrcPositions
  <1>6. Len(srcs') = n + 1
    <2>1. PICK v : srcs' = Append(srcs, v)
      BY <1>1
    <2>2. IsSeq(srcs)
      BY DEF TypeInv, BufferInv
    <2> QED BY <2>1, <2>2, AppendIsSeq
  <1>7. pc' = Unsigned(SrcPos(prog, k, n + 1))
    <2>1. pc = Unsigned(SrcPos(prog, k, n))
      BY <1>1, <1>2 DEF OnTrack
    <2> DEFINE a == SrcPos(prog, k, n)
               l == Len(c)
    <2>2. pc = Unsigned(a) /\ Advance(l) /\ a \in Int /\ l \in Int
      BY <1>1, <1>3, <1>5, <2>1
    <2> HIDE DEF a, l
    <2>3. pc' = Unsigned(a + l)
      BY <2>2, AdvanceFrom
    <2> QED BY <1>5, <2>3 DEF a, l
  <1>9. FirstSrc(inst) <= n + 1
    BY <1>3 DEF FirstSrc
  <1> HIDE DEF n, c
  <1>8. OnTrack(k)'
    BY <1>1, <1>2, <1>6, <1>7, <1>9 DEF OnTrack
  <1> QED BY <1>1, <1>2, <1>8 DEF TrackInv, Track

LEMMA TrackInvSrcsRead ==
  ASSUME TypeInv, TrackInv, SrcsRead
  PROVE  TrackInv'
  <1>1. /\ st = "srcs" /\ Len(srcs) = nsrcs /\ Decoding
        /\ ntgts' = ntgts /\ nsrcs' = nsrcs /\ tgts' = tgts /\ srcs' = srcs /\ pc' = pc
        /\ err' = err /\ faulted' = faulted
        /\ prog' = prog /\ pc0' = pc0 /\ inst' = inst
    BY DEF SrcsRead, Decoding, fixedVars
  <1>2. CASE err # "OK"
    BY <1>2 DEF SrcsRead, Return, TrackInv, Decoded
  <1>3. CASE err = "OK"
    <2>1. st' = "dispatch"
      BY <1>3 DEF SrcsRead
    <2>2. PICK k \in At(prog, pc0) : inst = prog.insts[k] /\ OnTrack(k)
      BY <1>1, <1>3 DEF TrackInv, Off, Decoded, Track, LostTgts, LostSrcs, CellFaults
    <2>3. prog \in Programs /\ k \in DOMAIN prog.insts /\ Len(inst.srcs) \in Nat
          /\ inst \in Instr
      BY <2>2, Current
    <2>4. /\ pc = Unsigned(SrcPos(prog, k, Len(inst.srcs)))
          /\ FirstSrc(inst) <= Len(inst.srcs) /\ nsrcs = Len(inst.srcs)
      BY <1>1, <2>2 DEF OnTrack
    <2>5. ~inst.m \/ inst.srcs # <<>>
      <3>1. inst.srcs = <<>> => Len(inst.srcs) = 0
        OBVIOUS
      <3> QED BY <2>4, <3>1 DEF FirstSrc
    <2>6. SrcPos(prog, k, Len(inst.srcs)) = StartOf(prog, k) + Size(inst)
      BY <2>2, <2>3, <2>5, SrcPositions
    <2>7. OnTrack(k)'
      BY <1>1, <2>1, <2>2, <2>4, <2>6 DEF OnTrack
    <2> QED BY <1>1, <2>1, <2>2, <2>7 DEF TrackInv, Track
  <1> QED BY <1>2, <1>3

LEMMA TrackInvNext == TypeInv /\ TrackInv /\ [Next]_vars => TrackInv'
  <1> SUFFICES ASSUME TypeInv, TrackInv, [Next]_vars PROVE TrackInv'
    OBVIOUS
  <1>1. ASSUME NEW k, Track(k), st = "dispatch" \/ st = "write", st' = "write",
               inst' = inst, prog' = prog, ntgts' = ntgts, nsrcs' = nsrcs
        PROVE  Track(k)'
    BY <1>1 DEF Track, OnTrack, LostTgts, LostSrcs
  <1>2. CASE Execute
    <2>1. PICK o \in Dispatch(inst.op, srcs, ntgts, pc) :
            /\ Dispatched(o)
            /\ IF err' # "OK" THEN Return(err') ELSE st' = "write" /\ rc' = rc
      BY <1>2 DEF Execute
    <2>2. /\ st = "dispatch" /\ inst' = inst /\ prog' = prog /\ pc0' = pc0
          /\ ntgts' = ntgts /\ nsrcs' = nsrcs /\ st' \in {"returned", "write"}
      BY <1>2, <2>1 DEF Execute, Dispatched, fixedVars, decodeVars, Return
    <2>3. CASE st' = "write"
      <3>1. PICK k \in At(prog, pc0) : Track(k)
        BY <2>2 DEF TrackInv, Decoded, Off
      <3>2. Track(k)'
        BY <1>1, <2>2, <2>3, <3>1
      <3> QED BY <2>2, <2>3, <3>1, <3>2 DEF TrackInv
    <2> QED BY <2>2, <2>3 DEF TrackInv, Decoded
  <1>3. CASE Write
    <2>1. /\ st = "write" /\ st' = "write" /\ inst' = inst /\ prog' = prog /\ pc0' = pc0
          /\ ntgts' = ntgts /\ nsrcs' = nsrcs
      BY <1>3 DEF Write, fixedVars, decodeVars
    <2>2. PICK k \in At(prog, pc0) : Track(k)
      BY <2>1 DEF TrackInv, Decoded, Off
    <2>3. Track(k)'
      BY <1>1, <2>1, <2>2
    <2> QED BY <2>1, <2>2, <2>3 DEF TrackInv
  <1>4. CASE Written \/ NextStep \/ RunReturns \/ Rerun
    BY <1>4 DEF Written, NextStep, RunReturns, Rerun, Return, TrackInv, Decoded,
      fixedVars, decodeVars, dataVars, hostVars
  <1>5. CASE Stopped \/ UNCHANGED vars
    <2>1. UNCHANGED vars
      BY <1>5 DEF Stopped
    <2> QED BY <2>1 DEF vars, fixedVars, decodeVars, dataVars, hostVars, TrackInv, Track, Off,
      OnTrack, LostTgts, LostSrcs
  <1> QED
    BY <1>2, <1>3, <1>4, <1>5, TrackInvFetch, TrackInvCountTgts, TrackInvReadTgt,
       TrackInvTgtsRead, TrackInvCountSrcs, TrackInvRmw, TrackInvReadSrc, TrackInvSrcsRead
    DEF Next

-----------------------------------------------------------------------------
(* Errors are not forgotten: where a callback failed, err says so until    *)
(* the step returns it.                                                    *)

ErrInv ==
  /\ st \in Decoded /\ faulted => err # "OK"
  /\ StepReportsErrors

LEMMA ErrInvInit == Init => ErrInv
  BY Zenon DEF Init, ErrInv, StepReportsErrors, Decoded

\* Where the m flag comes without a source or a target nothing has been read.
LEMMA NothingRead ==
  ASSUME TypeInv, TrackInv, \A pr \in Programs : Assembled(pr), RmwWithoutOperand
  PROVE  ~faulted /\ inst.op = "NOP" /\ \E k \in At(prog, pc0) : inst = prog.insts[k] /\ OnTrack(k)
  <1>1. /\ st = "rmw" /\ inst.m /\ (ntgts = 0 \/ nsrcs = 0) /\ Len(tgts) = ntgts
        /\ st \in Decoded /\ inst.op # "UNDEF"
    <2>1. /\ st = "rmw" /\ inst.m /\ (ntgts = 0 \/ nsrcs = 0) /\ Len(tgts) = ntgts
          /\ st \in Decoded /\ inst.op \in Ops
      BY DEF RmwWithoutOperand, TypeInv, OperandInv, Decoded
    <2> QED BY <2>1, UndefinedOp
  <1>2. ~Off
    BY <1>1, NopIsWellFormed DEF Off
  <1>3. PICK k \in At(prog, pc0) : Track(k)
    BY <1>1, <1>2 DEF TrackInv
  <1>4. inst = prog.insts[k]
    BY <1>3 DEF Track
  <1>5. /\ prog \in Programs /\ k \in DOMAIN prog.insts /\ inst \in Instr /\ WellFormed(inst)
        /\ Len(inst.tgts) \in Nat /\ Len(inst.srcs) \in Nat
    BY <1>4, Current
  <1>6. \/ inst.op = "NOP"
        \/ /\ inst.tgts # <<>> /\ inst.srcs # <<>>
           /\ VarTgts(inst.op) => Present(prog, StartOf(prog, k) + 1)
           /\ VarSrcs(inst.op) => Present(prog, StartOf(prog, k) + TgtCells(inst))
    BY <1>1, <1>4, <1>5 DEF Assembled
  <1>7. ~VarTgts("NOP") /\ ~VarSrcs("NOP") /\ Arity("NOP") = <<0, 0>>
    BY NopHasNoCount, ArityOfNop DEF NopInst
  <1>8. OnTrack(k)
    BY <1>3, <1>6, <1>7 DEF Track, LostTgts, LostSrcs
  <1>9. inst.op = "NOP"
    BY <1>1, <1>5, <1>6, <1>8 DEF OnTrack, Instr
  <1>10. Len(inst.tgts) = 0
    BY <1>5, <1>7, <1>9 DEF WellFormed
  <1>11. tgts = <<>>
    BY <1>1, <1>8, <1>10 DEF OnTrack, TypeInv, OperandInv
  <1> QED BY <1>1, <1>4, <1>8, <1>9, <1>11 DEF OnTrack

LEMMA ErrInvNext ==
  ASSUME TypeInv, TrackInv, ErrInv, \A pr \in Programs : Assembled(pr), [Next]_vars
  PROVE  ErrInv'
  <1>0. faulted \in BOOLEAN
    BY DEF TypeInv, MachineInv
  <1>1. ASSUME NEW r, Note(r), r.faults \subseteq CellFaults, st \in Decoded, st' \in Decoded
        PROVE  ErrInv'
    BY <1>1 DEF Note, ErrInv, StepReportsErrors, CellFaults, Decoded
  <1>2. CASE FetchUnmapped \/ FetchUndefined \/ FetchInst
    BY <1>2 DEF FetchUnmapped, FetchUndefined, FetchInst, Return, ErrInv, StepReportsErrors,
      Decoded
  <1>3. CASE CountTgts \/ CountSrcs
    <2> DEFINE r == IF st = "ntgts" THEN CountRead(ntgts) ELSE CountRead(nsrcs)
    <2>1. r.faults \subseteq CellFaults
      BY CountFaultsType DEF TypeInv, CodeInv
    <2>2. /\ st \in {"ntgts", "nsrcs"}
          /\ \/ err' = "BAD_OPERAND" /\ Return(err')
             \/ Note(r) /\ st' \in {"tgts", "rmw"}
      BY <1>3 DEF CountTgts, CountSrcs
    <2> HIDE DEF r
    <2> QED BY <1>1, <2>1, <2>2 DEF Return, ErrInv, StepReportsErrors, Decoded
  <1>4. CASE ReadTgt
    <2> DEFINE c == inst.tgts[Len(tgts) + 1]
               r == TgtAddr(prog, ram, c, pc)
    <2>1. /\ st = "tgts" /\ Len(tgts) < ntgts /\ Note(r) /\ st' = st
      BY <1>4 DEF ReadTgt
    <2>2. c \in Seq(Cell) /\ IsOperand(c, {"mem"})
      BY <2>1, NextTgt
    <2>3. prog \in Programs /\ ram \in RamType /\ pc \in Int
      BY AddrRange DEF TypeInv, CodeInv, MachineInv
    <2> HIDE DEF c
    <2>4. r.faults \subseteq CellFaults
      BY <2>2, <2>3, TgtAddrType
    <2> HIDE DEF r
    <2> QED BY <1>1, <2>1, <2>4 DEF Decoded
  <1>5. CASE ReadSrc
    <2> DEFINE c == inst.srcs[Len(srcs) + 1]
               r == SrcValue(prog, ram, c, pc, SrcSize(inst.op))
    <2>1. /\ st = "srcs" /\ Len(srcs) < nsrcs /\ Note(r) /\ st' = st
      BY <1>5 DEF ReadSrc
    <2>2. c \in Seq(Cell) /\ IsOperand(c, {"mem", "imm"})
      BY <2>1, NextSrc
    <2>3. prog \in Programs /\ ram \in RamType /\ pc \in Int
      BY AddrRange DEF TypeInv, CodeInv, MachineInv
    <2> HIDE DEF c
    <2>4. r \in Value
      BY <2>2, <2>3, SrcValueType, SizesOfAccess
    <2> HIDE DEF r
    <2> QED BY <1>1, <2>1, <2>4 DEF Decoded, Value
  <1>6. CASE Rmw
    <2> DEFINE r == ReadAt(prog, ram, [v |-> tgts[1], faults |-> {}], SrcSize(inst.op))
    <2>1. st = "rmw" /\ st' = "srcs" /\ Note(r)
      BY <1>6 DEF Rmw
    <2>2. r.faults \subseteq CellFaults
      BY DEF ReadAt, CellFaults
    <2> HIDE DEF r
    <2> QED BY <1>1, <2>1, <2>2 DEF Decoded
  <1>7. CASE RmwWithoutOperand
    <2>1. st' = "returned" /\ faulted' = faulted
          /\ rc' = (IF err = "BAD_OPERAND" THEN "EXIT" ELSE "OK")
      BY <1>7 DEF RmwWithoutOperand, Return
    <2>2. err = "BAD_OPERAND" \/ ~faulted
      BY <1>7, NothingRead
    <2> QED BY <2>1, <2>2 DEF ErrInv, StepReportsErrors, Decoded
  <1>8. CASE TgtsRead \/ NoRmw \/ SrcsRead
    BY <1>8 DEF TgtsRead, NoRmw, SrcsRead, Return, ErrInv, StepReportsErrors, Decoded
  <1>9. CASE Execute
    <2>1. PICK o \in Dispatch(inst.op, srcs, ntgts, pc) :
            Dispatched(o) /\ IF err' # "OK" THEN Return(err') ELSE st' = "write" /\ rc' = rc
      BY <1>9 DEF Execute
    <2>2. st = "dispatch" /\ err = "OK" /\ ~faulted
      BY <1>9 DEF Execute, TypeInv, RamInv, ErrInv, Decoded
    <2>3. err' = o.err /\ faulted' = (faulted \/ o.err = "UNKNOWN_FUNC")
      BY <2>1, <2>2 DEF Dispatched
    <2> QED BY <2>1, <2>2, <2>3 DEF Return, ErrInv, StepReportsErrors
  <1>10. CASE Write
    BY <1>10 DEF Write, Store1, ErrInv, StepReportsErrors, Decoded
  <1>11. CASE Written
    BY <1>11 DEF Written, Return, ErrInv, StepReportsErrors, Decoded
  <1>12. CASE NextStep \/ RunReturns \/ Rerun
    BY <1>12 DEF NextStep, RunReturns, Rerun, ErrInv, StepReportsErrors, Decoded
  <1>13. CASE Stopped \/ UNCHANGED vars
    BY <1>13 DEF Stopped, vars, ErrInv, StepReportsErrors
  <1> QED BY <1>2, <1>3, <1>4, <1>5, <1>6, <1>7, <1>8, <1>9, <1>10, <1>11, <1>12, <1>13 DEF Next

\* bajo_step() does not return 0 after a callback failed, in no program an
\* assembler makes whose image holds the operand counts of the instructions
\* with the m flag.
THEOREM ErrorsReported ==
  ASSUME \A pr \in Programs : Assembled(pr)
  PROVE  Spec => []StepReportsErrors
  <1>1. Init => TypeInv /\ TrackInv /\ ErrInv
    BY CodeInvInit, RamInvInit, BufferInvInit, TypeInvInit, TrackInvInit, ErrInvInit DEF TypeInv
  <1>2. TypeInv /\ TrackInv /\ ErrInv /\ [Next]_vars => TypeInv' /\ TrackInv' /\ ErrInv'
    BY TypeInvNext, TrackInvNext, ErrInvNext
  <1>3. ErrInv => StepReportsErrors
    BY DEF ErrInv
  <1> QED BY <1>1, <1>2, <1>3, PTL DEF Spec

-----------------------------------------------------------------------------
(* An instruction is one step.  Facts about instructions, operands and     *)
(* dispatch() first.                                                       *)

\* No two instructions start at the same address.
LEMMA OneInstruction ==
  ASSUME NEW pr \in Programs, NEW a, NEW j \in At(pr, a), NEW k \in At(pr, a)
  PROVE  j = k
  <1> DEFINE N == Len(pr.insts)
  <1>1. /\ N \in Nat /\ DOMAIN pr.insts = 1 .. N
        /\ \A i \in 1 .. N : StartOf(pr, i) \in Nat /\ StartOf(pr, i) < StartOf(pr, i + 1)
    <2>1. N \in Nat /\ DOMAIN pr.insts = 1 .. N
      BY ProgramType
    <2>2. ASSUME NEW i \in 1 .. N
          PROVE  StartOf(pr, i) \in Nat /\ StartOf(pr, i) < StartOf(pr, i + 1)
      <3>1. Size(pr.insts[i]) \in Nat /\ 1 <= Size(pr.insts[i])
        <4>1. pr.insts[i] \in Instr
          BY <2>1, ProgramType
        <4>2. 1 <= TgtCells(pr.insts[i]) /\ TgtCells(pr.insts[i]) <= Size(pr.insts[i])
              /\ TgtCells(pr.insts[i]) \in Nat /\ Size(pr.insts[i]) \in Nat
          BY <4>1, SizeType
        <4> QED BY <4>2
      <3>2. i \in 1 .. N + 1 /\ i <= N
        BY <2>1
      <3>3. StartOf(pr, i) \in Nat /\ StartOf(pr, i + 1) = StartOf(pr, i) + Size(pr.insts[i])
        BY <3>2, StartOfType
      <3> QED BY <3>1, <3>3
    <2> QED BY <2>1, <2>2
  <1> HIDE DEF N
  <1>2. \A d \in Nat : \A i \in 1 .. N : i + d < N => StartOf(pr, i) < StartOf(pr, i + d + 1)
    <2> DEFINE P == {d \in Nat : \A i \in 1 .. N : i + d < N => StartOf(pr, i) < StartOf(pr, i + d + 1)}
    <2>1. 0 \in P
      BY <1>1
    <2>2. ASSUME NEW d \in Nat, d \in P PROVE d + 1 \in P
      <3> SUFFICES ASSUME NEW i \in 1 .. N, i + (d + 1) < N
                   PROVE  StartOf(pr, i) < StartOf(pr, i + (d + 1) + 1)
        OBVIOUS
      <3> DEFINE e == i + d + 1
      <3>1. e \in 1 .. N /\ e + 1 \in 1 .. N /\ i + (d + 1) + 1 = e + 1 /\ i + d < N
        BY <1>1
      <3>2. StartOf(pr, i) < StartOf(pr, e)
        BY <2>2, <3>1
      <3>3. StartOf(pr, e) < StartOf(pr, e + 1) /\ StartOf(pr, e) \in Nat
            /\ StartOf(pr, e + 1) \in Nat /\ StartOf(pr, i) \in Nat
        BY <1>1, <3>1
      <3> HIDE DEF e
      <3> QED BY <3>1, <3>2, <3>3
    <2>3. \A d \in Nat : d \in P
      <3> HIDE DEF P
      <3> QED BY <2>1, <2>2, SetInduction
    <2> QED BY <2>3
  <1>3. ASSUME NEW i \in 1 .. N, NEW l \in 1 .. N, i < l PROVE StartOf(pr, i) < StartOf(pr, l)
    <2> DEFINE d == l - i - 1
    <2>1. d \in Nat /\ i + d < N /\ i + d + 1 = l
      BY <1>1, <1>3
    <2> HIDE DEF d
    <2> QED BY <1>2, <2>1
  <1>4. j \in 1 .. N /\ k \in 1 .. N /\ StartOf(pr, j) = StartOf(pr, k)
    BY <1>1 DEF At
  <1>5. ~(j < k) /\ ~(k < j)
    BY <1>1, <1>3, <1>4
  <1> QED BY <1>1, <1>4, <1>5

\* Only the first cell of an operand is read at the operand's own size.
LEMMA RestTail ==
  ASSUME NEW pr \in Programs, NEW m \in RamType, NEW c \in Seq(Cell), NEW L,
         IsOperand(c, L), NEW at \in Int, NEW size \in Sizes, 1 < Len(c)
  PROVE  Rest(pr, m, c, at, size)[2] = Rest(pr, m, c, at, 4)[2]
  <1> DEFINE N == Len(c)
             T == Rest(pr, m, c, at, size)
             U == Rest(pr, m, c, at, 4)
             P == {i \in Nat : i <= N - 2 => T[N - i] = U[N - i]}
  <1>1. /\ N \in Nat /\ N >= 2 /\ DOMAIN c = 1 .. N
        /\ \A k \in 1 .. N : c[k] \in Cell /\ (c[k].mode = "ind" <=> k < N)
    BY OperandCells
  <1>2. /\ \A k \in 1 .. N : k # 1 => T[k] = CellValue(pr, m, c[k], at + k - 1, 4, T[k + 1])
        /\ \A k \in 1 .. N : k # 1 => U[k] = CellValue(pr, m, c[k], at + k - 1, 4, U[k + 1])
    <2>1. 4 \in Sizes
      BY DEF Sizes
    <2>2. Reads(c, T, pr, m, at, size) /\ Reads(c, U, pr, m, at, 4)
      BY <2>1, RestMeans
    <2> HIDE DEF T, U
    <2> QED BY <1>1, <2>2 DEF Reads
  <1> HIDE DEF N, T, U
  <1>3. 0 \in P
    <2>1. N \in 1 .. N /\ N # 1 /\ N - 0 = N
      BY <1>1
    <2>2. T[N] = CellValue(pr, m, c[N], at + N - 1, 4, T[N + 1])
          /\ U[N] = CellValue(pr, m, c[N], at + N - 1, 4, U[N + 1])
      BY <1>2, <2>1
    <2>3. c[N] \in Cell /\ c[N].mode # "ind"
      BY <1>1, <2>1
    <2>4. T[N] = U[N]
      BY <2>2, <2>3, LastCell
    <2> QED BY <2>1, <2>4
  <1>4. ASSUME NEW i \in Nat, i \in P PROVE i + 1 \in P
    <2> SUFFICES ASSUME i + 1 <= N - 2 PROVE T[N - (i + 1)] = U[N - (i + 1)]
      OBVIOUS
    <2> DEFINE k == N - (i + 1)
    <2>1. k \in 1 .. N /\ k # 1 /\ k + 1 = N - i /\ i <= N - 2
      BY <1>1
    <2>2. T[k + 1] = U[k + 1]
      BY <1>4, <2>1
    <2> HIDE DEF k
    <2>3. T[k] = U[k]
      BY <1>2, <2>1, <2>2
    <2> QED BY <2>3 DEF k
  <1>5. \A i \in Nat : i \in P
    <2> HIDE DEF P
    <2> QED BY <1>3, <1>4, SetInduction
  <1>6. N - 2 \in Nat /\ N - (N - 2) = 2
    BY <1>1
  <1>7. T[2] = U[2]
    BY <1>5, <1>6
  <1> QED BY <1>7 DEF T, U

\* What the m flag reads is the value of the operand itself.
LEMMA SharedValue ==
  ASSUME NEW pr \in Programs, NEW m \in RamType, NEW c \in Seq(Cell),
         IsOperand(c, {"mem"}), NEW at \in Int, NEW size \in Sizes
  PROVE  LET a == TgtAddr(pr, m, c, at)
             r == ReadAt(pr, m, [v |-> a.v, faults |-> {}], size)
         IN  /\ r.faults \subseteq SrcValue(pr, m, c, at, size).faults
             /\ a.faults = {} => r = SrcValue(pr, m, c, at, size)
  <1> DEFINE a == TgtAddr(pr, m, c, at)
             r == ReadAt(pr, m, [v |-> a.v, faults |-> {}], size)
             S == SrcValue(pr, m, c, at, size)
             R == Rest(pr, m, c, at, size)
  <1>1. /\ 1 \in DOMAIN c /\ c[1] \in Cell /\ c[1].mode \in {"mem", "ind"}
        /\ (c[1].mode = "ind" => 1 < Len(c))
    BY OperandCells DEF IsOperand
  <1>2. S = CellValue(pr, m, c[1], at, size, R[2])
    <2>1. Reads(c, R, pr, m, at, size)
      BY RestMeans
    <2>2. R[1] = CellValue(pr, m, c[1], at + 1 - 1, IF 1 = 1 THEN size ELSE 4, R[1 + 1])
      <3> HIDE DEF R
      <3> QED BY <1>1, <2>1 DEF Reads
    <2>3. S = R[1] /\ at + 1 - 1 = at /\ 1 + 1 = 2
      BY DEF SrcValue
    <2> HIDE DEF R, S
    <2> QED BY <2>2, <2>3
  <1>3. r.faults \subseteq {"BAD_ADDR"}
    BY DEF ReadAt
  <1>4. ASSUME NEW b, NEW F
        PROVE  LET p == ReadAt(pr, m, [v |-> b, faults |-> {}], size)
                   q == ReadAt(pr, m, [v |-> b, faults |-> F], size)
               IN  p.faults \subseteq q.faults /\ (F = {} => p = q)
    BY DEF ReadAt
  <1>8. S = IF ~Present(pr, at) THEN MissingCell
            ELSE IF c[1].mode = "imm"
                 THEN [v |-> IF size < 4 THEN ZeroExtend(c[1].v, size) ELSE c[1].v, faults |-> {}]
            ELSE IF c[1].mode = "mem" THEN ReadAt(pr, m, [v |-> c[1].v, faults |-> {}], size)
            ELSE ReadAt(pr, m, Indirect(pr, m, c[1].v, R[2]), size)
    <2> DEFINE q == R[2]
               d == c[1]
    <2>1. d \in Cell /\ S = CellValue(pr, m, d, at, size, q)
      BY <1>1, <1>2
    <2> HIDE DEF q, d, S
    <2>2. S = IF ~Present(pr, at) THEN MissingCell
              ELSE IF d.mode = "imm"
                   THEN [v |-> IF size < 4 THEN ZeroExtend(d.v, size) ELSE d.v, faults |-> {}]
              ELSE IF d.mode = "mem" THEN ReadAt(pr, m, [v |-> d.v, faults |-> {}], size)
              ELSE ReadAt(pr, m, Indirect(pr, m, d.v, q), size)
      BY <2>1, CellValueIs
    <2> QED BY <2>2 DEF q, d
  <1>5. CASE ~Present(pr, at)
    <2>1. S = MissingCell /\ a = MissingCell
      <3> HIDE DEF S, R
      <3> QED BY <1>5, <1>8 DEF TgtAddr
    <2> HIDE DEF r, S, a
    <2> QED BY <1>3, <2>1 DEF MissingCell, r, S, a
  <1>6. CASE Present(pr, at) /\ c[1].mode = "mem"
    <2>1. S = ReadAt(pr, m, [v |-> c[1].v, faults |-> {}], size)
      <3> HIDE DEF S, R
      <3> QED BY <1>6, <1>8
    <2>2. a = [v |-> c[1].v, faults |-> {}]
      BY <1>6 DEF TgtAddr
    <2>3. r = S
      BY <2>1, <2>2
    <2> HIDE DEF r, S, a
    <2> QED BY <2>3 DEF r, S, a
  <1>7. CASE Present(pr, at) /\ c[1].mode = "ind"
    <2> DEFINE d == Indirect(pr, m, c[1].v, R[2])
    <2>1. S = ReadAt(pr, m, d, size)
      <3> HIDE DEF S, R
      <3> QED BY <1>7, <1>8
    <2>2. a = d
      <3>1. a = Indirect(pr, m, c[1].v, Rest(pr, m, c, at, 4)[2])
        BY <1>7 DEF TgtAddr
      <3>2. R[2] = Rest(pr, m, c, at, 4)[2]
        BY <1>1, <1>7, RestTail
      <3> QED BY <3>1, <3>2
    <2>3. d = [v |-> d.v, faults |-> d.faults]
      BY DEF Indirect
    <2> HIDE DEF d, S
    <2>4. S = ReadAt(pr, m, [v |-> d.v, faults |-> d.faults], size)
      BY <2>1, <2>3
    <2>5. r = ReadAt(pr, m, [v |-> d.v, faults |-> {}], size)
      BY <2>2
    <2>6. r.faults \subseteq S.faults /\ (d.faults = {} => r = S)
      BY <1>4, <2>4, <2>5
    <2> HIDE DEF r, a
    <2> QED BY <2>2, <2>6 DEF r, S, a
  <1> QED BY <1>1, <1>5, <1>6, <1>7

\* dispatch() depends on the program counter up to the width of a word only.
LEMMA OutcomeWraps ==
  ASSUME NEW p \in Int
  PROVE  /\ \A e, r : Outcome(e, r, Unsigned(p)) = Outcome(e, r, p)
         /\ \A e, r : \A n \in Int : Outcome(e, r, Unsigned(p) + n) = Outcome(e, r, p + n)
         /\ Wrap(Unsigned(p)) = Wrap(p)
  <1>1. Unsigned(Unsigned(p)) = Unsigned(p) /\ \A n \in Int : Unsigned(Unsigned(p) + n) = Unsigned(p + n)
    BY UnsignedAdd
  <1>2. Wrap(Unsigned(p)) = Wrap(p)
    BY <1>1 DEF Wrap, SignExtend, Unsigned
  <1> QED BY <1>1, <1>2 DEF Outcome

LEMMA DispatchFrom ==
  ASSUME NEW op \in Ops, NEW s \in Seq(Words), NEW nt \in Nat, NEW p \in Int, Fits(op, s, nt)
  PROVE  Dispatch(op, s, nt, Unsigned(p)) = Dispatch(op, s, nt, p)
  <1> DEFINE u == Unsigned(p)
  <1> SUFFICES Dispatch(op, s, nt, u) = Dispatch(op, s, nt, p)
    OBVIOUS
  <1>1. /\ \A e, r : Outcome(e, r, u) = Outcome(e, r, p)
        /\ \A e, r : \A n \in Int : Outcome(e, r, u + n) = Outcome(e, r, p + n)
        /\ Wrap(u) = Wrap(p)
    BY OutcomeWraps
  <1>0. Words \subseteq Int /\ Len(s) \in Nat
    BY WordsAreIntegers
  <1> HIDE DEF u
  <1>2. CASE op \in ComputeOps
    <2>1. /\ Dispatch(op, s, nt, u) =
               {Outcome(AluError(op, s), IF AluError(op, s) = "OK" THEN Results(op, s) ELSE <<>>, u)}
          /\ Dispatch(op, s, nt, p) =
               {Outcome(AluError(op, s), IF AluError(op, s) = "OK" THEN Results(op, s) ELSE <<>>, p)}
      BY <1>2, DispatchComputes
    <2> QED BY <1>1, <2>1
  <1>3. CASE op \in BranchIfOps
    <2>1. Len(s) = 3
      <3>1. Arity(op) = <<0, 3>> /\ op \notin VarSrcOps \cup {"SYS"}
        BY <1>3, ArityOfBranch, Kinds DEF BranchIfOps, VarSrcOps
      <3> QED BY <3>1 DEF Fits
    <2>2. s[3] \in Int
      <3>1. Len(s) \in Nat /\ 3 \in 1 .. Len(s)
        BY <2>1
      <3> QED BY <3>1, ArgInWords
    <2>3. /\ Dispatch(op, s, nt, u) = {Outcome("OK", <<>>, IF Holds(op, s) THEN u + s[3] ELSE u)}
          /\ Dispatch(op, s, nt, p) = {Outcome("OK", <<>>, IF Holds(op, s) THEN p + s[3] ELSE p)}
      BY <1>3, DispatchBranches
    <2> QED BY <1>1, <2>2, <2>3
  <1>4. CASE op \in SysOps
    <2>1. Dispatch(op, s, nt, u) = Call(s, nt, u) /\ Dispatch(op, s, nt, p) = Call(s, nt, p)
      BY <1>4, DispatchCalls
    <2>2. Call(s, nt, u) = Call(s, nt, p)
      BY <1>1 DEF Call
    <2> QED BY <2>1, <2>2
  <1>5. CASE op \in JumpOps \cup LinkOps
    <2>1. s[1] \in Int
      <3>1. Arity(op)[2] = 1 /\ op \notin VarSrcOps \cup {"SYS"}
        BY <1>5, ArityOfJump, ArityOfOne DEF JumpOps, LinkOps, VarSrcOps
      <3>2. Len(s) = 1
        BY <3>1 DEF Fits
      <3>3. Len(s) \in Nat /\ 1 \in 1 .. Len(s)
        BY <3>2
      <3> QED BY <3>3, ArgInWords
    <2>2. CASE op = "BR"
      <3>1. /\ Dispatch("BR", s, nt, u) = {Outcome("OK", <<>>, u + s[1])}
            /\ Dispatch("BR", s, nt, p) = {Outcome("OK", <<>>, p + s[1])}
        BY DispatchBr
      <3> QED BY <1>1, <2>1, <2>2, <3>1
    <2>3. CASE op = "BR_LNK"
      <3>1. /\ Dispatch("BR_LNK", s, nt, u) = {Outcome("OK", <<Wrap(u)>>, u + s[1])}
            /\ Dispatch("BR_LNK", s, nt, p) = {Outcome("OK", <<Wrap(p)>>, p + s[1])}
        BY DispatchBrLnk
      <3> QED BY <1>1, <2>1, <2>3, <3>1
    <2>4. CASE op = "JMP"
      <3>1. /\ Dispatch("JMP", s, nt, u) = {Outcome("OK", <<>>, s[1])}
            /\ Dispatch("JMP", s, nt, p) = {Outcome("OK", <<>>, s[1])}
        BY DispatchJmp
      <3> QED BY <1>1, <2>1, <2>4, <3>1
    <2>5. CASE op = "JMP_LNK"
      <3>1. /\ Dispatch("JMP_LNK", s, nt, u) = {Outcome("OK", <<Wrap(u)>>, s[1])}
            /\ Dispatch("JMP_LNK", s, nt, p) = {Outcome("OK", <<Wrap(p)>>, s[1])}
        BY DispatchJmpLnk
      <3> QED BY <1>1, <2>1, <2>5, <3>1
    <2> QED BY <1>5, <2>2, <2>3, <2>4, <2>5 DEF JumpOps, LinkOps
  <1>6. CASE op \in {"EXIT", "NOP"}
    <2>1. CASE op = "EXIT"
      <3>1. /\ Dispatch("EXIT", s, nt, u) = {Outcome("EXIT", <<>>, u)}
            /\ Dispatch("EXIT", s, nt, p) = {Outcome("EXIT", <<>>, p)}
        BY DispatchExit
      <3> QED BY <1>1, <2>1, <3>1
    <2>2. CASE op = "NOP"
      <3>1. /\ Dispatch("NOP", s, nt, u) = {Outcome("OK", <<>>, u)}
            /\ Dispatch("NOP", s, nt, p) = {Outcome("OK", <<>>, p)}
        BY DispatchNop
      <3> QED BY <1>1, <2>2, <3>1
    <2> QED BY <1>6, <2>1, <2>2
  <1> QED BY <1>2, <1>3, <1>4, <1>5, <1>6 DEF Ops

-----------------------------------------------------------------------------
(* What an instruction does in one step, as VmSpec has it, on any memory.  *)

\* The value of the j-th target or source of instruction k.
TgtIn(pr, m, k, j) == TgtAddr(pr, m, pr.insts[k].tgts[j], TgtPos(pr, k, j - 1))
SrcIn(pr, m, k, j) ==
  LET x == pr.insts[k]
  IN  SrcValue(pr, m, x.srcs[j], IF x.m /\ j = 1 THEN TgtPos(pr, k, 0) ELSE SrcPos(pr, k, j - 1),
               SrcSize(x.op))
SrcsIn(pr, m, k) == [j \in DOMAIN pr.insts[k].srcs |-> SrcIn(pr, m, k, j).v]

CountFaultsIn(pr, var, n, max, a) ==
  IF ~var THEN {} ELSE IF ~Present(pr, a) THEN CellFaults
  ELSE IF n > max THEN {"BAD_OPERAND"} ELSE {}
CountsIn(pr, k) ==
  LET x == pr.insts[k]
  IN  CountFaultsIn(pr, VarTgts(x.op), Len(x.tgts), MaxTgts, StartOf(pr, k) + 1)
      \cup CountFaultsIn(pr, VarSrcs(x.op), Len(x.srcs), MaxSrcs, StartOf(pr, k) + TgtCells(x))
FaultsIn(pr, m, k) ==
  CountsIn(pr, k)
  \cup (UNION {TgtIn(pr, m, k, j).faults : j \in DOMAIN pr.insts[k].tgts})
  \cup (UNION {SrcIn(pr, m, k, j).faults : j \in DOMAIN pr.insts[k].srcs})

Writers(pr, m, k, n, b) ==
  LET size == TgtSize(pr.insts[k].op)
  IN  {j \in 1 .. n : InRam(TgtIn(pr, m, k, j).v, size) /\ b \in Span(TgtIn(pr, m, k, j).v, size)}
StoredIn(pr, m, k, res, n) ==
  [b \in DOMAIN m |->
     IF Writers(pr, m, k, n, b) = {} THEN m[b]
     ELSE Store(m, TgtIn(pr, m, k, Max(Writers(pr, m, k, n, b))).v,
                res[Max(Writers(pr, m, k, n, b))], TgtSize(pr.insts[k].op))[b]]
StoredTo(pr, m, k, n) ==
  \A j \in 1 .. n : InRam(TgtIn(pr, m, k, j).v, TgtSize(pr.insts[k].op))

\* The outcomes of its operation.
OutcomesIn(pr, m, k) ==
  LET x == pr.insts[k]
  IN  Dispatch(x.op, SrcsIn(pr, m, k), Len(x.tgts), StartOf(pr, k) + Size(x))

LEMMA StoredNone ==
  ASSUME NEW pr, NEW m \in RamType, NEW k, NEW res
  PROVE  StoredIn(pr, m, k, res, 0) = m
  <1>1. \A b : Writers(pr, m, k, 0, b) = {}
    BY DEF Writers
  <1>2. StoredIn(pr, m, k, res, 0) = [b \in DOMAIN m |-> m[b]]
    BY <1>1 DEF StoredIn
  <1> QED BY <1>2 DEF RamType

\* The store of one more result.
LEMMA StoredNext ==
  ASSUME NEW pr, NEW m \in RamType, NEW k, NEW res, NEW n \in Nat
  PROVE  LET a == TgtIn(pr, m, k, n + 1).v
             size == TgtSize(pr.insts[k].op)
         IN  StoredIn(pr, m, k, res, n + 1) =
               IF InRam(a, size) THEN Store(StoredIn(pr, m, k, res, n), a, res[n + 1], size)
               ELSE StoredIn(pr, m, k, res, n)
  <1> DEFINE A(j) == TgtIn(pr, m, k, j).v
             size == TgtSize(pr.insts[k].op)
             old == StoredIn(pr, m, k, res, n)
             new == StoredIn(pr, m, k, res, n + 1)
             S == Store(old, A(n + 1), res[n + 1], size)
             W(i, b) == Writers(pr, m, k, i, b)
             V(i, b) == IF W(i, b) = {} THEN m[b]
                        ELSE Store(m, A(Max(W(i, b))), res[Max(W(i, b))], size)[b]
             on(b) == InRam(A(n + 1), size) /\ b \in Span(A(n + 1), size)
  <1>1. /\ old = [b \in DOMAIN m |-> V(n, b)] /\ new = [b \in DOMAIN m |-> V(n + 1, b)]
        /\ S = [b \in DOMAIN old |->
                  IF b \in Span(A(n + 1), size)
                  THEN (Unsigned(res[n + 1]) \div Values(b - A(n + 1))) % Values(1) ELSE old[b]]
    BY DEF StoredIn, Store
  <1>2. \A i, b : W(i, b) = {j \in 1 .. i : InRam(A(j), size) /\ b \in Span(A(j), size)}
    BY DEF Writers
  <1>3. \A j, v, b : b \in DOMAIN m /\ b \in Span(A(j), size) =>
          Store(m, A(j), v, size)[b] = (Unsigned(v) \div Values(b - A(j))) % Values(1)
    BY DEF Store
  <1>4. ASSUME NEW b, on(b) PROVE W(n + 1, b) # {} /\ Max(W(n + 1, b)) = n + 1
    <2>1. n + 1 \in W(n + 1, b) /\ W(n + 1, b) \subseteq 1 .. n + 1
      <3> HIDE DEF A, size, W
      <3> QED BY <1>2, <1>4 DEF on
    <2> HIDE DEF W
    <2>2. W(n + 1, b) \subseteq Int /\ n + 1 \in Int /\ \A v \in W(n + 1, b) : v <= n + 1
      BY <2>1
    <2>3. Max(W(n + 1, b)) \in W(n + 1, b) /\ \A v \in W(n + 1, b) : v <= Max(W(n + 1, b))
      BY <2>1, <2>2, MaxFacts
    <2> QED BY <2>1, <2>2, <2>3
  <1>5. ASSUME NEW b, ~on(b) PROVE W(n + 1, b) = W(n, b)
    <2>1. \A j : j \in 1 .. n + 1 <=> j \in 1 .. n \/ j = n + 1
      OBVIOUS
    <2> HIDE DEF A, size, W
    <2> QED BY <1>2, <1>5, <2>1 DEF on
  <1>6. ASSUME NEW b \in DOMAIN m
        PROVE  new[b] = (IF InRam(A(n + 1), size) THEN S ELSE old)[b]
    <2>1. new[b] = V(n + 1, b) /\ old[b] = V(n, b) /\ b \in DOMAIN old
      BY <1>1
    <2>2. CASE on(b)
      <3>1. new[b] = Store(m, A(n + 1), res[n + 1], size)[b]
        <4> HIDE DEF new, W, A
        <4> QED BY <1>4, <2>1, <2>2 DEF V
      <3>2. S[b] = (Unsigned(res[n + 1]) \div Values(b - A(n + 1))) % Values(1)
        <4> HIDE DEF S, A, old, size
        <4> QED BY <1>1, <2>1, <2>2 DEF on
      <3> HIDE DEF new, S, A, old, size
      <3> QED BY <1>3, <2>2, <3>1, <3>2 DEF on
    <2>3. CASE ~on(b)
      <3>1. new[b] = old[b]
        <4>1. W(n + 1, b) = W(n, b)
          BY <1>5, <2>3
        <4> HIDE DEF new, old, W, A, size
        <4> QED BY <2>1, <4>1 DEF V
      <3>2. ~InRam(A(n + 1), size) \/ S[b] = old[b]
        <4> HIDE DEF S, A, old, size
        <4> QED BY <1>1, <2>1, <2>3 DEF on
      <3> HIDE DEF new, S, A, old, size
      <3> QED BY <3>1, <3>2
    <2> QED BY <2>2, <2>3
  <1>7. /\ new = [b \in DOMAIN m |-> new[b]] /\ old = [b \in DOMAIN m |-> old[b]]
        /\ S = [b \in DOMAIN m |-> S[b]]
    BY <1>1
  <1>8. new = IF InRam(A(n + 1), size) THEN S ELSE old
    <2> HIDE DEF new, old, S, A, size
    <2> QED BY <1>6, <1>7
  <1> QED BY <1>8

\* The errors of an instruction.
LEMMA FaultsInType ==
  ASSUME NEW pr \in Programs, NEW m \in RamType, NEW k \in DOMAIN pr.insts
  PROVE  FaultsIn(pr, m, k) \subseteq CellFaults \cup {"BAD_OPERAND"}
  <1> DEFINE x == pr.insts[k]
  <1>1. x \in Instr /\ WellFormed(x) /\ x.tgts \in Seq(Seq(Cell)) /\ x.srcs \in Seq(Seq(Cell))
    BY ProgramType DEF Instr
  <1>2. CountsIn(pr, k) \subseteq CellFaults \cup {"BAD_OPERAND"}
    BY DEF CountsIn, CountFaultsIn
  <1>3. ASSUME NEW j \in DOMAIN x.tgts PROVE TgtIn(pr, m, k, j).faults \subseteq CellFaults
    <2> DEFINE c == x.tgts[j]
               p == TgtPos(pr, k, j - 1)
    <2>1. c \in Seq(Cell) /\ IsOperand(c, {"mem"})
      BY <1>1 DEF WellFormed
    <2>2. p \in Int
      <3> DEFINE n == j - 1
      <3>1. n \in Nat /\ n < Len(x.tgts)
        BY <1>1
      <3> HIDE DEF n
      <3>2. TgtPos(pr, k, n) \in Int
        BY <3>1, TgtPositions
      <3> QED BY <3>2 DEF n
    <2> HIDE DEF c, p
    <2>3. TgtAddr(pr, m, c, p).faults \subseteq CellFaults
      BY <2>1, <2>2, TgtAddrType
    <2> QED BY <2>3 DEF TgtIn, c, p
  <1>4. ASSUME NEW j \in DOMAIN x.srcs PROVE SrcIn(pr, m, k, j).faults \subseteq CellFaults
    <2> DEFINE c == x.srcs[j]
               p == IF x.m /\ j = 1 THEN TgtPos(pr, k, 0) ELSE SrcPos(pr, k, j - 1)
    <2>1. c \in Seq(Cell) /\ IsOperand(c, {"mem", "imm"})
      BY <1>1 DEF WellFormed
    <2>2. p \in Int
      <3> DEFINE n == j - 1
      <3>1. n \in Nat /\ n < Len(x.srcs) /\ (n = 0 <=> j = 1)
        BY <1>1
      <3>2. TgtPos(pr, k, 0) \in Int
        <4>1. StartOf(pr, k) \in Nat
          BY InstructionEnds
        <4>2. TgtPos(pr, k, 0) = StartOf(pr, k) + (1 + Count(VarTgts(x.op)))
          BY TgtPositions
        <4> QED BY <4>1, <4>2, CountFacts
      <3>3. CASE x.m /\ j = 1
        BY <3>2, <3>3
      <3>4. CASE ~(x.m /\ j = 1)
        <4>1. FirstSrc(x) <= n
          BY <3>1, <3>4 DEF FirstSrc
        <4> HIDE DEF n
        <4>2. SrcPos(pr, k, n) \in Int
          BY <3>1, <4>1, SrcPositions
        <4> QED BY <3>4, <4>2 DEF n
      <3> QED BY <3>3, <3>4
    <2> HIDE DEF c, p
    <2>3. SrcValue(pr, m, c, p, SrcSize(x.op)) \in Value
      BY <2>1, <2>2, SrcValueType, SizesOfAccess
    <2>4. SrcIn(pr, m, k, j) = SrcValue(pr, m, c, p, SrcSize(x.op))
      BY DEF SrcIn, c, p
    <2> QED BY <2>3, <2>4 DEF Value
  <1>5. ASSUME NEW e \in FaultsIn(pr, m, k) PROVE e \in CellFaults \cup {"BAD_OPERAND"}
    <2>1. \/ e \in CountsIn(pr, k)
          \/ \E j \in DOMAIN x.tgts : e \in TgtIn(pr, m, k, j).faults
          \/ \E j \in DOMAIN x.srcs : e \in SrcIn(pr, m, k, j).faults
      <3> DEFINE T == {TgtIn(pr, m, k, j).faults : j \in DOMAIN x.tgts}
                 U == {SrcIn(pr, m, k, j).faults : j \in DOMAIN x.srcs}
      <3>1. FaultsIn(pr, m, k) = CountsIn(pr, k) \cup (UNION T) \cup (UNION U)
        BY DEF FaultsIn
      <3>2. \A F \in T : \E j \in DOMAIN x.tgts : F = TgtIn(pr, m, k, j).faults
        OBVIOUS
      <3>3. \A F \in U : \E j \in DOMAIN x.srcs : F = SrcIn(pr, m, k, j).faults
        OBVIOUS
      <3> HIDE DEF T, U, x
      <3>4. e \in CountsIn(pr, k) \/ (\E F \in T : e \in F) \/ (\E F \in U : e \in F)
        BY <1>5, <3>1
      <3> QED BY <3>2, <3>3, <3>4
    <2> HIDE DEF x
    <2> QED BY <1>2, <1>3, <1>4, <2>1
  <1> QED BY <1>5

-----------------------------------------------------------------------------
(* What a step has done so far, related to the atomic one.                 *)

\* The operands read so far are those of the instruction, and their first
\* error is one of its errors.
Reading(k) ==
  /\ OnTrack(k) => \A j \in 1 .. Len(tgts) : tgts[j] = TgtIn(prog, ram0, k, j).v
  /\ err # "OK" => err \in FaultsIn(prog, ram0, k)
  /\ err = "OK" =>
       /\ \A j \in 1 .. Len(tgts) : TgtIn(prog, ram0, k, j).faults = {}
       /\ \A j \in 1 .. Len(srcs) :
            SrcIn(prog, ram0, k, j).faults = {} /\ srcs[j] = SrcIn(prog, ram0, k, j).v

\* The first w results are stored.
Writing(k) ==
  /\ inst = prog.insts[k] /\ ntgts = Len(inst.tgts)
  /\ FaultsIn(prog, ram0, k) = {}
  /\ \A j \in 1 .. ntgts : tgts[j] = TgtIn(prog, ram0, k, j).v
  /\ \E o \in OutcomesIn(prog, ram0, k) : o.err = "OK" /\ results = o.results /\ pc = o.pc
  /\ ram = StoredIn(prog, ram0, k, results, w) /\ exit_rc = exit0
  /\ err = (IF StoredTo(prog, ram0, k, w) THEN "OK" ELSE "BAD_ADDR")

\* The ways in which a step ends.
RanOff == Unmapped(prog, pc0) /\ rc = "BAD_ADDR" /\ ram = ram0 /\ exit_rc = exit0
Rejected(k) ==
  /\ \/ prog.insts[k].op = "UNDEF" /\ rc = "UNKNOWN_OPCODE"
     \/ prog.insts[k].op # "UNDEF" /\ rc \in FaultsIn(prog, ram0, k)
  /\ ram = ram0 /\ exit_rc = exit0
Executed(k) ==
  /\ prog.insts[k].op # "UNDEF" /\ FaultsIn(prog, ram0, k) = {}
  /\ \E o \in OutcomesIn(prog, ram0, k) :
       /\ IF o.err = "OK"
          THEN /\ ram = StoredIn(prog, ram0, k, o.results, Len(prog.insts[k].tgts))
               /\ rc = (IF StoredTo(prog, ram0, k, Len(prog.insts[k].tgts))
                        THEN "OK" ELSE "BAD_ADDR")
          ELSE ram = ram0 /\ rc = o.err
       /\ exit_rc = (IF o.err = "EXIT" THEN SrcsIn(prog, ram0, k)[1] ELSE exit0)
       /\ pc = o.pc

AtomInv ==
  /\ st \notin {"write", "returned"} => ram = ram0 /\ exit_rc = exit0
  /\ st \in Decoded \ {"write"} => \A k \in At(prog, pc0) : Reading(k)
  /\ st = "write" => \E k \in At(prog, pc0) : Writing(k)
  /\ st = "returned" => RanOff \/ \E k \in At(prog, pc0) : Rejected(k) \/ Executed(k)

\* An instruction that is decoded is the only one at pc0.
LEMMA Tracked ==
  ASSUME TypeInv, TrackInv, st \in Decoded, NEW k \in At(prog, pc0)
  PROVE  /\ inst = prog.insts[k] /\ (OnTrack(k) \/ LostTgts(k) \/ LostSrcs(k))
         /\ prog \in Programs /\ k \in DOMAIN prog.insts /\ StartOf(prog, k) = pc0
         /\ inst \in Instr /\ inst.op # "UNDEF" /\ ram0 \in RamType
  <1>1. prog \in Programs /\ Present(prog, pc0) /\ ram0 \in RamType
    BY DEF TypeInv, CodeInv, At, MachineInv
  <1>2. PICK j \in At(prog, pc0) : Track(j)
    BY <1>1 DEF TrackInv, Off, Unmapped
  <1>3. j = k
    BY <1>1, <1>2, OneInstruction
  <1>4. inst = prog.insts[k] /\ (OnTrack(k) \/ LostTgts(k) \/ LostSrcs(k))
    BY <1>2, <1>3 DEF Track
  <1>5. inst.op # "UNDEF"
    <2>1. inst.op \in Ops
      BY DEF TypeInv, OperandInv
    <2> QED BY <2>1, UndefinedOp
  <1> QED BY <1>1, <1>4, <1>5, Current

\* Where the operands are read is where they are.
LEMMA TgtRead ==
  ASSUME TypeInv, NEW k \in At(prog, pc0), inst = prog.insts[k], OnTrack(k), st = "tgts",
         Len(tgts) < ntgts
  PROVE  TgtAddr(prog, ram, inst.tgts[Len(tgts) + 1], pc) = TgtIn(prog, ram, k, Len(tgts) + 1)
  <1> DEFINE n == Len(tgts)
             p == TgtPos(prog, k, n)
  <1>1. prog \in Programs /\ k \in DOMAIN prog.insts
    BY Current
  <1>2. n \in Nat /\ n < Len(inst.tgts) /\ pc = Unsigned(p)
    BY NextTgt DEF OnTrack
  <1>3. p \in Int /\ StartOf(prog, k) <= p /\ p < StartOf(prog, k) + Size(inst)
    BY <1>1, <1>2, TgtPositions
  <1>4. pc = p
    <2> HIDE DEF p
    <2> QED BY <1>1, <1>2, <1>3, InstructionEnds
  <1>5. (n + 1) - 1 = n
    BY <1>2
  <1>6. TgtIn(prog, ram, k, n + 1) = TgtAddr(prog, ram, inst.tgts[n + 1], TgtPos(prog, k, (n + 1) - 1))
    BY DEF TgtIn
  <1> QED BY <1>4, <1>5, <1>6

LEMMA SrcRead ==
  ASSUME TypeInv, NEW k \in At(prog, pc0), inst = prog.insts[k], OnTrack(k), st = "srcs",
         Len(srcs) < nsrcs
  PROVE  SrcValue(prog, ram, inst.srcs[Len(srcs) + 1], pc, SrcSize(inst.op))
           = SrcIn(prog, ram, k, Len(srcs) + 1)
  <1> DEFINE n == Len(srcs)
             p == SrcPos(prog, k, n)
  <1>1. prog \in Programs /\ k \in DOMAIN prog.insts
    BY Current
  <1>2. n \in Nat /\ n < Len(inst.srcs) /\ pc = Unsigned(p) /\ FirstSrc(inst) <= n
    BY NextSrc DEF OnTrack
  <1>3. p \in Int /\ StartOf(prog, k) <= p /\ p < StartOf(prog, k) + Size(inst)
    BY <1>1, <1>2, SrcPositions
  <1>4. pc = p
    <2> HIDE DEF p
    <2> QED BY <1>1, <1>2, <1>3, InstructionEnds
  <1>5. (n + 1) - 1 = n /\ ~(inst.m /\ n + 1 = 1)
    BY <1>2 DEF FirstSrc
  <1>6. SrcIn(prog, ram, k, n + 1) =
          SrcValue(prog, ram, inst.srcs[n + 1],
                   IF inst.m /\ n + 1 = 1 THEN TgtPos(prog, k, 0) ELSE SrcPos(prog, k, (n + 1) - 1),
                   SrcSize(inst.op))
    BY DEF SrcIn
  <1> QED BY <1>4, <1>5, <1>6

LEMMA CountTgtsAt ==
  ASSUME TypeInv, NEW k \in At(prog, pc0), inst = prog.insts[k], OnTrack(k), st = "ntgts"
  PROVE  pc = StartOf(prog, k) + 1
  <1> DEFINE a == StartOf(prog, k)
  <1>1. /\ prog \in Programs /\ k \in DOMAIN prog.insts /\ a \in Nat /\ VarTgts(inst.op)
        /\ Size(inst) \in Nat /\ TgtCells(inst) \in Nat /\ TgtCells(inst) <= Size(inst)
    BY Current, SizeType DEF TypeInv, OperandInv
  <1>2. a + 2 <= a + TgtCells(inst)
    BY <1>1, TgtPositions
  <1>3. a + 1 \in Int /\ a <= a + 1 /\ a + 1 < a + Size(inst)
    BY <1>1, <1>2
  <1>4. Unsigned(a + 1) = a + 1
    <2>1. \A p \in Int : StartOf(prog, k) <= p /\ p < StartOf(prog, k) + Size(inst)
            => Unsigned(p) = p
      BY <1>1, InstructionEnds
    <2> QED BY <1>3, <2>1
  <1> QED BY <1>4 DEF OnTrack

LEMMA CountSrcsAt ==
  ASSUME TypeInv, NEW k \in At(prog, pc0), inst = prog.insts[k], OnTrack(k), st = "nsrcs"
  PROVE  pc = StartOf(prog, k) + TgtCells(inst)
  <1> DEFINE a == StartOf(prog, k)
             b == a + TgtCells(inst)
  <1>1. /\ prog \in Programs /\ k \in DOMAIN prog.insts /\ a \in Nat /\ VarSrcs(inst.op)
        /\ Size(inst) \in Nat /\ TgtCells(inst) \in Nat /\ Len(tgts) = ntgts
    BY Current, SizeType DEF TypeInv, OperandInv
  <1>2. b < a + Size(inst) /\ TgtPos(prog, k, Len(inst.tgts)) = b
    BY <1>1, SrcPositions, TgtPositions
  <1>3. b \in Int /\ a <= b
    BY <1>1
  <1>4. Unsigned(b) = b
    <2>1. \A p \in Int : StartOf(prog, k) <= p /\ p < StartOf(prog, k) + Size(inst)
            => Unsigned(p) = p
      BY <1>1, InstructionEnds
    <2> QED BY <1>2, <1>3, <2>1
  <1> QED BY <1>1, <1>2, <1>4 DEF OnTrack

\* Where a count is missing the instruction has the errors of a missing cell.
LEMMA LostFaults ==
  ASSUME NEW k, inst = prog.insts[k], LostTgts(k) \/ LostSrcs(k), NEW m
  PROVE  CellFaults \subseteq FaultsIn(prog, m, k) /\ err \in FaultsIn(prog, m, k)
  <1>1. CellFaults \subseteq CountsIn(prog, k) /\ err \in CellFaults
    BY DEF LostTgts, LostSrcs, CountsIn, CountFaultsIn
  <1> QED BY <1>1 DEF FaultsIn

\* An error of an operand or a count is one of the instruction.
LEMMA FaultsOfParts ==
  ASSUME NEW pr, NEW m, NEW k
  PROVE  /\ CountsIn(pr, k) \subseteq FaultsIn(pr, m, k)
         /\ \A j \in DOMAIN pr.insts[k].tgts : TgtIn(pr, m, k, j).faults \subseteq FaultsIn(pr, m, k)
         /\ \A j \in DOMAIN pr.insts[k].srcs : SrcIn(pr, m, k, j).faults \subseteq FaultsIn(pr, m, k)
         /\ /\ CountsIn(pr, k) = {}
            /\ \A j \in DOMAIN pr.insts[k].tgts : TgtIn(pr, m, k, j).faults = {}
            /\ \A j \in DOMAIN pr.insts[k].srcs : SrcIn(pr, m, k, j).faults = {}
            => FaultsIn(pr, m, k) = {}
  BY DEF FaultsIn

LEMMA AtomInvInit == Init => AtomInv
  BY DEF Init, AtomInv, Decoded

\* While operands are read only the operands matter.
LEMMA AtomDecoding ==
  ASSUME AtomInv, st \in Decoded \ {"write"}, Decoding, st' \in Decoded \ {"write"},
         \A k \in At(prog, pc0) : Reading(k)'
  PROVE  AtomInv'
  <1>1. /\ prog' = prog /\ ram0' = ram0 /\ pc0' = pc0 /\ exit0' = exit0
        /\ ram' = ram /\ exit_rc' = exit_rc
    BY DEF Decoding, fixedVars, hostVars
  <1> QED BY <1>1 DEF AtomInv, Decoded

LEMMA AtomRejects ==
  ASSUME AtomInv, st \in Decoded \ {"write"}, Decoding, st' = "returned",
         NEW k \in At(prog, pc0), prog.insts[k].op # "UNDEF", rc' \in FaultsIn(prog, ram0, k)
  PROVE  AtomInv'
  <1>1. /\ prog' = prog /\ ram0' = ram0 /\ pc0' = pc0 /\ exit0' = exit0
        /\ ram' = ram /\ exit_rc' = exit_rc
    BY DEF Decoding, fixedVars, hostVars
  <1>2. ram = ram0 /\ exit_rc = exit0
    BY DEF AtomInv, Decoded
  <1>3. Rejected(k)'
    BY <1>1, <1>2 DEF Rejected
  <1> QED BY <1>1, <1>3 DEF AtomInv, Decoded

LEMMA NoteKeeps ==
  ASSUME NEW r, Note(r), r.faults \subseteq CellFaults
  PROVE  (err' = err /\ r.faults = {}) \/ (err' \in r.faults /\ err' # "OK")
  BY DEF Note, CellFaults

\* Nothing new is read.
LEMMA ReadingKept ==
  ASSUME NEW k \in At(prog, pc0), Reading(k), Decoding, tgts' = tgts, srcs' = srcs,
         OnTrack(k)' => OnTrack(k) \/ Len(tgts) = 0,
         err' = err \/ (err' # "OK" /\ err' \in FaultsIn(prog, ram0, k))
  PROVE  Reading(k)'
  <1>1. prog' = prog /\ ram0' = ram0
    BY DEF Decoding, fixedVars
  <1> QED BY <1>1 DEF Reading

LEMMA AtomFetch ==
  ASSUME TypeInv, TrackInv, AtomInv, FetchUnmapped \/ FetchUndefined \/ FetchInst
  PROVE  AtomInv'
  <1>1. /\ st = "fetch" /\ prog' = prog /\ ram0' = ram0 /\ pc0' = pc0 /\ exit0' = exit0
        /\ ram' = ram /\ exit_rc' = exit_rc /\ ram = ram0 /\ exit_rc = exit0 /\ pc = pc0
        /\ tgts' = <<>> /\ srcs' = <<>>
    BY DEF FetchUnmapped, FetchUndefined, FetchInst, Fetch, fixedVars, hostVars, AtomInv,
      Decoded, TrackInv
  <1>2. CASE FetchUnmapped
    <2>1. At(prog, pc0) = {} /\ st' = "tgts"
      BY <1>1, <1>2 DEF FetchUnmapped, Unmapped, At
    <2> QED BY <1>1, <2>1 DEF AtomInv, Decoded
  <1>3. CASE FetchUndefined
    <2>1. PICK k \in At(prog, pc0) : prog.insts[k].op = "UNDEF"
      BY <1>1, <1>3 DEF FetchUndefined
    <2>2. Rejected(k)' /\ st' = "returned"
      BY <1>1, <1>3, <2>1 DEF FetchUndefined, Return, Rejected
    <2> QED BY <1>1, <2>1, <2>2 DEF AtomInv, Decoded
  <1>4. CASE FetchInst
    <2>1. st' \in {"ntgts", "tgts"} /\ err' = "OK"
      BY <1>4 DEF FetchInst
    <2>2. Len(<<>>) = 0
      OBVIOUS
    <2>3. \A k : Reading(k)'
      BY <1>1, <2>1, <2>2 DEF Reading
    <2> QED BY <1>1, <2>1, <2>3 DEF AtomInv, Decoded
  <1> QED BY <1>2, <1>3, <1>4

LEMMA AtomCountTgts ==
  ASSUME TypeInv, TrackInv, AtomInv, CountTgts
  PROVE  AtomInv'
  <1> DEFINE c == CountRead(ntgts)
  <1>1. /\ st = "ntgts" /\ Decoding /\ tgts' = tgts /\ srcs' = srcs /\ Len(tgts) = 0
        /\ VarTgts(inst.op) /\ st \in Decoded \ {"write"} /\ ntgts \in Nat
        /\ \/ c.v > MaxTgts /\ err' = "BAD_OPERAND" /\ Return(err')
           \/ Note(c) /\ st' = "tgts"
    BY EmptyIsSeq DEF CountTgts, TypeInv, BufferInv, OperandInv, CodeInv, Decoded
  <1>2. c.faults \subseteq CellFaults
    BY <1>1, CountFaultsType
  <1>3. ASSUME NEW k \in At(prog, pc0)
        PROVE  /\ inst = prog.insts[k] /\ Reading(k) /\ inst.op # "UNDEF"
               /\ ntgts = Len(inst.tgts)
               /\ c = (IF Present(prog, StartOf(prog, k) + 1)
                       THEN [v |-> ntgts, faults |-> {}] ELSE MissingCell)
    <2>1. inst = prog.insts[k] /\ inst.op # "UNDEF" /\ OnTrack(k)
      BY <1>1, Tracked DEF LostTgts, LostSrcs
    <2>2. pc = StartOf(prog, k) + 1
      BY <1>1, <2>1, CountTgtsAt
    <2>3. Reading(k)
      BY <1>1 DEF AtomInv
    <2> QED BY <2>1, <2>2, <2>3 DEF CountRead, OnTrack
  <1>4. CASE c.v > MaxTgts /\ err' = "BAD_OPERAND" /\ Return(err')
    <2>1. PICK k \in At(prog, pc0) : TRUE
      BY <1>1 DEF TrackInv, Off
    <2>2. Present(prog, StartOf(prog, k) + 1) /\ Len(inst.tgts) > MaxTgts
      BY <1>3, <1>4, LimitsAssumption DEF MissingCell
    <2>3. "BAD_OPERAND" \in CountsIn(prog, k)
      BY <1>1, <1>3, <2>2 DEF CountsIn, CountFaultsIn
    <2>4. "BAD_OPERAND" \in FaultsIn(prog, ram0, k)
      BY <2>3, FaultsOfParts
    <2> QED BY <1>1, <1>3, <1>4, <2>4, AtomRejects DEF Return
  <1>5. CASE Note(c) /\ st' = "tgts"
    <2>1. ASSUME NEW k \in At(prog, pc0) PROVE Reading(k)'
      <3>1. err' = err \/ (err' \in c.faults /\ err' # "OK")
        BY <1>2, <1>5, NoteKeeps
      <3>2. c.faults \subseteq FaultsIn(prog, ram0, k)
        <4>1. CASE Present(prog, StartOf(prog, k) + 1)
          BY <1>3, <4>1
        <4>2. CASE ~Present(prog, StartOf(prog, k) + 1)
          <5>1. c.faults = CellFaults
            BY <1>3, <4>2 DEF MissingCell, CellFaults
          <5>2. CellFaults \subseteq CountsIn(prog, k)
            BY <1>1, <1>3, <4>2 DEF CountsIn, CountFaultsIn
          <5> QED BY <5>1, <5>2, FaultsOfParts
        <4> QED BY <4>1, <4>2
      <3> QED BY <1>1, <1>3, <3>1, <3>2, ReadingKept
    <2> QED BY <1>1, <1>5, <2>1, AtomDecoding DEF Decoded
  <1> QED BY <1>1, <1>4, <1>5

LEMMA AtomReadTgt ==
  ASSUME TypeInv, TrackInv, AtomInv, ReadTgt
  PROVE  AtomInv'
  <1> DEFINE n == Len(tgts)
             r == TgtAddr(prog, ram, inst.tgts[n + 1], pc)
  <1>1. /\ st = "tgts" /\ n < ntgts /\ Decoding /\ tgts' = Append(tgts, r.v) /\ Note(r)
        /\ srcs' = srcs /\ st' = st /\ st \in Decoded \ {"write"} /\ ram = ram0
        /\ prog' = prog /\ ram0' = ram0
        /\ ntgts' = ntgts /\ nsrcs' = nsrcs /\ tgts \in Seq(Addrs)
    BY DEF ReadTgt, Decoding, fixedVars, AtomInv, Decoded, TypeInv, OperandInv
  <1>2. n \in Nat /\ n + 1 \in 1 .. ntgts /\ n + 1 \in DOMAIN inst.tgts
    BY <1>1, NextTgt
  <1>3. ASSUME NEW k \in At(prog, pc0) PROVE Reading(k)'
    <2>1. inst = prog.insts[k] /\ OnTrack(k) /\ Reading(k)
      <3>1. inst = prog.insts[k] /\ (OnTrack(k) \/ LostTgts(k) \/ LostSrcs(k))
        BY <1>1, Tracked
      <3>2. ntgts # 0
        BY <1>1, <1>2
      <3>3. Reading(k)
        BY <1>1 DEF AtomInv
      <3> QED BY <1>1, <3>1, <3>2, <3>3 DEF LostTgts, LostSrcs
    <2>2. r = TgtIn(prog, ram0, k, n + 1)
      BY <1>1, <2>1, TgtRead
    <2>3. r.faults \subseteq FaultsIn(prog, ram0, k)
      BY <1>2, <2>1, <2>2, FaultsOfParts
    <2>4. r.faults \subseteq CellFaults
      <3>1. /\ inst.tgts[n + 1] \in Seq(Cell) /\ IsOperand(inst.tgts[n + 1], {"mem"})
            /\ prog \in Programs /\ ram \in RamType /\ pc \in Int
        BY <1>1, NextTgt, AddrRange DEF TypeInv, CodeInv, MachineInv
      <3> QED BY <3>1, TgtAddrType
    <2> HIDE DEF r
    <2>5. (err' = err /\ r.faults = {}) \/ (err' \in r.faults /\ err' # "OK")
      BY <1>1, <2>4, NoteKeeps
    <2>6. /\ Len(tgts') = n + 1 /\ tgts'[n + 1] = r.v
          /\ \A j \in 1 .. n : tgts'[j] = tgts[j]
      BY <1>1
    <2>7. \A j \in 1 .. n + 1 : j \in 1 .. n \/ j = n + 1
      BY <1>2
    <2> HIDE DEF n
    <2>8. \A j \in 1 .. n : tgts[j] = TgtIn(prog, ram0, k, j).v
      BY <2>1 DEF Reading, n
    <2>9. \A j \in 1 .. Len(tgts') : tgts'[j] = TgtIn(prog, ram0, k, j).v
      BY <2>2, <2>6, <2>7, <2>8
    <2>10. err' # "OK" => err' \in FaultsIn(prog, ram0, k)
      BY <2>1, <2>3, <2>5 DEF Reading
    <2>11. err' = "OK" =>
             /\ \A j \in 1 .. Len(tgts') : TgtIn(prog, ram0, k, j).faults = {}
             /\ \A j \in 1 .. Len(srcs) :
                  SrcIn(prog, ram0, k, j).faults = {} /\ srcs[j] = SrcIn(prog, ram0, k, j).v
      <3> SUFFICES ASSUME err' = "OK"
                   PROVE  /\ \A j \in 1 .. Len(tgts') : TgtIn(prog, ram0, k, j).faults = {}
                          /\ \A j \in 1 .. Len(srcs) :
                               SrcIn(prog, ram0, k, j).faults = {} /\ srcs[j] = SrcIn(prog, ram0, k, j).v
        OBVIOUS
      <3>1. err = "OK" /\ r.faults = {}
        BY <2>5
      <3>2. /\ \A j \in 1 .. n : TgtIn(prog, ram0, k, j).faults = {}
            /\ \A j \in 1 .. Len(srcs) :
                 SrcIn(prog, ram0, k, j).faults = {} /\ srcs[j] = SrcIn(prog, ram0, k, j).v
        BY <2>1, <3>1 DEF Reading, n
      <3> QED BY <2>2, <2>6, <2>7, <3>1, <3>2
    <2> QED BY <1>1, <2>9, <2>10, <2>11 DEF Reading
  <1> HIDE DEF n, r
  <1>4. st' \in Decoded \ {"write"}
    BY <1>1
  <1> QED BY <1>1, <1>3, <1>4, AtomDecoding

LEMMA AtomTgtsRead ==
  ASSUME TypeInv, TrackInv, AtomInv, TgtsRead \/ NoRmw
  PROVE  AtomInv'
  <1>1. /\ st \in {"tgts", "rmw"} /\ Decoding /\ tgts' = tgts /\ srcs' = srcs /\ err' = err
        /\ (st = "tgts" => st' \in {"nsrcs", "rmw"}) /\ (st = "rmw" => st' = "srcs")
        /\ st \in Decoded \ {"write"} /\ st' \in Decoded \ {"write"}
        /\ prog' = prog /\ inst' = inst /\ ntgts' = ntgts
    BY DEF TgtsRead, NoRmw, Decoding, fixedVars, Decoded
  <1>2. ASSUME NEW k \in At(prog, pc0) PROVE Reading(k)'
    <2>1. /\ inst = prog.insts[k] /\ (OnTrack(k) \/ LostTgts(k) \/ LostSrcs(k))
          /\ Reading(k)
      BY <1>1, Tracked DEF AtomInv
    <2>2. OnTrack(k)' => OnTrack(k)
      BY <1>1, <2>1 DEF OnTrack, LostTgts, LostSrcs
    <2> QED BY <1>1, <2>1, <2>2, ReadingKept
  <1> QED BY <1>1, <1>2, AtomDecoding

LEMMA AtomCountSrcs ==
  ASSUME TypeInv, TrackInv, AtomInv, CountSrcs
  PROVE  AtomInv'
  <1> DEFINE c == CountRead(nsrcs)
  <1>1. /\ st = "nsrcs" /\ Decoding /\ tgts' = tgts /\ srcs' = srcs
        /\ VarSrcs(inst.op) /\ st \in Decoded \ {"write"} /\ nsrcs \in Nat
        /\ inst' = inst /\ prog' = prog /\ ntgts' = ntgts
        /\ \/ c.v > MaxSrcs /\ err' = "BAD_OPERAND" /\ Return(err')
           \/ Note(c) /\ st' = "rmw"
    BY DEF CountSrcs, TypeInv, OperandInv, CodeInv, Decoded, Decoding, fixedVars
  <1>2. c.faults \subseteq CellFaults
    BY <1>1, CountFaultsType
  <1>3. ASSUME NEW k \in At(prog, pc0)
        PROVE  /\ inst = prog.insts[k] /\ Reading(k) /\ inst.op # "UNDEF"
               /\ OnTrack(k) \/ LostTgts(k)
               /\ OnTrack(k) => nsrcs = Len(inst.srcs)
               /\ OnTrack(k) => c = (IF Present(prog, StartOf(prog, k) + TgtCells(inst))
                                     THEN [v |-> nsrcs, faults |-> {}] ELSE MissingCell)
    <2>1. inst = prog.insts[k] /\ inst.op # "UNDEF" /\ (OnTrack(k) \/ LostTgts(k))
      BY <1>1, Tracked DEF LostSrcs
    <2>2. OnTrack(k) => pc = StartOf(prog, k) + TgtCells(inst)
      BY <1>1, <2>1, CountSrcsAt
    <2>3. Reading(k)
      BY <1>1 DEF AtomInv
    <2> QED BY <2>1, <2>2, <2>3 DEF CountRead, OnTrack
  <1>4. CASE c.v > MaxSrcs /\ err' = "BAD_OPERAND" /\ Return(err')
    <2>1. PICK k \in At(prog, pc0) : TRUE
      BY <1>1 DEF TrackInv, Off
    <2>2. "BAD_OPERAND" \in FaultsIn(prog, ram0, k)
      <3>1. CASE OnTrack(k)
        <4>1. Present(prog, StartOf(prog, k) + TgtCells(inst)) /\ Len(inst.srcs) > MaxSrcs
          BY <1>3, <1>4, <3>1, LimitsAssumption DEF MissingCell
        <4>2. "BAD_OPERAND" \in CountsIn(prog, k)
          BY <1>1, <1>3, <4>1 DEF CountsIn, CountFaultsIn
        <4> QED BY <4>2, FaultsOfParts
      <3>2. LostTgts(k) => c = MissingCell
        <4> SUFFICES ASSUME LostTgts(k) PROVE ~Present(prog, pc)
          BY DEF CountRead
        <4> DEFINE a == StartOf(prog, k)
        <4>1. pc = a + 2 /\ ~Present(prog, a + 1)
          BY <1>1 DEF LostTgts
        <4>2. prog \in Programs /\ k \in DOMAIN prog.insts /\ k \in 1 .. Len(prog.insts) + 1
          BY <1>3, Current, ProgramType
        <4>3. CodeEnd(prog) \in Int /\ CodeBase \in Nat /\ CodeBase <= a /\ a \in Nat
          BY <4>2, CodeEndType, StartOfType, MapAssumption, AddrRange
        <4> HIDE DEF a
        <4> QED BY <4>1, <4>3 DEF Present
      <3>3. ~LostTgts(k)
        BY <1>4, <3>2, LimitsAssumption DEF MissingCell
      <3> QED BY <1>3, <3>1, <3>3
    <2> QED BY <1>1, <1>3, <1>4, <2>2, AtomRejects DEF Return
  <1>5. CASE Note(c) /\ st' = "rmw"
    <2>1. ASSUME NEW k \in At(prog, pc0) PROVE Reading(k)'
      <3>1. err' = err \/ (err' \in c.faults /\ err' # "OK")
        BY <1>2, <1>5, NoteKeeps
      <3>2. c.faults \subseteq FaultsIn(prog, ram0, k)
        <4>1. CASE LostTgts(k)
          BY <1>2, <1>3, <4>1, LostFaults
        <4>2. CASE OnTrack(k) /\ Present(prog, StartOf(prog, k) + TgtCells(inst))
          BY <1>3, <4>2
        <4>3. CASE OnTrack(k) /\ ~Present(prog, StartOf(prog, k) + TgtCells(inst))
          <5>1. c.faults = CellFaults
            BY <1>3, <4>3 DEF MissingCell, CellFaults
          <5>2. CellFaults \subseteq CountsIn(prog, k)
            BY <1>1, <1>3, <4>3 DEF CountsIn, CountFaultsIn
          <5> QED BY <5>1, <5>2, FaultsOfParts
        <4> QED BY <1>3, <4>1, <4>2, <4>3
      <3>3. OnTrack(k)' => OnTrack(k)
        BY <1>1, <1>3, <1>5 DEF OnTrack, LostTgts
      <3> QED BY <1>1, <1>3, <3>1, <3>2, <3>3, ReadingKept
    <2> QED BY <1>1, <1>5, <2>1, AtomDecoding DEF Decoded
  <1> QED BY <1>1, <1>4, <1>5

LEMMA AtomReadSrc ==
  ASSUME TypeInv, TrackInv, AtomInv, ReadSrc
  PROVE  AtomInv'
  <1> DEFINE n == Len(srcs)
             c == inst.srcs[n + 1]
             r == SrcValue(prog, ram, c, pc, SrcSize(inst.op))
  <1>1. /\ st = "srcs" /\ n < nsrcs /\ Decoding /\ srcs' = Append(srcs, r.v) /\ Note(r)
        /\ tgts' = tgts /\ st' = st /\ st \in Decoded \ {"write"} /\ ram = ram0
        /\ prog' = prog /\ ram0' = ram0 /\ srcs \in Seq(Words) /\ Len(tgts) \in Nat
        /\ tgts \in Seq(Addrs)
    BY DEF ReadSrc, Decoding, fixedVars, AtomInv, Decoded, TypeInv, OperandInv
  <1>2. n \in Nat /\ n + 1 \in 1 .. nsrcs /\ n + 1 \in DOMAIN inst.srcs
    BY <1>1, NextSrc
  <1>3. r.faults \subseteq CellFaults
    <2>1. /\ c \in Seq(Cell) /\ IsOperand(c, {"mem", "imm"})
          /\ prog \in Programs /\ ram \in RamType /\ pc \in Int
      BY <1>1, NextSrc, AddrRange DEF TypeInv, CodeInv, MachineInv
    <2> HIDE DEF c
    <2>2. r \in Value
      BY <2>1, SrcValueType, SizesOfAccess
    <2> QED BY <2>2 DEF Value
  <1>4. ASSUME NEW k \in At(prog, pc0) PROVE Reading(k)'
    <2>1. inst = prog.insts[k] /\ OnTrack(k) /\ Reading(k)
      <3>1. inst = prog.insts[k] /\ (OnTrack(k) \/ LostTgts(k) \/ LostSrcs(k))
        BY <1>1, Tracked
      <3>2. nsrcs # 0
        BY <1>1, <1>2
      <3>3. Reading(k)
        BY <1>1 DEF AtomInv
      <3> QED BY <1>1, <3>1, <3>2, <3>3 DEF LostTgts, LostSrcs
    <2>2. r = SrcIn(prog, ram0, k, n + 1)
      BY <1>1, <2>1, SrcRead
    <2>3. r.faults \subseteq FaultsIn(prog, ram0, k)
      BY <1>2, <2>1, <2>2, FaultsOfParts
    <2> HIDE DEF r
    <2>5. (err' = err /\ r.faults = {}) \/ (err' \in r.faults /\ err' # "OK")
      BY <1>1, <1>3, NoteKeeps
    <2>6. /\ Len(srcs') = n + 1 /\ srcs'[n + 1] = r.v
          /\ \A j \in 1 .. n : srcs'[j] = srcs[j]
      BY <1>1
    <2>7. \A j \in 1 .. n + 1 : j \in 1 .. n \/ j = n + 1
      BY <1>2
    <2> HIDE DEF n
    <2>9. \A j \in 1 .. Len(tgts) : tgts[j] = TgtIn(prog, ram0, k, j).v
      BY <2>1 DEF Reading
    <2>10. err' # "OK" => err' \in FaultsIn(prog, ram0, k)
      BY <2>1, <2>3, <2>5 DEF Reading
    <2>11. err' = "OK" =>
             /\ \A j \in 1 .. Len(tgts) : TgtIn(prog, ram0, k, j).faults = {}
             /\ \A j \in 1 .. Len(srcs') :
                  SrcIn(prog, ram0, k, j).faults = {} /\ srcs'[j] = SrcIn(prog, ram0, k, j).v
      <3> SUFFICES ASSUME err' = "OK"
                   PROVE  /\ \A j \in 1 .. Len(tgts) : TgtIn(prog, ram0, k, j).faults = {}
                          /\ \A j \in 1 .. Len(srcs') :
                               SrcIn(prog, ram0, k, j).faults = {} /\ srcs'[j] = SrcIn(prog, ram0, k, j).v
        OBVIOUS
      <3>1. err = "OK" /\ r.faults = {}
        BY <2>5
      <3>2. /\ \A j \in 1 .. Len(tgts) : TgtIn(prog, ram0, k, j).faults = {}
            /\ \A j \in 1 .. n :
                 SrcIn(prog, ram0, k, j).faults = {} /\ srcs[j] = SrcIn(prog, ram0, k, j).v
        BY <2>1, <3>1 DEF Reading, n
      <3> QED BY <2>2, <2>6, <2>7, <3>1, <3>2
    <2> QED BY <1>1, <2>9, <2>10, <2>11 DEF Reading
  <1> HIDE DEF n, r
  <1>5. st' \in Decoded \ {"write"}
    BY <1>1
  <1> QED BY <1>1, <1>4, <1>5, AtomDecoding

\* The first target is the first source.
LEMMA AtomRmw ==
  ASSUME TypeInv, TrackInv, AtomInv, \A pr \in Programs : Assembled(pr), Rmw
  PROVE  AtomInv'
  <1> DEFINE r == ReadAt(prog, ram, [v |-> tgts[1], faults |-> {}], SrcSize(inst.op))
  <1>1. /\ st = "rmw" /\ inst.m /\ ntgts > 0 /\ nsrcs > 0 /\ Decoding /\ st' = "srcs"
        /\ srcs' = <<r.v>> /\ Note(r) /\ tgts' = tgts /\ st \in Decoded \ {"write"}
        /\ ram = ram0 /\ prog' = prog /\ ram0' = ram0 /\ Len(tgts) = ntgts /\ ntgts \in Nat
    BY DEF Rmw, Decoding, fixedVars, AtomInv, Decoded, TypeInv, OperandInv, CodeInv
  <1>2. r.faults \subseteq CellFaults
    BY DEF ReadAt, CellFaults
  <1>3. ASSUME NEW k \in At(prog, pc0) PROVE Reading(k)'
    <2>1. inst = prog.insts[k] /\ OnTrack(k) /\ Reading(k) /\ inst.op # "UNDEF"
      <3>1. inst = prog.insts[k] /\ (OnTrack(k) \/ LostTgts(k) \/ LostSrcs(k))
            /\ inst.op # "UNDEF"
        BY <1>1, Tracked
      <3>3. Reading(k)
        BY <1>1 DEF AtomInv
      <3> QED BY <1>1, <3>1, <3>3 DEF LostTgts, LostSrcs
    <2>2. /\ prog \in Programs /\ k \in DOMAIN prog.insts /\ inst \in Instr /\ WellFormed(inst)
          /\ Len(inst.tgts) = ntgts /\ Len(inst.srcs) = nsrcs /\ ram0 \in RamType
      BY <2>1, Current DEF OnTrack, TypeInv, MachineInv
    <2>3. inst.op # "NOP"
      <3>1. ~VarTgts("NOP") /\ Arity("NOP") = <<0, 0>>
        BY NopHasNoCount, ArityOfNop DEF NopInst
      <3> QED BY <1>1, <2>1, <2>2, <3>1 DEF WellFormed
    <2>4. inst.srcs[1] = inst.tgts[1]
      BY <1>1, <2>1, <2>2, <2>3 DEF Assembled
    <2> DEFINE c == inst.tgts[1]
               at == TgtPos(prog, k, 0)
               size == SrcSize(inst.op)
    <2>5. 1 \in DOMAIN inst.tgts /\ 1 \in DOMAIN inst.srcs /\ 1 \in 1 .. Len(tgts)
      BY <1>1, <2>2 DEF Instr
    <2>6. c \in Seq(Cell) /\ IsOperand(c, {"mem"}) /\ at \in Int /\ size \in Sizes
      <3>1. c \in Seq(Cell)
        BY <2>2, <2>5 DEF Instr
      <3>2. IsOperand(c, {"mem"})
        BY <2>2, <2>5 DEF WellFormed
      <3>3. at = StartOf(prog, k) + (1 + Count(VarTgts(inst.op)))
        BY <2>1, <2>2, TgtPositions
      <3>4. StartOf(prog, k) \in Nat
        BY <2>2, InstructionEnds
      <3>5. at \in Int
        BY <3>3, <3>4, CountFacts
      <3> QED BY <3>1, <3>2, <3>5, SizesOfAccess
    <2>7. /\ TgtIn(prog, ram0, k, 1) = TgtAddr(prog, ram0, c, at)
          /\ SrcIn(prog, ram0, k, 1) = SrcValue(prog, ram0, c, at, size)
      BY <1>1, <2>1, <2>4 DEF TgtIn, SrcIn
    <2>8. tgts[1] = TgtAddr(prog, ram0, c, at).v
      BY <2>1, <2>5, <2>7 DEF Reading
    <2>9. r = ReadAt(prog, ram0, [v |-> TgtAddr(prog, ram0, c, at).v, faults |-> {}], size)
      BY <1>1, <2>8
    <2> HIDE DEF c, at, size, r
    <2>10. /\ r.faults \subseteq SrcIn(prog, ram0, k, 1).faults
           /\ TgtIn(prog, ram0, k, 1).faults = {} => r = SrcIn(prog, ram0, k, 1)
      BY <2>2, <2>6, <2>7, <2>9, SharedValue
    <2>11. r.faults \subseteq FaultsIn(prog, ram0, k)
      BY <2>1, <2>5, <2>10, FaultsOfParts
    <2>12. (err' = err /\ r.faults = {}) \/ (err' \in r.faults /\ err' # "OK")
      BY <1>1, <1>2, NoteKeeps DEF r
    <2>13. Len(srcs') = 1 /\ srcs'[1] = r.v /\ \A j \in 1 .. 1 : j = 1
      BY <1>1 DEF r
    <2>14. err' = "OK" => err = "OK" /\ r = SrcIn(prog, ram0, k, 1) /\ r.faults = {}
      BY <2>1, <2>5, <2>10, <2>12 DEF Reading
    <2>15. err' # "OK" => err' \in FaultsIn(prog, ram0, k)
      BY <2>1, <2>11, <2>12 DEF Reading
    <2>16. \A j \in 1 .. Len(tgts) : tgts[j] = TgtIn(prog, ram0, k, j).v
      BY <2>1 DEF Reading
    <2>17. err' = "OK" => \A j \in 1 .. Len(tgts) : TgtIn(prog, ram0, k, j).faults = {}
      BY <2>1, <2>14 DEF Reading
    <2> QED BY <1>1, <2>13, <2>14, <2>15, <2>16, <2>17 DEF Reading
  <1>4. st' \in Decoded \ {"write"}
    BY <1>1 DEF Decoded
  <1> QED BY <1>1, <1>3, <1>4, AtomDecoding

LEMMA AtomRmwWithoutOperand ==
  ASSUME TypeInv, TrackInv, AtomInv, \A pr \in Programs : Assembled(pr), RmwWithoutOperand
  PROVE  AtomInv'
  <1>1. /\ st = "rmw" /\ Decoding /\ st' = "returned" /\ st \in Decoded
        /\ rc' = (IF err = "BAD_OPERAND" THEN "EXIT" ELSE "OK") /\ pc' = pc
        /\ prog' = prog /\ ram0' = ram0 /\ pc0' = pc0 /\ exit0' = exit0
        /\ ram' = ram0 /\ exit_rc' = exit0
    BY DEF RmwWithoutOperand, Return, Decoding, fixedVars, hostVars, AtomInv, Decoded
  <1>2. PICK k \in At(prog, pc0) : inst = prog.insts[k] /\ OnTrack(k) /\ inst.op = "NOP"
    BY NothingRead
  <1>3. /\ prog \in Programs /\ k \in DOMAIN prog.insts /\ inst \in Instr /\ WellFormed(inst)
        /\ ram0 \in RamType /\ Size(inst) \in Nat /\ pc0 \in Nat /\ StartOf(prog, k) = pc0
    BY <1>2, Current DEF TypeInv, MachineInv
  <1>4. ~VarTgts("NOP") /\ ~VarSrcs("NOP") /\ Arity("NOP") = <<0, 0>>
    BY NopHasNoCount, ArityOfNop DEF NopInst
  <1>5. inst.tgts = <<>> /\ inst.srcs = <<>> /\ Len(inst.tgts) = 0
    <2>1. /\ inst.tgts \in Seq(Seq(Cell)) /\ inst.srcs \in Seq(Seq(Cell))
          /\ Len(inst.tgts) = 0 /\ Len(inst.srcs) = 0
      BY <1>2, <1>3, <1>4 DEF WellFormed, Instr
    <2> QED BY <2>1
  <1>6. FaultsIn(prog, ram0, k) = {}
    <2>1. DOMAIN inst.tgts = {} /\ DOMAIN inst.srcs = {}
      BY <1>5
    <2>2. CountsIn(prog, k) = {}
      BY <1>2, <1>4 DEF CountsIn, CountFaultsIn
    <2> QED BY <1>2, <2>1, <2>2, FaultsOfParts
  <1>7. err = "OK"
    BY <1>1, <1>2, <1>6 DEF AtomInv, Reading
  <1> DEFINE p == StartOf(prog, k) + Size(inst)
  <1>8. pc = Unsigned(p)
    <2>1. StartOf(prog, k) + Size(inst) = StartOf(prog, k) + (TgtCells(inst) + Count(VarSrcs(inst.op)))
      BY <1>2, <1>3, <1>5, SrcPositions
    <2> QED BY <1>1, <1>2, <2>1 DEF OnTrack
  <1> DEFINE o == Outcome("OK", <<>>, p)
  <1>9. o \in OutcomesIn(prog, ram0, k)
    BY <1>2, DispatchNop DEF OutcomesIn
  <1>10. o.err = "OK" /\ o.results = <<>> /\ o.pc = Unsigned(p)
    BY DEF Outcome
  <1> HIDE DEF o, p
  <1>11. /\ StoredIn(prog, ram0, k, o.results, Len(inst.tgts)) = ram0
         /\ StoredTo(prog, ram0, k, Len(inst.tgts))
    BY <1>3, <1>5, StoredNone DEF StoredTo
  <1>12. Executed(k)'
    BY <1>1, <1>2, <1>4, <1>6, <1>7, <1>8, <1>9, <1>10, <1>11 DEF Executed
  <1> QED BY <1>1, <1>2, <1>12 DEF AtomInv, Decoded

LEMMA AtomSrcsRead ==
  ASSUME TypeInv, TrackInv, AtomInv, SrcsRead
  PROVE  AtomInv'
  <1>1. /\ st = "srcs" /\ Decoding /\ tgts' = tgts /\ srcs' = srcs /\ err' = err
        /\ prog' = prog /\ ram0' = ram0 /\ pc0' = pc0 /\ exit0' = exit0
        /\ ram' = ram0 /\ exit_rc' = exit0 /\ inst' = inst /\ ntgts' = ntgts
        /\ st \in Decoded \ {"write"}
    BY DEF SrcsRead, Decoding, fixedVars, hostVars, AtomInv, Decoded
  <1>2. CASE err # "OK"
    <2>1. st' = "returned" /\ rc' = err
      BY <1>2 DEF SrcsRead, Return
    <2>2. CASE Off
      <3>1. RanOff'
        BY <1>1, <2>1, <2>2 DEF RanOff, Off, Unmapped
      <3> QED BY <2>1, <3>1 DEF AtomInv, Decoded
    <2>3. CASE \E k \in At(prog, pc0) : Track(k)
      <3>1. PICK k \in At(prog, pc0) : Track(k)
        BY <2>3
      <3>2. inst = prog.insts[k] /\ inst.op # "UNDEF" /\ Reading(k)
        BY <1>1, <3>1, Tracked DEF AtomInv
      <3>3. rc' \in FaultsIn(prog, ram0, k)
        BY <1>2, <2>1, <3>2 DEF Reading
      <3> QED BY <1>1, <2>1, <3>2, <3>3, AtomRejects
    <2> QED BY <1>1, <2>2, <2>3 DEF TrackInv, Decoded
  <1>3. CASE err = "OK"
    <2>1. st' = "dispatch"
      BY <1>3 DEF SrcsRead
    <2>2. ASSUME NEW k \in At(prog, pc0) PROVE Reading(k)'
      <3>1. /\ inst = prog.insts[k] /\ (OnTrack(k) \/ LostTgts(k) \/ LostSrcs(k))
            /\ Reading(k)
        BY <1>1, Tracked DEF AtomInv
      <3>2. OnTrack(k)
        BY <1>3, <3>1 DEF LostTgts, LostSrcs, CellFaults
      <3> QED BY <1>1, <3>1, <3>2, ReadingKept
    <2> QED BY <1>1, <2>1, <2>2, AtomDecoding DEF Decoded
  <1> QED BY <1>2, <1>3

\* dispatch() finds the operands of the instruction, without an error.
LEMMA AtomDispatch ==
  ASSUME TypeInv, TrackInv, AtomInv, st = "dispatch"
  PROVE  \E k \in At(prog, pc0) :
           /\ inst = prog.insts[k] /\ ntgts = Len(inst.tgts) /\ inst.op # "UNDEF"
           /\ FaultsIn(prog, ram0, k) = {}
           /\ \A j \in 1 .. ntgts : tgts[j] = TgtIn(prog, ram0, k, j).v
           /\ srcs = SrcsIn(prog, ram0, k)
           /\ Dispatch(inst.op, srcs, ntgts, pc) = OutcomesIn(prog, ram0, k)
  <1>1. /\ st \in Decoded /\ err = "OK" /\ Len(tgts) = ntgts /\ Len(srcs) = nsrcs
        /\ srcs \in Seq(Words) /\ ~Off
    BY DEF TypeInv, RamInv, OperandInv, Decoded, Off
  <1>2. PICK k \in At(prog, pc0) : Track(k)
    BY <1>1 DEF TrackInv
  <1>3. /\ inst = prog.insts[k] /\ OnTrack(k) /\ Reading(k) /\ inst.op # "UNDEF"
        /\ prog \in Programs /\ k \in DOMAIN prog.insts /\ inst \in Instr
    BY <1>1, <1>2, Tracked DEF LostTgts, LostSrcs, AtomInv, Decoded
  <1>4. ntgts = Len(inst.tgts) /\ nsrcs = Len(inst.srcs) /\ ntgts \in Nat /\ nsrcs \in Nat
        /\ pc = Unsigned(StartOf(prog, k) + Size(inst))
    BY <1>3, <1>1 DEF OnTrack, TypeInv, CodeInv
  <1>5. DOMAIN inst.tgts = 1 .. ntgts /\ DOMAIN inst.srcs = 1 .. nsrcs
    <2>1. inst.tgts \in Seq(Seq(Cell)) /\ inst.srcs \in Seq(Seq(Cell))
      BY <1>3 DEF Instr
    <2> QED BY <1>4, <2>1
  <1>6. CountsIn(prog, k) = {}
    <2>1. VarTgts(inst.op) =>
            Present(prog, StartOf(prog, k) + 1) /\ ~(Len(inst.tgts) > MaxTgts)
      BY <1>3, <1>4, LimitsAssumption DEF OnTrack
    <2>2. VarSrcs(inst.op) =>
            Present(prog, StartOf(prog, k) + TgtCells(inst)) /\ ~(Len(inst.srcs) > MaxSrcs)
      BY <1>3, <1>4, LimitsAssumption DEF OnTrack
    <2> QED BY <1>3, <2>1, <2>2 DEF CountsIn, CountFaultsIn
  <1>7. /\ \A j \in 1 .. ntgts : TgtIn(prog, ram0, k, j).faults = {}
        /\ \A j \in 1 .. ntgts : tgts[j] = TgtIn(prog, ram0, k, j).v
        /\ \A j \in 1 .. nsrcs :
             SrcIn(prog, ram0, k, j).faults = {} /\ srcs[j] = SrcIn(prog, ram0, k, j).v
    BY <1>1, <1>3 DEF Reading
  <1>8. FaultsIn(prog, ram0, k) = {}
    BY <1>3, <1>5, <1>6, <1>7, FaultsOfParts
  <1>9. srcs = SrcsIn(prog, ram0, k)
    <2> DEFINE F == [j \in 1 .. nsrcs |-> SrcIn(prog, ram0, k, j).v]
    <2>1. SrcsIn(prog, ram0, k) = F
      BY <1>3, <1>5 DEF SrcsIn
    <2>2. srcs = [j \in 1 .. nsrcs |-> srcs[j]]
      BY <1>1
    <2>3. srcs = F
      BY <1>7, <2>2
    <2> QED BY <2>1, <2>3
  <1>10. Dispatch(inst.op, srcs, ntgts, pc) = OutcomesIn(prog, ram0, k)
    <2> DEFINE p == StartOf(prog, k) + Size(inst)
    <2>1. p \in Int
      BY <1>3, InstructionEnds
    <2>2. inst.op \in Ops /\ Fits(inst.op, srcs, ntgts) /\ srcs \in Seq(Words) /\ ntgts \in Nat
      BY OperandsFit
    <2>3. OutcomesIn(prog, ram0, k) = Dispatch(inst.op, srcs, ntgts, p)
      BY <1>3, <1>4, <1>9 DEF OutcomesIn
    <2> HIDE DEF p
    <2>4. Dispatch(inst.op, srcs, ntgts, Unsigned(p)) = Dispatch(inst.op, srcs, ntgts, p)
      BY <2>1, <2>2, DispatchFrom
    <2> QED BY <1>4, <2>3, <2>4 DEF p
  <1> QED BY <1>3, <1>4, <1>7, <1>8, <1>9, <1>10

LEMMA AtomExecute ==
  ASSUME TypeInv, TrackInv, AtomInv, Execute
  PROVE  AtomInv'
  <1>1. PICK o \in Dispatch(inst.op, srcs, ntgts, pc) :
          /\ Dispatched(o) /\ results' = o.results
          /\ IF err' # "OK" THEN Return(err') ELSE st' = "write" /\ rc' = rc
    BY DEF Execute
  <1>2. /\ st = "dispatch" /\ err = "OK" /\ w = 0 /\ ram = ram0 /\ exit_rc = exit0
        /\ ram0 \in RamType
    BY DEF Execute, TypeInv, RamInv, MachineInv, Before, AtomInv
  <1>3. /\ err' = o.err /\ pc' = o.pc
        /\ exit_rc' = (IF o.err = "EXIT" THEN srcs[1] ELSE exit0)
        /\ prog' = prog /\ ram0' = ram0 /\ pc0' = pc0 /\ exit0' = exit0
        /\ inst' = inst /\ ntgts' = ntgts /\ ram' = ram0 /\ tgts' = tgts /\ w' = 0
    BY <1>1, <1>2 DEF Dispatched, fixedVars, decodeVars
  <1>4. PICK k \in At(prog, pc0) :
           /\ inst = prog.insts[k] /\ ntgts = Len(inst.tgts) /\ inst.op # "UNDEF"
           /\ FaultsIn(prog, ram0, k) = {}
           /\ \A j \in 1 .. ntgts : tgts[j] = TgtIn(prog, ram0, k, j).v
           /\ srcs = SrcsIn(prog, ram0, k)
           /\ Dispatch(inst.op, srcs, ntgts, pc) = OutcomesIn(prog, ram0, k)
    BY <1>2, AtomDispatch
  <1>5. o \in OutcomesIn(prog, ram0, k)
    BY <1>1, <1>4
  <1>6. CASE o.err = "OK"
    <2>1. st' = "write" /\ results' = o.results /\ exit_rc' = exit0
      BY <1>1, <1>3, <1>6
    <2>2. StoredIn(prog, ram0, k, o.results, 0) = ram0 /\ StoredTo(prog, ram0, k, 0)
      BY <1>2, StoredNone DEF StoredTo
    <2>3. Writing(k)'
      BY <1>3, <1>4, <1>5, <1>6, <2>1, <2>2 DEF Writing
    <2> QED BY <1>3, <2>1, <2>3 DEF AtomInv, Decoded
  <1>7. CASE o.err # "OK"
    <2>1. st' = "returned" /\ rc' = o.err
      BY <1>1, <1>3, <1>7 DEF Return
    <2>2. Executed(k)'
      BY <1>3, <1>4, <1>5, <1>7, <2>1 DEF Executed
    <2> QED BY <1>3, <2>1, <2>2 DEF AtomInv, Decoded
  <1> QED BY <1>6, <1>7

LEMMA StoredToNext ==
  ASSUME NEW pr, NEW m, NEW k, NEW n \in Nat
  PROVE  StoredTo(pr, m, k, n + 1) <=>
           StoredTo(pr, m, k, n) /\ InRam(TgtIn(pr, m, k, n + 1).v, TgtSize(pr.insts[k].op))
  <1>1. \A j : j \in 1 .. n + 1 <=> j \in 1 .. n \/ j = n + 1
    OBVIOUS
  <1> QED BY <1>1 DEF StoredTo

LEMMA AtomWrite ==
  ASSUME TypeInv, TrackInv, AtomInv, Write
  PROVE  AtomInv'
  <1>1. PICK k \in At(prog, pc0) : Writing(k)
    BY DEF AtomInv, Write
  <1> DEFINE a == tgts[w + 1]
             size == TgtSize(inst.op)
             v == results[w + 1]
  <1>2. /\ st = "write" /\ w < ntgts /\ w' = w + 1 /\ w \in Nat /\ ntgts \in Nat /\ st' = st
        /\ prog' = prog /\ ram0' = ram0 /\ pc0' = pc0 /\ exit0' = exit0 /\ exit_rc' = exit_rc
        /\ inst' = inst /\ ntgts' = ntgts /\ tgts' = tgts /\ results' = results /\ pc' = pc
        /\ ram0 \in RamType
        /\ IF InRam(a, size) THEN ram' = Store(ram, a, v, size) /\ err' = err
           ELSE err' = "BAD_ADDR" /\ ram' = ram
    BY DEF Write, Store1, fixedVars, decodeVars, TypeInv, RamInv, CodeInv, MachineInv
  <1>3. w + 1 \in 1 .. ntgts
    BY <1>2
  <1>4. a = TgtIn(prog, ram0, k, w + 1).v /\ size = TgtSize(prog.insts[k].op)
    BY <1>1, <1>3 DEF Writing
  <1>5. StoredIn(prog, ram0, k, results, w + 1) =
          IF InRam(a, size) THEN Store(StoredIn(prog, ram0, k, results, w), a, v, size)
          ELSE StoredIn(prog, ram0, k, results, w)
    BY <1>2, <1>4, StoredNext
  <1>6. StoredTo(prog, ram0, k, w + 1) <=> StoredTo(prog, ram0, k, w) /\ InRam(a, size)
    BY <1>2, <1>4, StoredToNext
  <1> HIDE DEF a, size, v
  <1>7. /\ ram = StoredIn(prog, ram0, k, results, w)
        /\ err = (IF StoredTo(prog, ram0, k, w) THEN "OK" ELSE "BAD_ADDR")
    BY <1>1 DEF Writing
  <1>8. /\ ram' = StoredIn(prog, ram0, k, results, w + 1)
        /\ err' = (IF StoredTo(prog, ram0, k, w + 1) THEN "OK" ELSE "BAD_ADDR")
    <2>1. CASE InRam(a, size)
      BY <1>2, <1>5, <1>6, <1>7, <2>1
    <2>2. CASE ~InRam(a, size)
      BY <1>2, <1>5, <1>6, <1>7, <2>2
    <2> QED BY <2>1, <2>2
  <1>9. Writing(k)'
    BY <1>1, <1>2, <1>8 DEF Writing
  <1> QED BY <1>1, <1>2, <1>9 DEF AtomInv, Decoded

LEMMA AtomWritten ==
  ASSUME TypeInv, TrackInv, AtomInv, Written
  PROVE  AtomInv'
  <1>1. /\ st = "write" /\ w = ntgts /\ st' = "returned" /\ rc' = err
        /\ prog' = prog /\ ram0' = ram0 /\ pc0' = pc0 /\ exit0' = exit0
        /\ ram' = ram /\ exit_rc' = exit_rc /\ pc' = pc
    BY DEF Written, Return, fixedVars, hostVars
  <1>2. PICK k \in At(prog, pc0) : Writing(k)
    BY <1>1 DEF AtomInv
  <1>3. prog.insts[k].op # "UNDEF"
    <2>1. inst.op \in Ops
      BY <1>1 DEF TypeInv, OperandInv, Decoded
    <2> QED BY <1>2, <2>1, UndefinedOp DEF Writing
  <1>4. Executed(k)'
    BY <1>1, <1>2, <1>3 DEF Executed, Writing
  <1> QED BY <1>1, <1>2, <1>4 DEF AtomInv, Decoded

LEMMA AtomReturns ==
  ASSUME TypeInv, TrackInv, AtomInv, NextStep \/ RunReturns \/ Rerun
  PROVE  AtomInv'
  <1>1. /\ st' \in {"fetch", "stopped"} /\ ram' = ram /\ exit_rc' = exit_rc
        /\ \/ ram0' = ram /\ exit0' = exit_rc
           \/ ram0' = ram0 /\ exit0' = exit0 /\ st = "stopped"
    BY DEF NextStep, RunReturns, Rerun, fixedVars, hostVars
  <1> QED BY <1>1 DEF AtomInv, Decoded

LEMMA AtomInvNext ==
  ASSUME TypeInv, TrackInv, AtomInv, \A pr \in Programs : Assembled(pr), [Next]_vars
  PROVE  AtomInv'
  <1>1. CASE Stopped \/ UNCHANGED vars
    <2>1. UNCHANGED vars
      BY <1>1 DEF Stopped
    <2> QED BY <2>1 DEF vars, fixedVars, decodeVars, dataVars, hostVars, AtomInv, Reading,
      OnTrack, Writing, RanOff, Rejected, Executed
  <1> QED BY <1>1, AtomFetch, AtomCountTgts, AtomReadTgt, AtomTgtsRead, AtomCountSrcs, AtomRmw,
    AtomRmwWithoutOperand, AtomReadSrc, AtomSrcsRead, AtomExecute, AtomWrite, AtomWritten,
    AtomReturns DEF Next

-----------------------------------------------------------------------------
(* The operators of VmSpec are those of VmCode.                            *)

LEMMA AbsPresent == \A pr, a : Abs!Present(pr, a) = Present(pr, a)
  BY
    DEF Abs!Values, Abs!WordBits, Abs!IntMax, Abs!IntMin, Abs!Words, Abs!Addrs,
      Abs!SumTo, Abs!Unsigned, Abs!ZeroExtend, Abs!SignExtend, Abs!Wrap, Abs!Span,
      Abs!Load, Abs!Store, Abs!TestOps, Abs!BranchIfOps, Abs!MoveIfOps, Abs!DivOps,
      Abs!VarSrcOps, Abs!UnaryOps, Abs!LoadOps, Abs!StoreOps, Abs!BinaryOps,
      Abs!LongOps, Abs!ComputeOps, Abs!SysArity, Abs!SysOps, Abs!JumpOps, Abs!LinkOps,
      Abs!Ops, Abs!VarTgts, Abs!VarSrcs, Abs!Arity, Abs!TgtSize, Abs!SrcSize,
      Abs!EncodedSrcs, Abs!Cells, Abs!Count, Abs!TgtCells, Abs!Size, Abs!StartOf,
      Abs!CodeEnd, Abs!Present, Values, WordBits, IntMax, IntMin, Words, Addrs, SumTo,
      Unsigned, ZeroExtend, SignExtend, Wrap, Span, Load, Store, TestOps, BranchIfOps,
      MoveIfOps, DivOps, VarSrcOps, UnaryOps, LoadOps, StoreOps, BinaryOps, LongOps,
      ComputeOps, SysArity, SysOps, JumpOps, LinkOps, Ops, VarTgts, VarSrcs, Arity,
      TgtSize, SrcSize, EncodedSrcs, Cells, Count, TgtCells, Size, StartOf, CodeEnd,
      Present

LEMMA AbsReadAt == \A pr, m, a, z : Abs!ReadAt(pr, m, a, z) = ReadAt(pr, m, a, z)
  BY
    DEF Abs!Values, Abs!WordBits, Abs!IntMax, Abs!IntMin, Abs!Words, Abs!Addrs,
      Abs!SumTo, Abs!Unsigned, Abs!ZeroExtend, Abs!SignExtend, Abs!Wrap, Abs!Span,
      Abs!Load, Abs!Store, Abs!TestOps, Abs!BranchIfOps, Abs!MoveIfOps, Abs!DivOps,
      Abs!VarSrcOps, Abs!UnaryOps, Abs!LoadOps, Abs!StoreOps, Abs!BinaryOps,
      Abs!LongOps, Abs!ComputeOps, Abs!SysArity, Abs!SysOps, Abs!JumpOps, Abs!LinkOps,
      Abs!Ops, Abs!VarTgts, Abs!VarSrcs, Abs!Arity, Abs!TgtSize, Abs!SrcSize,
      Abs!EncodedSrcs, Abs!Cells, Abs!Count, Abs!TgtCells, Abs!Size, Abs!StartOf,
      Abs!CodeEnd, Abs!Present, Abs!InRam, Abs!InCode, Abs!Readable, Abs!HostRead,
      Abs!ReadAt, Values, WordBits, IntMax, IntMin, Words, Addrs, SumTo, Unsigned,
      ZeroExtend, SignExtend, Wrap, Span, Load, Store, TestOps, BranchIfOps, MoveIfOps,
      DivOps, VarSrcOps, UnaryOps, LoadOps, StoreOps, BinaryOps, LongOps, ComputeOps,
      SysArity, SysOps, JumpOps, LinkOps, Ops, VarTgts, VarSrcs, Arity, TgtSize,
      SrcSize, EncodedSrcs, Cells, Count, TgtCells, Size, StartOf, CodeEnd, Present,
      InRam, InCode, Readable, HostRead, ReadAt

LEMMA AbsWords ==
  /\ \A v : Abs!Unsigned(v) = Unsigned(v)
  /\ \A v, z : Abs!ZeroExtend(v, z) = ZeroExtend(v, z)
  /\ Abs!MissingCell = MissingCell
  BY DEF Abs!Unsigned, Abs!Values, Abs!ZeroExtend, Abs!MissingCell, Unsigned, Values,
    ZeroExtend, MissingCell

LEMMA AbsIndirect == \A pr, m, b, r : Abs!Indirect(pr, m, b, r) = Indirect(pr, m, b, r)
  BY AbsReadAt, AbsWords DEF Abs!Indirect, Indirect

LEMMA AbsCell ==
  ASSUME NEW pr, NEW m, NEW c, NEW at, NEW z, NEW r
  PROVE  Abs!CellValue(pr, m, c, at, z, r) = CellValue(pr, m, c, at, z, r)
  BY AbsPresent, AbsReadAt, AbsWords, AbsIndirect DEF Abs!CellValue, CellValue

LEMMA AbsRest ==
  ASSUME NEW pr, NEW m, NEW c, NEW at, NEW z
  PROVE  Abs!Rest(pr, m, c, at, z) = Rest(pr, m, c, at, z)
  BY AbsCell DEF Abs!Rest, Rest

LEMMA AbsTgtAddr ==
  ASSUME NEW pr, NEW m, NEW c, NEW at
  PROVE  Abs!TgtAddr(pr, m, c, at) = TgtAddr(pr, m, c, at)
  BY AbsPresent, AbsWords, AbsIndirect, AbsRest DEF Abs!TgtAddr, TgtAddr

LEMMA AbsSrcValue ==
  ASSUME NEW pr, NEW m, NEW c, NEW at, NEW z
  PROVE  Abs!SrcValue(pr, m, c, at, z) = SrcValue(pr, m, c, at, z)
  BY AbsRest DEF Abs!SrcValue, SrcValue

LEMMA AbsAt == \A pr, a : Abs!At(pr, a) = At(pr, a) /\ Abs!Unmapped(pr, a) = Unmapped(pr, a)
  BY
    DEF Abs!Values, Abs!WordBits, Abs!IntMax, Abs!IntMin, Abs!Words, Abs!Addrs,
      Abs!SumTo, Abs!Unsigned, Abs!ZeroExtend, Abs!SignExtend, Abs!Wrap, Abs!Span,
      Abs!Load, Abs!Store, Abs!TestOps, Abs!BranchIfOps, Abs!MoveIfOps, Abs!DivOps,
      Abs!VarSrcOps, Abs!UnaryOps, Abs!LoadOps, Abs!StoreOps, Abs!BinaryOps,
      Abs!LongOps, Abs!ComputeOps, Abs!SysArity, Abs!SysOps, Abs!JumpOps, Abs!LinkOps,
      Abs!Ops, Abs!VarTgts, Abs!VarSrcs, Abs!Arity, Abs!TgtSize, Abs!SrcSize,
      Abs!EncodedSrcs, Abs!Cells, Abs!Count, Abs!TgtCells, Abs!Size, Abs!StartOf,
      Abs!CodeEnd, Abs!Present, Abs!At, Abs!Unmapped, Values, WordBits, IntMax, IntMin,
      Words, Addrs, SumTo, Unsigned, ZeroExtend, SignExtend, Wrap, Span, Load, Store,
      TestOps, BranchIfOps, MoveIfOps, DivOps, VarSrcOps, UnaryOps, LoadOps, StoreOps,
      BinaryOps, LongOps, ComputeOps, SysArity, SysOps, JumpOps, LinkOps, Ops, VarTgts,
      VarSrcs, Arity, TgtSize, SrcSize, EncodedSrcs, Cells, Count, TgtCells, Size,
      StartOf, CodeEnd, Present, At, Unmapped

LEMMA AbsDispatch == \A op, s, nt, p : Abs!Dispatch(op, s, nt, p) = Dispatch(op, s, nt, p)
  BY
    DEF Abs!Values, Abs!WordBits, Abs!IntMax, Abs!IntMin, Abs!Words, Abs!Addrs,
      Abs!SumTo, Abs!Unsigned, Abs!ZeroExtend, Abs!SignExtend, Abs!Wrap, Abs!Span,
      Abs!Load, Abs!Store, Abs!TestOps, Abs!BranchIfOps, Abs!MoveIfOps, Abs!DivOps,
      Abs!VarSrcOps, Abs!UnaryOps, Abs!LoadOps, Abs!StoreOps, Abs!BinaryOps,
      Abs!LongOps, Abs!ComputeOps, Abs!SysArity, Abs!SysOps, Abs!JumpOps, Abs!LinkOps,
      Abs!Ops, Abs!VarTgts, Abs!VarSrcs, Abs!Arity, Abs!TgtSize, Abs!SrcSize, Abs!Truth,
      Abs!RelationOf, Abs!Holds, Abs!Magnitude, Abs!TruncDiv, Abs!TruncRem, Abs!Bit,
      Abs!BitPlaces, Abs!FromBits, Abs!ShiftsOut, Abs!LShift, Abs!RShiftU, Abs!RShift,
      Abs!FirstOrLast, Abs!AluError, Abs!Result, Abs!LongProduct, Abs!Results, Abs!Min,
      Abs!Max, Abs!Outcome, Abs!Call, Abs!Dispatch, Values, WordBits, IntMax, IntMin,
      Words, Addrs, SumTo, Unsigned, ZeroExtend, SignExtend, Wrap, Span, Load, Store,
      TestOps, BranchIfOps, MoveIfOps, DivOps, VarSrcOps, UnaryOps, LoadOps, StoreOps,
      BinaryOps, LongOps, ComputeOps, SysArity, SysOps, JumpOps, LinkOps, Ops, VarTgts,
      VarSrcs, Arity, TgtSize, SrcSize, Truth, RelationOf, Holds, Magnitude, TruncDiv,
      TruncRem, Bit, BitPlaces, FromBits, ShiftsOut, LShift, RShiftU, RShift,
      FirstOrLast, AluError, Result, LongProduct, Results, Min, Max, Outcome, Call,
      Dispatch

LEMMA AbsSizes ==
  /\ \A op : Abs!VarTgts(op) = VarTgts(op) /\ Abs!VarSrcs(op) = VarSrcs(op)
  /\ \A op : Abs!TgtSize(op) = TgtSize(op) /\ Abs!SrcSize(op) = SrcSize(op)
  /\ \A b : Abs!Count(b) = Count(b)
  /\ \A s, n : Abs!Cells(s, n) = Cells(s, n)
  /\ \A x : Abs!TgtCells(x) = TgtCells(x) /\ Abs!Size(x) = Size(x)
  /\ \A pr, k : Abs!StartOf(pr, k) = StartOf(pr, k)
  BY
    DEF Abs!Values, Abs!WordBits, Abs!IntMax, Abs!IntMin, Abs!Words, Abs!Addrs,
      Abs!SumTo, Abs!Unsigned, Abs!ZeroExtend, Abs!SignExtend, Abs!Wrap, Abs!Span,
      Abs!Load, Abs!Store, Abs!TestOps, Abs!BranchIfOps, Abs!MoveIfOps, Abs!DivOps,
      Abs!VarSrcOps, Abs!UnaryOps, Abs!LoadOps, Abs!StoreOps, Abs!BinaryOps,
      Abs!LongOps, Abs!ComputeOps, Abs!SysArity, Abs!SysOps, Abs!JumpOps, Abs!LinkOps,
      Abs!Ops, Abs!VarTgts, Abs!VarSrcs, Abs!Arity, Abs!TgtSize, Abs!SrcSize,
      Abs!EncodedSrcs, Abs!Cells, Abs!Count, Abs!TgtCells, Abs!Size, Abs!StartOf,
      Values, WordBits, IntMax, IntMin, Words, Addrs, SumTo, Unsigned, ZeroExtend,
      SignExtend, Wrap, Span, Load, Store, TestOps, BranchIfOps, MoveIfOps, DivOps,
      VarSrcOps, UnaryOps, LoadOps, StoreOps, BinaryOps, LongOps, ComputeOps, SysArity,
      SysOps, JumpOps, LinkOps, Ops, VarTgts, VarSrcs, Arity, TgtSize, SrcSize,
      EncodedSrcs, Cells, Count, TgtCells, Size, StartOf

LEMMA AbsMemory ==
  /\ \A a, z : Abs!InRam(a, z) = InRam(a, z) /\ Abs!Span(a, z) = Span(a, z)
  /\ \A M, a, v, z : Abs!Store(M, a, v, z) = Store(M, a, v, z)
  /\ \A S : Abs!Max(S) = Max(S)
  /\ Abs!Resumable = Resumable
  BY
    DEF Abs!Values, Abs!WordBits, Abs!IntMax, Abs!IntMin, Abs!Words, Abs!Addrs,
      Abs!SumTo, Abs!Unsigned, Abs!ZeroExtend, Abs!SignExtend, Abs!Wrap, Abs!Span,
      Abs!Load, Abs!Store, Abs!Max, Abs!InRam, Abs!Resumable, Values, WordBits, IntMax,
      IntMin, Words, Addrs, SumTo, Unsigned, ZeroExtend, SignExtend, Wrap, Span, Load,
      Store, Max, InRam, Resumable

LEMMA AbsTgt ==
  ASSUME prog \in Programs, NEW k \in DOMAIN prog.insts, NEW j \in DOMAIN prog.insts[k].tgts
  PROVE  Abs!Tgt(k, j) = TgtIn(prog, ram0, k, j)
  <1> DEFINE x == prog.insts[k]
             i == j - 1
  <1>1. /\ x \in Instr /\ x.tgts \in Seq(Seq(Cell)) /\ i \in Nat /\ i <= Len(x.tgts)
        /\ StartOf(prog, k) \in Nat
    <2>1. x \in Instr
      BY ProgramType
    <2>2. x.tgts \in Seq(Seq(Cell))
      BY <2>1 DEF Instr
    <2>3. j \in 1 .. Len(x.tgts)
      BY <2>2
    <2>4. StartOf(prog, k) \in Nat
      BY InstructionEnds
    <2> QED BY <2>1, <2>2, <2>3, <2>4
  <1> HIDE DEF x, i
  <1>2. Cells(x.tgts, i) \in Nat
    BY <1>1, CellsType
  <1>3. Abs!TgtAt(k, j) = TgtPos(prog, k, i)
    <2>1. Abs!TgtAt(k, j) = StartOf(prog, k) + 1 + Count(VarTgts(x.op)) + Cells(x.tgts, i)
      BY AbsSizes DEF Abs!TgtAt, x, i
    <2>2. TgtPos(prog, k, i) = StartOf(prog, k) + (1 + Count(VarTgts(x.op)) + Cells(x.tgts, i))
      BY DEF TgtPos, x
    <2> QED BY <1>1, <1>2, <2>1, <2>2, CountFacts
  <1> QED BY <1>3, AbsTgtAddr DEF Abs!Tgt, TgtIn, i

LEMMA AbsSrc ==
  ASSUME prog \in Programs, NEW k \in DOMAIN prog.insts, NEW j \in DOMAIN prog.insts[k].srcs
  PROVE  Abs!Src(k, j) = SrcIn(prog, ram0, k, j)
  <1> DEFINE x == prog.insts[k]
  <1>1. StartOf(prog, k) \in Nat
    BY InstructionEnds
  <1>2. Abs!TgtAt(k, 1) = TgtPos(prog, k, 0)
    <2>1. Abs!TgtAt(k, 1) = StartOf(prog, k) + 1 + Count(VarTgts(x.op)) + Cells(x.tgts, 1 - 1)
      BY AbsSizes DEF Abs!TgtAt
    <2>2. TgtPos(prog, k, 0) = StartOf(prog, k) + (1 + Count(VarTgts(x.op)) + Cells(x.tgts, 0))
      BY DEF TgtPos
    <2>3. Cells(x.tgts, 0) \in Nat
      <3>1. x.tgts \in Seq(Seq(Cell))
        BY ProgramType DEF Instr
      <3>2. 0 \in Nat /\ 0 <= Len(x.tgts)
        BY <3>1
      <3> HIDE DEF x
      <3> QED BY <3>1, <3>2, CellsType
    <2>4. 1 - 1 = 0
      OBVIOUS
    <2> HIDE DEF x
    <2> QED BY <1>1, <2>1, <2>2, <2>3, <2>4, CountFacts
  <1>3. Abs!SrcAt(k, j) = IF x.m /\ j = 1 THEN TgtPos(prog, k, 0) ELSE SrcPos(prog, k, j - 1)
    <2> DEFINE i == j - 1
               skipped == IF x.m THEN Len(x.srcs[1]) ELSE 0
    <2>1. /\ x \in Instr /\ x.srcs \in Seq(Seq(Cell)) /\ i \in 0 .. Len(x.srcs)
          /\ TgtCells(x) \in Nat /\ 1 \in DOMAIN x.srcs
      <3>1. x \in Instr
        BY ProgramType
      <3>2. x.srcs \in Seq(Seq(Cell))
        BY <3>1 DEF Instr
      <3>3. i \in 0 .. Len(x.srcs) /\ 1 \in DOMAIN x.srcs
        BY <3>2
      <3> QED BY <3>1, <3>2, <3>3, SizeType
    <2>2. skipped \in Nat
      <3>1. x.srcs[1] \in Seq(Cell)
        BY <2>1
      <3>2. Len(x.srcs[1]) \in Nat
        BY <3>1
      <3> QED BY <3>2
    <2>3. Abs!SrcAt(k, j) =
            IF x.m /\ j = 1 THEN Abs!TgtAt(k, 1)
            ELSE StartOf(prog, k) + TgtCells(x) + Count(VarSrcs(x.op)) + Cells(x.srcs, i) - skipped
      BY AbsSizes DEF Abs!SrcAt
    <2>4. SrcPos(prog, k, i) =
            (StartOf(prog, k) + TgtCells(x) + Count(VarSrcs(x.op)) + Cells(x.srcs, i)) - skipped
      BY DEF SrcPos, Skipped
    <2> HIDE DEF x, i, skipped
    <2>5. Cells(x.srcs, i) \in Nat
      BY <2>1, CellsType
    <2>6. StartOf(prog, k) + TgtCells(x) + Count(VarSrcs(x.op)) + Cells(x.srcs, i) - skipped
            = (StartOf(prog, k) + TgtCells(x) + Count(VarSrcs(x.op)) + Cells(x.srcs, i)) - skipped
      BY <1>1, <2>1, <2>2, <2>5, CountFacts
    <2>7. Abs!SrcAt(k, j) = IF x.m /\ j = 1 THEN TgtPos(prog, k, 0) ELSE SrcPos(prog, k, i)
      BY <1>2, <2>3, <2>4, <2>6
    <2> QED BY <2>7 DEF i
  <1> QED BY <1>3, AbsSrcValue, AbsSizes DEF Abs!Src, SrcIn

LEMMA AbsFaults ==
  ASSUME prog \in Programs, NEW k \in DOMAIN prog.insts
  PROVE  Abs!Faults(k) = FaultsIn(prog, ram0, k)
  <1> DEFINE x == prog.insts[k]
  <1>1. \A b, n, max, a : Abs!CountFaults(b, n, max, a) = CountFaultsIn(prog, b, n, max, a)
    <2>1. Abs!MissingCell.faults = CellFaults
      BY AbsWords DEF MissingCell, CellFaults
    <2> QED BY <2>1, AbsPresent DEF Abs!CountFaults, CountFaultsIn
  <1>2. {Abs!Tgt(k, j).faults : j \in DOMAIN x.tgts}
          = {TgtIn(prog, ram0, k, j).faults : j \in DOMAIN x.tgts}
    BY AbsTgt
  <1>3. {Abs!Src(k, j).faults : j \in DOMAIN x.srcs}
          = {SrcIn(prog, ram0, k, j).faults : j \in DOMAIN x.srcs}
    BY AbsSrc
  <1> QED BY <1>1, <1>2, <1>3, AbsSizes DEF Abs!Faults, FaultsIn, CountsIn

LEMMA AbsStored ==
  ASSUME prog \in Programs, NEW k \in DOMAIN prog.insts, NEW res
  PROVE  LET n == Len(prog.insts[k].tgts) IN
         /\ Abs!Stored(k, res, n) = StoredIn(prog, ram0, k, res, n)
         /\ Abs!AllStored(k) <=> StoredTo(prog, ram0, k, n)
  <1> DEFINE x == prog.insts[k]
             n == Len(x.tgts)
             T(j) == TgtIn(prog, ram0, k, j)
             size == TgtSize(x.op)
             V(b) == {j \in 1 .. n : Abs!InRam(Abs!Tgt(k, j).v, Abs!TgtSize(x.op))
                                     /\ b \in Abs!Span(Abs!Tgt(k, j).v, Abs!TgtSize(x.op))}
             U(b) == Writers(prog, ram0, k, n, b)
  <1>1. DOMAIN x.tgts = 1 .. n /\ n \in Nat
    <2>1. x.tgts \in Seq(Seq(Cell))
      BY ProgramType DEF Instr
    <2> QED BY <2>1
  <1>2. \A j \in 1 .. n : Abs!Tgt(k, j) = T(j)
    BY <1>1, AbsTgt
  <1>3. \A b : V(b) = U(b)
    <2>1. \A b : U(b) = {j \in 1 .. n : InRam(T(j).v, size) /\ b \in Span(T(j).v, size)}
      BY DEF Writers
    <2>2. \A b : V(b) = {j \in 1 .. n : InRam(Abs!Tgt(k, j).v, size) /\ b \in Span(Abs!Tgt(k, j).v, size)}
      BY AbsMemory, AbsSizes
    <2> HIDE DEF n, T, size, U, V
    <2> QED BY <1>2, <2>1, <2>2
  <1>4. \A b : V(b) # {} => Abs!Max(V(b)) = Max(U(b)) /\ Max(U(b)) \in 1 .. n
    <2> SUFFICES ASSUME NEW b, V(b) # {}
                 PROVE  Abs!Max(V(b)) = Max(U(b)) /\ Max(U(b)) \in 1 .. n
      OBVIOUS
    <2>1. Abs!Max(V(b)) = Max(V(b))
      <3> HIDE DEF V
      <3> QED BY AbsMemory
    <2>2. U(b) \subseteq 1 .. n
      BY DEF Writers
    <2>3. U(b) # {} /\ V(b) = U(b)
      BY <1>3
    <2> HIDE DEF U, V, n
    <2>4. U(b) \subseteq Int /\ \A i \in U(b) : i <= n
      BY <1>1, <2>2
    <2>5. Max(U(b)) \in U(b)
      BY <1>1, <2>3, <2>4, MaxFacts
    <2> QED BY <2>1, <2>2, <2>3, <2>5
  <1>5. Abs!Stored(k, res, n) =
          [b \in DOMAIN ram0 |->
             IF V(b) = {} THEN ram0[b]
             ELSE Abs!Store(ram0, Abs!Tgt(k, Abs!Max(V(b))).v, res[Abs!Max(V(b))],
                            Abs!TgtSize(x.op))[b]]
    BY DEF Abs!Stored
  <1>6. StoredIn(prog, ram0, k, res, n) =
          [b \in DOMAIN ram0 |->
             IF U(b) = {} THEN ram0[b]
             ELSE Store(ram0, T(Max(U(b))).v, res[Max(U(b))], size)[b]]
    BY DEF StoredIn
  <1>7. Abs!AllStored(k) <=> \A j \in 1 .. n : InRam(T(j).v, size)
    <2>1. Abs!AllStored(k) <=> \A j \in 1 .. n : InRam(Abs!Tgt(k, j).v, size)
      BY <1>1, AbsMemory, AbsSizes DEF Abs!AllStored
    <2> HIDE DEF n, T, size
    <2> QED BY <1>2, <2>1
  <1>8. StoredTo(prog, ram0, k, n) <=> \A j \in 1 .. n : InRam(T(j).v, size)
    BY DEF StoredTo
  <1>9. \A b : IF V(b) = {} THEN U(b) = {}
               ELSE U(b) # {} /\ Abs!Store(ram0, Abs!Tgt(k, Abs!Max(V(b))).v, res[Abs!Max(V(b))],
                                         Abs!TgtSize(x.op))
                               = Store(ram0, T(Max(U(b))).v, res[Max(U(b))], size)
    <2>1. \A M, a, v : Abs!Store(M, a, v, Abs!TgtSize(x.op)) = Store(M, a, v, size)
      BY AbsMemory, AbsSizes
    <2> HIDE DEF V, U, T, n, size, x
    <2> QED BY <1>2, <1>3, <1>4, <2>1
  <1>10. Abs!Stored(k, res, n) = StoredIn(prog, ram0, k, res, n)
    <2> HIDE DEF V, U, T, n, size, x
    <2> QED BY <1>5, <1>6, <1>9
  <1> QED BY <1>7, <1>8, <1>10

\* A step that ends is one of VmSpec, with RAM and exit code as it leaves them.
LEMMA AbsExecutes ==
  ASSUME TypeInv, NEW k \in At(prog, pc0), Executed(k), st = "returned",
         prog' = prog, ram0' = ram, exit0' = exit_rc,
         (IF st' = "stopped" THEN rc' ELSE "OK") = rc,
         pc0' = (IF rc \in {"OK"} \cup Resumable THEN pc ELSE pc0)
  PROVE  Abs!Execute
  <1> DEFINE x == prog.insts[k]
             n == Len(x.tgts)
             s == SrcsIn(prog, ram0, k)
             As == [j \in DOMAIN x.srcs |-> Abs!Src(k, j).v]
  <1>1. prog \in Programs /\ k \in DOMAIN prog.insts /\ k \in Abs!At(prog, pc0)
    BY AbsAt DEF TypeInv, CodeInv, At
  <1>2. As = s
    BY <1>1, AbsSrc DEF SrcsIn
  <1>3. PICK o \in OutcomesIn(prog, ram0, k) :
         /\ IF o.err = "OK"
            THEN /\ ram = StoredIn(prog, ram0, k, o.results, n)
                 /\ rc = (IF StoredTo(prog, ram0, k, n) THEN "OK" ELSE "BAD_ADDR")
            ELSE ram = ram0 /\ rc = o.err
         /\ exit_rc = (IF o.err = "EXIT" THEN s[1] ELSE exit0)
         /\ pc = o.pc
    BY DEF Executed
  <1>4. o \in Abs!Dispatch(x.op, As, n, Abs!StartOf(prog, k) + Abs!Size(x))
    BY <1>2, <1>3, AbsDispatch, AbsSizes DEF OutcomesIn
  <1>5. x.op # "UNDEF" /\ Abs!Faults(k) = {}
    BY <1>1, AbsFaults DEF Executed
  <1>6. /\ Abs!Stored(k, o.results, n) = StoredIn(prog, ram0, k, o.results, n)
        /\ Abs!AllStored(k) <=> StoredTo(prog, ram0, k, n)
    BY <1>1, AbsStored
  <1>7. /\ IF o.err = "OK"
           THEN /\ ram0' = Abs!Stored(k, o.results, n)
                /\ rc = (IF Abs!AllStored(k) THEN "OK" ELSE "BAD_ADDR")
           ELSE ram0' = ram0 /\ rc = o.err
        /\ exit0' = (IF o.err = "EXIT" THEN As[1] ELSE exit0)
        /\ pc0' = (IF rc \in {"OK"} \cup Abs!Resumable THEN o.pc ELSE pc0)
    <2>1. pc0' = (IF rc \in {"OK"} \cup Abs!Resumable THEN o.pc ELSE pc0)
      BY <1>3, AbsMemory
    <2> HIDE DEF x, n, s, As
    <2> QED BY <1>2, <1>3, <1>6, <2>1
  <1>8. (IF st = "stopped" THEN rc ELSE "OK") = "OK"
    OBVIOUS
  <1> DEFINE arc == IF st' = "stopped" THEN rc' ELSE "OK"
  <1>9. arc = rc
    OBVIOUS
  <1>10. /\ IF o.err = "OK"
            THEN /\ ram0' = Abs!Stored(k, o.results, n)
                 /\ arc = (IF Abs!AllStored(k) THEN "OK" ELSE "BAD_ADDR")
            ELSE ram0' = ram0 /\ arc = o.err
         /\ exit0' = (IF o.err = "EXIT" THEN As[1] ELSE exit0)
         /\ pc0' = (IF arc \in {"OK"} \cup Abs!Resumable THEN o.pc ELSE pc0)
    <2> HIDE DEF arc, x, n, s, As
    <2> QED BY <1>7, <1>9
  <1> QED BY <1>1, <1>4, <1>5, <1>8, <1>10 DEF Abs!Execute

LEMMA AbsInit == Init => Abs!Init
  <1>1. ASSUME Init PROVE Abs!Init
    <2>1. (IF st = "stopped" THEN rc ELSE "OK") = "OK"
      BY <1>1 DEF Init
    <2> QED BY <1>1, <2>1 DEF Init, Abs!Init
  <1> QED BY <1>1

LEMMA AbsNext ==
  ASSUME TypeInv, AtomInv, [Next]_vars
  PROVE  [Abs!Next]_(Abs!vars)
  <1>1. CASE NextStep \/ RunReturns
    <2>1. /\ st = "returned" /\ prog' = prog /\ ram0' = ram /\ exit0' = exit_rc /\ rc' = rc
          /\ (rc = "OK" /\ st' = "fetch") \/ (rc # "OK" /\ st' = "stopped")
          /\ pc0' = (IF rc \in {"OK"} \cup Resumable THEN pc ELSE pc0)
      BY <1>1 DEF NextStep, RunReturns
    <2>2. (IF st' = "stopped" THEN rc' ELSE "OK") = rc /\ (IF st = "stopped" THEN rc ELSE "OK") = "OK"
      BY <2>1
    <2>3. CASE RanOff
      <3>1. /\ ram0' = ram0 /\ exit0' = exit0 /\ pc0' = pc0 /\ rc = "BAD_ADDR"
        BY <2>1, <2>3 DEF RanOff, Resumable
      <3>2. Abs!Unmapped(prog, pc0)
        BY <2>3, AbsAt DEF RanOff
      <3>3. Abs!RunOff
        BY <2>1, <2>2, <3>1, <3>2 DEF Abs!RunOff, Abs!Stop
      <3> QED BY <3>3 DEF Abs!Next
    <2>4. ASSUME NEW k \in At(prog, pc0), Rejected(k) PROVE Abs!Refuse
      <3>1. /\ prog \in Programs /\ k \in DOMAIN prog.insts /\ k \in Abs!At(prog, pc0)
            /\ ram0 \in RamType
        BY AbsAt DEF TypeInv, CodeInv, At, MachineInv
      <3>2. rc \notin Resumable \cup {"OK"}
        <4>1. FaultsIn(prog, ram0, k) \subseteq CellFaults \cup {"BAD_OPERAND"}
          BY <3>1, FaultsInType
        <4> QED BY <2>4, <4>1 DEF Rejected, Resumable, CellFaults
      <3>3. ram0' = ram0 /\ exit0' = exit0 /\ pc0' = pc0
        BY <2>1, <2>4, <3>2 DEF Rejected
      <3>4. Abs!Stop(rc)
        BY <2>1, <2>2, <3>3 DEF Abs!Stop
      <3>5. Abs!Faults(k) = FaultsIn(prog, ram0, k)
        BY <3>1, AbsFaults
      <3>6. CASE prog.insts[k].op = "UNDEF" /\ rc = "UNKNOWN_OPCODE"
        BY <2>2, <3>1, <3>4, <3>6 DEF Abs!Refuse
      <3>7. CASE prog.insts[k].op # "UNDEF" /\ rc \in Abs!Faults(k)
        BY <2>2, <3>1, <3>4, <3>7 DEF Abs!Refuse
      <3> QED BY <2>4, <3>5, <3>6, <3>7 DEF Rejected
    <2>5. ASSUME NEW k \in At(prog, pc0), Executed(k) PROVE Abs!Execute
      BY <2>1, <2>2, <2>5, AbsExecutes
    <2> QED BY <2>1, <2>3, <2>4, <2>5 DEF AtomInv, Abs!Next
  <1>2. CASE Rerun
    <2>1. /\ st = "stopped" /\ st' = "fetch" /\ rc \in Resumable
          /\ prog' = prog /\ ram0' = ram0 /\ pc0' = pc0 /\ exit0' = exit0
      BY <1>2 DEF Rerun, fixedVars
    <2>2. (IF st = "stopped" THEN rc ELSE "OK") = rc /\ (IF st' = "stopped" THEN rc' ELSE "OK") = "OK"
      BY <2>1
    <2>3. Abs!Resume
      BY <2>1, <2>2, AbsMemory DEF Abs!Resume
    <2> QED BY <2>3 DEF Abs!Next
  <1>3. ASSUME UNCHANGED fixedVars, (st \notin {"stopped"} /\ st' # "stopped") \/ (st' = st /\ rc' = rc)
        PROVE  UNCHANGED Abs!vars
    <2>1. (IF st' = "stopped" THEN rc' ELSE "OK") = (IF st = "stopped" THEN rc ELSE "OK")
      BY <1>3
    <2> QED BY <1>3, <2>1 DEF fixedVars, Abs!vars
  <1>4. CASE FetchUnmapped \/ FetchUndefined \/ FetchInst \/ CountTgts \/ ReadTgt \/ TgtsRead
             \/ CountSrcs \/ NoRmw \/ Rmw \/ RmwWithoutOperand \/ ReadSrc \/ SrcsRead
    <2>1. UNCHANGED fixedVars /\ st # "stopped" /\ st' # "stopped"
      BY <1>4 DEF FetchUnmapped, FetchUndefined, FetchInst, Fetch, CountTgts, ReadTgt, TgtsRead,
        CountSrcs, NoRmw, Rmw, RmwWithoutOperand, ReadSrc, SrcsRead, Return, Decoding
    <2> QED BY <1>3, <2>1
  <1>5. CASE Execute \/ Write \/ Written
    <2>1. UNCHANGED fixedVars /\ st # "stopped" /\ st' # "stopped"
      BY <1>5 DEF Execute, Dispatched, Write, Written, Return
    <2> QED BY <1>3, <2>1
  <1>6. CASE Stopped \/ UNCHANGED vars
    <2>1. UNCHANGED fixedVars /\ st' = st /\ rc' = rc
      BY <1>6 DEF Stopped, vars
    <2> QED BY <1>3, <2>1
  <1> QED BY <1>1, <1>2, <1>4, <1>5, <1>6 DEF Next

\* bajo_step() reads operand after operand, looks at the errors late, reads the
\* first source from the first target and stores its results one by one; for
\* whoever sees the machine between the steps an instruction is one step that
\* is done as a whole or refused, in every program an assembler makes whose
\* image holds the operand counts of the instructions with the m flag.
THEOREM StepsAreAtomic ==
  ASSUME \A pr \in Programs : Assembled(pr)
  PROVE  Spec => AtomicSteps
  <1>1. Init => TypeInv /\ TrackInv /\ AtomInv
    BY CodeInvInit, RamInvInit, BufferInvInit, TypeInvInit, TrackInvInit, AtomInvInit DEF TypeInv
  <1>2. TypeInv /\ TrackInv /\ AtomInv /\ [Next]_vars => TypeInv' /\ TrackInv' /\ AtomInv'
    BY TypeInvNext, TrackInvNext, AtomInvNext
  <1>3. TypeInv /\ AtomInv /\ [Next]_vars => [Abs!Next]_(Abs!vars)
    BY AbsNext
  <1> QED BY <1>1, <1>2, <1>3, AbsInit, PTL DEF Spec, AtomicSteps, Abs!Spec

=============================================================================
