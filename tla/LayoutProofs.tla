---------------------------- MODULE LayoutProofs ----------------------------
(***************************************************************************)
(* What holds of the layout engine for every program, region and pass      *)
(* limit: types, the pass budget, settled sizes, and, behind these, where  *)
(* the instructions of a finished build are.                               *)
(***************************************************************************)
EXTENDS Layout, SequenceTheorems, FiniteSetTheorems, TLAPS

USE DEF Kinds

\* The operand encoders return a size between one and five bytes.
LEMMA OperandSizes ==
  ASSUME NEW v \in Int
  PROVE  ImmSize(v) \in 1 .. 5 /\ MemSize(v) \in 1 .. 5
<1>1. \A u, m : VarintSize(u, m) \in {1, 2, 3, 4, 5}
  BY Zenon DEF VarintSize
<1>2. ImmSize(v) \in {1, 2, 3, 4, 5} /\ MemSize(v) \in {1, 2, 3, 4, 5}
  BY <1>1, Zenon DEF ImmSize, MemSize
<1> QED BY <1>2, SMT

\* Rounding an address up to an alignment gives an address.
LEMMA RoundUpNat ==
  ASSUME NEW a \in Nat, NEW n \in Nat \ {0}
  PROVE  RoundUp(a, n) \in Nat
BY DEF RoundUp

\* An item tagged as an instruction has an instruction's fields.
LEMMA InstItem ==
  ASSUME NEW x \in Item, x.t = "inst"
  PROVE  x \in Inst
BY DEF Item, Inst

\* The pessimistic size of an instruction is a number.
LEMMA MaxSizeNat ==
  ASSUME NEW x \in Inst
  PROVE  MaxSize(x) \in Nat
BY DEF MaxSize, Inst, MaxVarintSize

\* An instruction whose reference is placed has a size under any addresses.
LEMMA SizeWithNat ==
  ASSUME insts \in Seq(Inst), where \in [Objs -> 0 .. Len(insts)],
         NEW k \in 1 .. Len(insts), Resolved(insts[k]),
         NEW ad \in Seq(Nat), Len(ad) = Len(insts), NEW size \in Nat
  PROVE  SizeWith(k, ad, size) \in Nat
<1> DEFINE x == insts[k]
<1>1. x \in Inst
  OBVIOUS
<1>2. x.n \in Nat /\ x.off \in Int /\ x.ref \in Objs /\ x.kind \in Kinds
  BY <1>1 DEF Inst
<1>3. CASE x.kind \in {"data", "plain"}
  BY <1>2, <1>3 DEF SizeWith
<1>4. CASE x.kind \in {"branch", "imm", "mem"}
  <2>1. where[x.ref] \in 1 .. Len(ad)
    BY <1>2, <1>4 DEF Resolved, Refers
  <2>2. AddrOf(x, ad) \in Int
    BY <1>2, <2>1 DEF AddrOf
  <2>3. Offset(k, ad, size) \in Int
    BY <2>2 DEF Offset
  <2>4. /\ ImmSize(AddrOf(x, ad)) \in Nat /\ MemSize(AddrOf(x, ad)) \in Nat
        /\ ImmSize(Offset(k, ad, size)) \in Nat
    BY <2>2, <2>3, OperandSizes, SMTT(60)
  <2> QED BY <1>2, <1>4, <2>4, SMTT(60) DEF SizeWith
<1> QED BY <1>2, <1>3, <1>4

-----------------------------------------------------------------------------
(* Type correctness.  A size exists only for an instruction whose reference *)
(* is placed, so the invariant also says which ones a pass has looked at.   *)

Looked ==
  /\ phase = "place" => \A k \in 1 .. Len(insts) : k < i => Resolved(insts[k])
  /\ phase \in {"pad", "verify", "encode"} =>
       \A k \in 1 .. Len(insts) : Resolved(insts[k])
TInv == TypeOK /\ Looked

LEMMA TypeInit ==
  ASSUME Init PROVE TInv
<1>1. code \in Seq(Item)
  BY ProgramsAssumption DEF Init
<1>2. MaxPasses \in Nat /\ Start \in Nat
  BY PassesAssumption, RegionAssumption
<1>3. remaining_fixes \in 0 .. MaxPasses
  BY <1>2 DEF Init
<1>4. where \in [Objs -> 0 .. 0]
  BY DEF Init
<1>5. /\ insts \in Seq(Inst) /\ addrs \in Seq(Nat) /\ sizes \in Seq(Nat) /\ aligns \in Seq(Nat)
      /\ pads \in Seq(Nat) /\ image \in Seq(Nat)
      /\ Len(insts) = 0 /\ Len(addrs) = 0 /\ Len(sizes) = 0 /\ Len(aligns) = 0
  BY EmptySeq DEF Init
<1>6. /\ phase = "check" /\ error = "none" /\ pos = 0 /\ pending_labels = {}
      /\ pending_align = 0 /\ nopads = {} /\ i = 1 /\ p \in Nat /\ npasses = 0
      /\ next_fix_thres \in Nat
  BY <1>2 DEF Init
<1>7. pending_nopad \in BOOLEAN
  BY DEF Init
<1>8. pos \in 0 .. Len(code)
  BY <1>1, <1>6
<1>9. TypeOK
  BY <1>1, <1>3, <1>4, <1>5, <1>6, <1>7, <1>8 DEF TypeOK, Phases, Errors
<1> QED BY <1>6, <1>9 DEF TInv, Looked

\* Raising keeps everything but the phase and the error.
LEMMA TypeRaise ==
  ASSUME TInv, NEW e \in Errors \ {"none"}, Raise(e)
  PROVE  TInv'
BY DEF TInv, TypeOK, Looked, Raise, Phases, Errors, scanVars, layVars, passVars, outVars, Resolved, Refers

LEMMA TypeScan ==
  ASSUME TInv, ScanLabel \/ ScanAlign \/ ScanNoPad \/ ScanInst
  PROVE  TInv'
<1> DEFINE y == code[pos + 1]
<1> USE DEF TInv, Scanning, Scanned, passVars, outVars, layVars
<1>1. phase = "scan" /\ phase' = "scan" /\ y \in Item /\ pos' \in 0 .. Len(code)
  BY SMTT(60) DEF ScanLabel, ScanAlign, ScanNoPad, ScanInst, TypeOK
<1>2. Looked'
  BY <1>1 DEF Looked
<1>3. CASE ScanLabel
  <2>1. y.obj \in Objs
    BY <1>1, <1>3 DEF ScanLabel, Item, Inst
  <2> QED BY <1>1, <1>2, <1>3, <2>1 DEF ScanLabel, TypeOK
<1>4. CASE ScanAlign
  <2>1. y.n \in Nat
    BY <1>1, <1>4 DEF ScanAlign, Item, Inst
  <2> QED BY <1>1, <1>2, <1>4, <2>1 DEF ScanAlign, TypeOK
<1>5. CASE ScanNoPad
  BY <1>1, <1>2, <1>5 DEF ScanNoPad, TypeOK
<1>6. CASE ScanInst
  <2>1. y \in Inst /\ y.obj \in Objs
    BY <1>1, <1>6, InstItem DEF ScanInst, Inst
  <2>2. MaxSize(y) \in Nat
    BY <2>1, MaxSizeNat
  <2>3. /\ insts' = Append(insts, y) /\ addrs' = Append(addrs, p)
        /\ sizes' = Append(sizes, MaxSize(y)) /\ aligns' = Append(aligns, pending_align)
        /\ p' = p + MaxSize(y)
        /\ UNCHANGED <<code, phase, error, i, npasses, prev, prev2, next_fix_thres,
                       remaining_fixes, pads, image>>
    BY <1>6 DEF ScanInst
  <2>4. /\ insts' \in Seq(Inst) /\ addrs' \in Seq(Nat) /\ sizes' \in Seq(Nat)
        /\ aligns' \in Seq(Nat)
        /\ Len(insts') = Len(insts) + 1 /\ Len(addrs') = Len(addrs) + 1
        /\ Len(sizes') = Len(sizes) + 1 /\ Len(aligns') = Len(aligns) + 1
    <3>1. /\ insts \in Seq(Inst) /\ addrs \in Seq(Nat) /\ sizes \in Seq(Nat)
          /\ aligns \in Seq(Nat) /\ pending_align \in Nat /\ p \in Nat
      BY DEF TypeOK
    <3> HIDE DEF TInv, y
    <3> QED BY <2>1, <2>2, <2>3, <3>1, AppendProperties
  <2>5. where' \in [Objs -> 0 .. Len(insts')]
    <3>1. where' = [o \in Objs |-> IF o \in pending_labels \cup {y.obj}
                                   THEN Len(insts) + 1 ELSE where[o]]
      BY <1>6, SMT DEF ScanInst
    <3>2. Len(insts) \in Nat /\ where \in [Objs -> 0 .. Len(insts)]
      BY DEF TypeOK
    <3> HIDE DEF TInv, y
    <3> QED BY <2>4, <3>1, <3>2
  <2>6. nopads' \subseteq 1 .. Len(insts')
    <3>1. Len(insts) \in Nat /\ nopads \subseteq 1 .. Len(insts)
      BY DEF TypeOK
    <3>2. nopads' = nopads \/ nopads' = nopads \cup {Len(insts) + 1}
      BY <1>6, SMT DEF ScanInst
    <3>3. Len(insts') = Len(insts) + 1
      BY <2>4
    <3>4. 1 .. Len(insts) \subseteq 1 .. Len(insts') /\ Len(insts) + 1 \in 1 .. Len(insts')
      BY <3>1, <3>3
    <3> QED BY <3>1, <3>2, <3>4, Zenon
  <2>7. pending_labels' = {} /\ pending_align' = 0 /\ pending_nopad' = FALSE
    BY <1>6, Zenon DEF ScanInst
  <2>8. i' \in 1 .. Len(insts') + 1 /\ p' \in Nat
    BY <2>2, <2>3, <2>4 DEF TypeOK
  <2>9. TypeOK'
    <3>1. pending_labels' \subseteq Objs /\ pending_align' \in Nat /\ pending_nopad' \in BOOLEAN
      BY <2>7
    <3>2. /\ Len(addrs') = Len(insts') /\ Len(sizes') = Len(insts')
          /\ Len(aligns') = Len(insts')
      BY <2>4 DEF TypeOK
    <3>3. /\ code' \in Seq(Item) /\ pos' \in 0 .. Len(code') /\ phase' \in Phases
          /\ error' \in Errors /\ ((phase' = "failed") <=> (error' # "none"))
      BY <1>1, <2>3 DEF TypeOK
    <3>4. /\ npasses' \in Nat /\ next_fix_thres' \in Nat /\ remaining_fixes' \in 0 .. MaxPasses
          /\ pads' \in Seq(Nat) /\ image' \in Seq(Nat)
      BY <2>3 DEF TypeOK
    <3> HIDE DEF Scanning, Scanned, passVars, outVars, layVars, y, TInv
    <3> QED BY <1>1, <2>4, <2>5, <2>6, <2>8, <3>1, <3>2, <3>3, <3>4, Zenon DEF TypeOK
  <2> QED BY <1>2, <2>9
<1> QED BY <1>3, <1>4, <1>5, <1>6

\* Updating one element of a sequence of numbers.
LEMMA ExceptNat ==
  ASSUME NEW s \in Seq(Nat), NEW k \in 1 .. Len(s), NEW e \in Nat
  PROVE  [s EXCEPT ![k] = e] \in Seq(Nat) /\ Len([s EXCEPT ![k] = e]) = Len(s)
BY ExceptSeq

\* What Place computes: an address, and a size under the updated addresses.
LEMMA PlaceValues ==
  ASSUME TInv, Place
  PROVE  /\ Aligned(i, p) \in Nat
         /\ addrs' = [addrs EXCEPT ![i] = Aligned(i, p)]
         /\ sizes' = [sizes EXCEPT ![i] = SizeWith(i, addrs', sizes[i])]
         /\ SizeWith(i, addrs', sizes[i]) \in Nat
         /\ p' = Aligned(i, p) + SizeWith(i, addrs', sizes[i])
         /\ i' = i + 1 /\ i \in 1 .. Len(insts)
         /\ addrs' \in Seq(Nat) /\ Len(addrs') = Len(insts)
         /\ sizes' \in Seq(Nat) /\ Len(sizes') = Len(insts)
<1>1. i \in 1 .. Len(insts) /\ i' = i + 1 /\ p \in Nat /\ aligns[i] \in Nat /\ sizes[i] \in Nat
  <2>1. i \in 1 .. Len(insts) /\ i' = i + 1 /\ p \in Nat
    BY DEF TInv, TypeOK, Place
  <2>2. /\ aligns \in Seq(Nat) /\ sizes \in Seq(Nat)
        /\ i \in 1 .. Len(aligns) /\ i \in 1 .. Len(sizes)
    BY <2>1 DEF TInv, TypeOK
  <2> QED BY <2>1, <2>2, ElementOfSeq
<1>2. Aligned(i, p) \in Nat
  BY <1>1, RoundUpNat DEF Aligned
<1>3. addrs' = [addrs EXCEPT ![i] = Aligned(i, p)]
  BY DEF Place
<1>4. addrs' \in Seq(Nat) /\ Len(addrs') = Len(insts)
  BY <1>1, <1>2, <1>3, ExceptNat DEF TInv, TypeOK
<1>5. SizeWith(i, addrs', sizes[i]) \in Nat
  BY <1>1, <1>4, SizeWithNat DEF TInv, TypeOK, Place
<1>6. sizes' = [sizes EXCEPT ![i] = SizeWith(i, addrs', sizes[i])]
  BY DEF Place, SizeFrom
<1>7. sizes' \in Seq(Nat) /\ Len(sizes') = Len(insts)
  BY <1>1, <1>5, <1>6, ExceptNat DEF TInv, TypeOK
<1>8. p' = Aligned(i, p) + SizeWith(i, addrs', sizes[i])
  <2>1. p' = Aligned(i, p) + sizes'[i]
    BY DEF Place
  <2> QED BY <1>1, <1>5, <1>6, <2>1, ExceptSeq DEF TInv, TypeOK
<1> QED BY <1>1, <1>2, <1>3, <1>4, <1>5, <1>6, <1>7, <1>8

LEMMA TypePlace ==
  ASSUME TInv, Place
  PROVE  TInv'
<1>1. /\ UNCHANGED <<code, phase, error, pos, pending_labels, pending_align, pending_nopad,
                     insts, where, aligns, nopads, npasses, prev, prev2, next_fix_thres,
                     remaining_fixes, pads, image>>
      /\ phase = "place" /\ Resolved(insts[i])
  BY DEF Place, scanVars, passVars, outVars
<1>2. i' \in 1 .. Len(insts') + 1 /\ p' \in Nat
  BY <1>1, PlaceValues
<1>3. TypeOK'
  BY <1>1, <1>2, PlaceValues DEF TInv, TypeOK
<1>4. Looked'
  <2>1. /\ \A k \in 1 .. Len(insts) : k < i => Resolved(insts[k])
        /\ i' = i + 1 /\ i \in 1 .. Len(insts)
    BY <1>1, PlaceValues DEF TInv, Looked
  <2>2. \A k \in 1 .. Len(insts) : k < i' => Resolved(insts[k])
    BY <1>1, <2>1
  <2> QED BY <1>1, <2>2 DEF Looked, Resolved, Refers
<1> QED BY <1>3, <1>4 DEF TInv

\* A pass is recorded and the next one starts, with or without a fix.
LEMMA TypePass ==
  ASSUME TInv, NextPass \/ FixPass
  PROVE  TInv'
<1>1. /\ UNCHANGED <<code, phase, error, pos, pending_labels, pending_align, pending_nopad,
                     insts, where, addrs, sizes, nopads, pads, image>>
      /\ phase = "place" /\ i' = 1 /\ p' = Start /\ npasses' = npasses + 1
  BY DEF NextPass, FixPass, PassDone, RecordPass, AnotherPass, scanVars, outVars
<1>2. aligns' \in Seq(Nat) /\ Len(aligns') = Len(insts)
  <2>1. CASE NextPass
    BY <2>1 DEF NextPass, TInv, TypeOK
  <2>2. CASE FixPass
    <3>1. PICK k \in Candidates : aligns' = [aligns EXCEPT ![k] = 4]
      BY <2>2 DEF FixPass
    <3>2. k \in 1 .. Len(aligns)
      BY <3>1 DEF Candidates, TInv, TypeOK
    <3> QED BY <3>1, <3>2, ExceptNat DEF TInv, TypeOK
  <2> QED BY <2>1, <2>2
<1>3. next_fix_thres' \in Nat /\ remaining_fixes' \in 0 .. MaxPasses
  BY PassesAssumption DEF NextPass, FixPass, TInv, TypeOK
<1>4. TypeOK'
  BY <1>1, <1>2, <1>3, RegionAssumption DEF TInv, TypeOK
<1> QED BY <1>1, <1>4 DEF TInv, Looked

LEMMA TypeConverge ==
  ASSUME TInv, Converge
  PROVE  TInv'
<1>1. /\ UNCHANGED <<code, error, pos, pending_labels, pending_align, pending_nopad,
                     insts, where, addrs, sizes, aligns, nopads, next_fix_thres,
                     remaining_fixes, image>>
      /\ phase = "place" /\ i > Len(insts)
      /\ phase' \in {"pad", "verify"} /\ i' = 1 /\ p' = Start /\ npasses' = npasses + 1
      /\ pads' = [k \in 1 .. Len(insts) |-> 0]
  BY DEF Converge, PassDone, Goto, RecordPass, scanVars, layVars, TInv, TypeOK
<1>2. pads' \in Seq(Nat) /\ Len(pads') = Len(insts)
  BY <1>1 DEF TInv, TypeOK
<1>3. TypeOK'
  BY <1>1, <1>2, RegionAssumption DEF TInv, TypeOK, Phases
<1>4. Looked'
  BY <1>1 DEF TInv, TypeOK, Looked, Resolved, Refers
<1> QED BY <1>3, <1>4 DEF TInv

\* Re-encoding an instruction after the search.
LEMMA Reencoded ==
  ASSUME TInv, phase \in {"pad", "encode"}, NEW k \in 1 .. Len(insts)
  PROVE  SizeFrom(k, addrs) \in Nat /\ addrs[k] \in Nat /\ pads[k] \in Nat
<1>1. /\ addrs \in Seq(Nat) /\ sizes \in Seq(Nat) /\ pads \in Seq(Nat)
      /\ k \in 1 .. Len(addrs) /\ k \in 1 .. Len(sizes) /\ k \in 1 .. Len(pads)
      /\ Len(addrs) = Len(insts) /\ Resolved(insts[k])
  BY DEF TInv, TypeOK, Looked
<1>2. addrs[k] \in Nat /\ sizes[k] \in Nat /\ pads[k] \in Nat
  BY <1>1, ElementOfSeq
<1> QED BY <1>1, <1>2, SizeWithNat DEF TInv, TypeOK, SizeFrom

LEMMA TypePad ==
  ASSUME TInv, PadInst
  PROVE  TInv'
<1>1. /\ UNCHANGED <<code, phase, error, pos, pending_labels, pending_align, pending_nopad,
                     insts, where, addrs, sizes, aligns, nopads, npasses, next_fix_thres,
                     remaining_fixes, image>>
      /\ phase = "pad" /\ i \in 1 .. Len(insts) /\ i' = i + 1
      /\ p' = addrs[i] + SizeFrom(i, addrs)
      /\ pads' = [pads EXCEPT ![i] = IF p < addrs[i] THEN addrs[i] - p ELSE 0]
  BY DEF PadInst, scanVars, layVars, passVars, TInv, TypeOK
<1>2. (IF p < addrs[i] THEN addrs[i] - p ELSE 0) \in Nat
  <2>1. addrs[i] \in Nat
    BY <1>1, Reencoded
  <2>2. p \in Nat
    BY DEF TInv, TypeOK
  <2> QED BY <2>1, <2>2
<1>3. pads' \in Seq(Nat) /\ Len(pads') = Len(insts)
  BY <1>1, <1>2, ExceptNat DEF TInv, TypeOK
<1>4. p' \in Nat
  BY <1>1, Reencoded
<1>5. TypeOK'
  BY <1>1, <1>3, <1>4 DEF TInv, TypeOK
<1> QED BY <1>1, <1>5 DEF TInv, Looked, Resolved, Refers

LEMMA TypeEncode ==
  ASSUME TInv, EncodeInst
  PROVE  TInv'
<1>1. /\ UNCHANGED <<code, phase, error, pos, pending_labels, pending_align, pending_nopad,
                     insts, where, addrs, sizes, aligns, nopads, npasses, next_fix_thres,
                     remaining_fixes, pads>>
      /\ phase = "encode" /\ i \in 1 .. Len(insts) /\ i' = i + 1
      /\ p' = p + pads[i] + SizeFrom(i, addrs)
      /\ image' = Append(image, p + pads[i])
  BY DEF EncodeInst, scanVars, layVars, passVars, TInv, TypeOK
<1>2. p' \in Nat /\ p + pads[i] \in Nat
  <2>1. SizeFrom(i, addrs) \in Nat /\ pads[i] \in Nat /\ p \in Nat
    BY <1>1, Reencoded DEF TInv, TypeOK
  <2> QED BY <1>1, <2>1
<1>3. image' \in Seq(Nat)
  <2>1. image \in Seq(Nat)
    BY DEF TInv, TypeOK
  <2> QED BY <1>1, <1>2, <2>1, AppendProperties
<1>4. TypeOK'
  <2>1. i' \in 1 .. Len(insts) + 1
    BY <1>1 DEF TInv, TypeOK
  <2> QED BY <1>1, <1>2, <1>3, <2>1 DEF TInv, TypeOK
<1> QED BY <1>1, <1>4 DEF TInv, Looked, Resolved, Refers

\* Actions that only move on to another phase, and the end.
LEMMA TypeMove ==
  ASSUME TInv, \/ CheckOk \/ ScanDone \/ PadDone \/ VerifyOk \/ EncodeDone \/ Finished
               \/ UNCHANGED vars
  PROVE  TInv'
<1> USE DEF scanVars, layVars, passVars, outVars, Resolved, Refers
<1>1. CASE CheckOk
  BY <1>1 DEF CheckOk, Goto, TInv, TypeOK, Looked, Phases
<1>2. CASE ScanDone
  BY <1>2, RegionAssumption DEF ScanDone, Goto, TInv, TypeOK, Looked, Phases
<1>3. CASE PadDone
  BY <1>3 DEF PadDone, Goto, TInv, TypeOK, Looked, Phases
<1>4. CASE VerifyOk
  BY <1>4, RegionAssumption DEF VerifyOk, Goto, TInv, TypeOK, Looked, Phases
<1>5. CASE EncodeDone
  BY <1>5 DEF EncodeDone, TInv, TypeOK, Looked, Phases, Errors
<1>6. CASE Finished \/ UNCHANGED vars
  BY <1>6 DEF Finished, vars, TInv, TypeOK, Looked
<1> QED BY <1>1, <1>2, <1>3, <1>4, <1>5, <1>6

LEMMA TypeNext ==
  ASSUME TInv, [Next]_vars
  PROVE  TInv'
<1>1. CASE \/ CheckDuplicate \/ CheckDetached \/ PlaceMissing \/ GiveUp \/ VerifyEmpty
           \/ VerifyBad
  <2>1. \E e \in Errors \ {"none"} : Raise(e)
    BY <1>1 DEF CheckDuplicate, CheckDetached, PlaceMissing, GiveUp, VerifyEmpty, VerifyBad, Errors
  <2> QED BY <2>1, TypeRaise
<1> QED
  BY <1>1, TypeScan, TypePlace, TypePass, TypeConverge, TypePad, TypeEncode, TypeMove DEF Next

\* Every state of every build is well typed.
THEOREM TypeCorrect == Spec => []TypeOK
<1>1. Init => TInv
  BY TypeInit
<1>2. TInv /\ [Next]_vars => TInv'
  BY TypeNext
<1>3. TInv => TypeOK
  BY DEF TInv
<1> QED BY <1>1, <1>2, <1>3, PTL DEF Spec

-----------------------------------------------------------------------------
(* The pass budget.  Each fix moves the threshold by MaxPasses and spends   *)
(* one of the remaining fixes, and no pass is recorded at the threshold     *)
(* without one.                                                             *)

Searching == phase \in {"check", "scan", "place"}
BInv ==
  /\ TInv
  /\ next_fix_thres + MaxPasses * remaining_fixes <= MaxPasses * (MaxPasses + 1)
  /\ IF Searching THEN npasses < next_fix_thres
     ELSE phase = "failed" \/ npasses <= next_fix_thres
  /\ npasses <= MaxPasses * (MaxPasses + 1)

LEMMA BudgetInit ==
  ASSUME Init PROVE BInv
<1>1. TInv /\ MaxPasses \in Nat /\ MaxPasses >= 3
  BY TypeInit, PassesAssumption
<1>2. /\ phase = "check" /\ npasses = 0 /\ next_fix_thres = MaxPasses
      /\ remaining_fixes = MaxPasses \/ remaining_fixes = 0
  BY DEF Init
<1>3. /\ MaxPasses * 0 = 0 /\ MaxPasses * (MaxPasses + 1) = MaxPasses + MaxPasses * MaxPasses
      /\ MaxPasses * MaxPasses >= 0
  BY <1>1
<1> QED BY <1>1, <1>2, <1>3 DEF BInv, Searching

LEMMA BudgetNext ==
  ASSUME BInv, [Next]_vars
  PROVE  BInv'
<1>0. TInv /\ TInv' /\ npasses \in Nat /\ next_fix_thres \in Nat /\ remaining_fixes \in Nat
      /\ MaxPasses \in Nat /\ MaxPasses >= 3
  <2>1. TInv /\ TInv'
    BY TypeNext DEF BInv
  <2>2. TypeOK /\ MaxPasses \in Nat /\ MaxPasses >= 3
    BY <2>1, PassesAssumption DEF TInv
  <2>3. npasses \in Nat /\ next_fix_thres \in Nat /\ remaining_fixes \in 0 .. MaxPasses
    BY <2>2 DEF TypeOK
  <2> QED BY <2>1, <2>2, <2>3
<1>1. CASE NextPass
  <2>1. /\ npasses' = npasses + 1 /\ npasses + 1 < next_fix_thres /\ phase = "place"
        /\ UNCHANGED <<phase, next_fix_thres, remaining_fixes>>
    BY <1>1, <1>0 DEF NextPass, RecordPass, AnotherPass, Exhausted, PassDone
  <2>2. MaxPasses * remaining_fixes >= 0
    BY <1>0
  <2> QED BY <1>0, <2>1, <2>2 DEF BInv, Searching
<1>2. CASE FixPass
  <2>1. /\ npasses' = npasses + 1 /\ next_fix_thres' = next_fix_thres + MaxPasses
        /\ remaining_fixes > 0 /\ remaining_fixes' = remaining_fixes - 1
        /\ phase = "place" /\ phase' = phase
    BY <1>2 DEF FixPass, RecordPass, AnotherPass, PassDone
  <2>2. MaxPasses * remaining_fixes' = MaxPasses * remaining_fixes - MaxPasses
    BY <1>0, <2>1
  <2>3. MaxPasses * remaining_fixes' >= 0
    BY <1>0, <2>1
  <2> QED BY <1>0, <2>1, <2>2, <2>3 DEF BInv, Searching
<1>3. CASE Converge
  <2>1. /\ npasses' = npasses + 1 /\ phase = "place" /\ phase' \in {"pad", "verify"}
        /\ UNCHANGED <<next_fix_thres, remaining_fixes>>
    BY <1>3 DEF Converge, Goto, RecordPass, PassDone
  <2>2. MaxPasses * remaining_fixes >= 0
    BY <1>0
  <2> QED BY <1>0, <2>1, <2>2 DEF BInv, Searching
<1>4. CASE ~(NextPass \/ FixPass \/ Converge)
  <2>1. /\ UNCHANGED <<npasses, next_fix_thres, remaining_fixes>>
        /\ Searching' => Searching
        /\ (~Searching /\ phase # "failed") => ~Searching'
        /\ phase = "failed" => phase' = "failed"
        /\ Searching => Searching' \/ phase' = "failed"
    BY <1>4 DEF Next, vars, CheckDuplicate, CheckDetached, CheckOk, ScanLabel, ScanAlign,
      ScanNoPad, ScanInst, ScanDone, Scanning, Scanned, Place, PlaceMissing, GiveUp, PassDone,
      PadInst, PadDone, VerifyEmpty, VerifyBad, VerifyOk, EncodeInst, EncodeDone, Finished,
      Raise, Goto, scanVars, layVars, passVars, outVars, Searching
  <2>2. MaxPasses * remaining_fixes' = MaxPasses * remaining_fixes
    BY <2>1
  <2>3. IF Searching' THEN npasses' < next_fix_thres'
        ELSE phase' = "failed" \/ npasses' <= next_fix_thres'
    <3>1. CASE Searching
      BY <1>0, <2>1, <3>1 DEF BInv
    <3>2. CASE ~Searching
      BY <1>0, <2>1, <3>2 DEF BInv, Searching
    <3> QED BY <3>1, <3>2
  <2> QED BY <1>0, <2>1, <2>2, <2>3 DEF BInv
<1> QED BY <1>1, <1>2, <1>3, <1>4

\* The search for a layout takes at most max_passes * (max_passes + 1) passes.
THEOREM PassBudgetHolds == Spec => []PassBudget
<1>1. Init => BInv
  BY BudgetInit
<1>2. BInv /\ [Next]_vars => BInv'
  BY BudgetNext
<1>3. BInv => PassBudget
  BY DEF BInv, PassBudget
<1> QED BY <1>1, <1>2, <1>3, PTL DEF Spec

-----------------------------------------------------------------------------
(* Settled sizes.  Within a pass the instructions before i form a chain of  *)
(* the new sizes and those from i on still are the chain of the pass before; *)
(* if nothing has moved, the sizes already taken are functions of the       *)
(* addresses and of the old chain.  At the end of a pass that moved nothing *)
(* the old chain is the new one.                                            *)

N == Len(insts)
Chained ==
  /\ \A k \in 1 .. N : k + 1 < i => addrs[k + 1] = addrs[k] + sizes[k]
  /\ i > 1 => p = addrs[i - 1] + sizes[i - 1]
Pending ==
  /\ \A k \in 1 .. N : k >= i => addrs[k] = prev[k]
  /\ \A k \in 1 .. N - 1 : k >= i => prev[k + 1] = prev[k] + sizes[k]
Taken ==
  (\A k \in 1 .. N : addrs[k] = prev[k]) =>
    \A k \in 1 .. N - 1 : k < i => sizes[k] = SizeWith(k, addrs, prev[k + 1] - prev[k])
Settled == \A k \in 1 .. N - 1 : SizeFrom(k, addrs) = sizes[k]

SInv ==
  /\ TInv
  /\ phase \in {"check", "scan"} => npasses = 0
  /\ HasAligns \/ /\ phase = "place" => Chained
                  /\ phase = "place" /\ npasses > 0 => Pending /\ Taken
                  /\ phase \in {"pad", "verify", "encode", "done"} => Settled

\* One instruction of a pass without alignments.
LEMMA SettledPlace ==
  ASSUME SInv, TInv', Place, ~HasAligns
  PROVE  Chained' /\ (npasses > 0 => Pending' /\ Taken')
<1> DEFINE size == SizeWith(i, addrs', sizes[i])
<1>1. /\ UNCHANGED <<insts, where, aligns, npasses, prev>> /\ phase = "place"
  BY DEF Place, passVars
<1>2. /\ N \in Nat /\ i \in 1 .. N /\ p \in Nat /\ i' = i + 1
      /\ addrs \in Seq(Nat) /\ Len(addrs) = N /\ sizes \in Seq(Nat) /\ Len(sizes) = N
      /\ aligns \in Seq(Nat) /\ Len(aligns) = N
  <2>1. TypeOK /\ i \in 1 .. N /\ i' = i + 1
    BY PlaceValues DEF SInv, TInv, N
  <2> QED BY <2>1 DEF TypeOK, N
<1>3. Aligned(i, p) = p
  BY <1>2 DEF HasAligns, Aligned
<1>4. addrs' = [addrs EXCEPT ![i] = p] /\ sizes' = [sizes EXCEPT ![i] = size]
      /\ p' = p + size /\ size \in Nat
  BY <1>3, PlaceValues DEF SInv
<1>5. /\ \A k \in 1 .. N : addrs'[k] = IF k = i THEN p ELSE addrs[k]
      /\ \A k \in 1 .. N : sizes'[k] = IF k = i THEN size ELSE sizes[k]
      /\ N' = N
  <2> HIDE DEF size
  <2> QED BY <1>1, <1>2, <1>4, ExceptSeq DEF N
<1>6. \A k \in 1 .. N : addrs[k] \in Nat /\ sizes[k] \in Nat
  BY <1>2, ElementOfSeq
<1>7. Chained
  BY <1>1 DEF SInv
<1> HIDE DEF size
<1>8. Chained'
  <2>1. ASSUME NEW k \in 1 .. N, k + 1 < i + 1
        PROVE  addrs'[k + 1] = addrs'[k] + sizes'[k]
    <3>1. CASE k + 1 = i
      BY <1>2, <1>5, <1>7, <2>1, <3>1 DEF Chained
    <3>2. CASE k + 1 < i
      BY <1>2, <1>5, <1>7, <2>1, <3>2 DEF Chained
    <3> QED BY <1>2, <2>1, <3>1, <3>2
  <2>2. p' = addrs'[i' - 1] + sizes'[i' - 1]
    BY <1>2, <1>4, <1>5
  <2> QED BY <1>2, <1>5, <2>1, <2>2 DEF Chained
<1>9. ASSUME npasses > 0
      PROVE  Pending' /\ Taken'
  <2>1. Pending /\ Taken
    BY <1>1, <1>9 DEF SInv
  <2>2. Pending'
    BY <1>1, <1>2, <1>5, <2>1 DEF Pending
  <2>3. ASSUME \A k \in 1 .. N : addrs'[k] = prev[k], NEW j \in 1 .. N - 1, j < i + 1
        PROVE  sizes'[j] = SizeWith(j, addrs', prev[j + 1] - prev[j])
    <3>1. \A k \in 1 .. N : addrs[k] = prev[k]
      BY <1>2, <1>5, <2>1, <2>3 DEF Pending
    <3>2. addrs' = addrs
      <4>1. p = addrs[i]
        BY <1>2, <1>5, <2>3, <3>1
      <4> QED BY <1>2, <1>4, <4>1
    <3>3. CASE j < i
      BY <1>2, <1>5, <2>1, <2>3, <3>1, <3>2, <3>3 DEF Taken
    <3>4. CASE j = i
      <4>1. prev[i + 1] = prev[i] + sizes[i] /\ prev[i] = addrs[i]
        BY <1>2, <2>1, <2>3, <3>1, <3>4 DEF Pending
      <4>2. prev[i + 1] - prev[i] = sizes[i]
        BY <1>2, <1>6, <4>1
      <4> QED BY <1>2, <1>5, <3>4, <4>2 DEF size
    <3> QED BY <1>2, <2>3, <3>3, <3>4
  <2>4. Taken'
    <3>1. SUFFICES ASSUME \A k \in 1 .. N : addrs'[k] = prev[k],
                          NEW j \in 1 .. N - 1, j < i + 1
                   PROVE  sizes'[j] = SizeWith(j, addrs, prev[j + 1] - prev[j])'
      BY <1>1, <1>2, <1>5 DEF Taken
    <3>2. SizeWith(j, addrs, prev[j + 1] - prev[j])' = SizeWith(j, addrs', prev[j + 1] - prev[j])
      BY <1>1 DEF SizeWith, Offset, AddrOf
    <3> QED BY <3>1, <3>2, <2>3
  <2> QED BY <2>2, <2>4
<1> QED BY <1>8, <1>9

\* The end of a pass that moved nothing: what is stored is what comes out.
LEMMA SettledConverge ==
  ASSUME SInv, Converge, ~HasAligns
  PROVE  Settled
<1>1. /\ phase = "place" /\ addrs = prev /\ npasses > 0 /\ i > N
  <2>1. phase = "place" /\ i > N /\ Converged
    BY DEF Converge, PassDone, N
  <2> QED BY <2>1 DEF Converged, SInv, TInv, TypeOK
<1>2. Chained /\ Taken
  BY <1>1 DEF SInv
<1>3. /\ N \in Nat /\ i = N + 1
      /\ addrs \in Seq(Nat) /\ Len(addrs) = N /\ sizes \in Seq(Nat) /\ Len(sizes) = N
  <2>1. TypeOK
    BY DEF SInv, TInv
  <2>2. N \in Nat /\ i \in 1 .. N + 1
    BY <2>1 DEF TypeOK, N
  <2> QED BY <1>1, <2>1, <2>2 DEF TypeOK, N
<1>4. \A k \in 1 .. N : addrs[k] \in Nat /\ sizes[k] \in Nat
  BY <1>3, ElementOfSeq
<1>5. ASSUME NEW k \in 1 .. N - 1
      PROVE  SizeFrom(k, addrs) = sizes[k]
  <2>1. addrs[k + 1] = addrs[k] + sizes[k]
    BY <1>2, <1>3 DEF Chained
  <2>2. prev[k + 1] - prev[k] = sizes[k]
    BY <1>1, <1>3, <1>4, <2>1
  <2>3. sizes[k] = SizeWith(k, addrs, prev[k + 1] - prev[k])
    BY <1>1, <1>2, <1>3 DEF Taken
  <2> QED BY <2>2, <2>3 DEF SizeFrom
<1> QED BY <1>5 DEF Settled

LEMMA SettledNext ==
  ASSUME SInv, [Next]_vars
  PROVE  SInv'
<1>0. TInv /\ TInv'
  BY TypeNext DEF SInv
<1>1. CASE Place
  <2>1. /\ UNCHANGED <<phase, aligns, npasses>> /\ phase = "place"
    BY <1>1 DEF Place, passVars
  <2>2. HasAligns' <=> HasAligns
    BY <2>1 DEF HasAligns
  <2> QED BY <1>0, <1>1, <2>1, <2>2, SettledPlace DEF SInv
<1>2. CASE NextPass
  <2>1. /\ UNCHANGED <<phase, insts, where, aligns, addrs, sizes>> /\ phase = "place"
        /\ i' = 1 /\ prev' = addrs /\ i > N
    BY <1>2 DEF NextPass, RecordPass, AnotherPass, PassDone, N
  <2>2. HasAligns' <=> HasAligns
    BY <2>1 DEF HasAligns
  <2>3. ASSUME ~HasAligns PROVE Chained' /\ Pending' /\ Taken'
    <3>0. N \in Nat /\ i \in 1 .. N + 1
      <4>1. TypeOK
        BY <1>0 DEF TInv
      <4> QED BY <4>1 DEF TypeOK, N
    <3>1. Chained /\ N \in Nat /\ i = N + 1
      BY <2>1, <2>3, <3>0 DEF SInv
    <3>2. Chained'
      BY <2>1, <3>1 DEF Chained, N
    <3>3. Pending'
      BY <2>1, <3>1 DEF Chained, Pending, N
    <3>4. Taken'
      BY <2>1, <3>1 DEF Taken, N
    <3> QED BY <3>2, <3>3, <3>4
  <2> QED BY <1>0, <2>1, <2>2, <2>3 DEF SInv
<1>3. CASE FixPass
  <2>1. phase' = "place"
    BY <1>3 DEF FixPass, AnotherPass, PassDone
  <2>2. PICK k \in Candidates : aligns' = [aligns EXCEPT ![k] = 4]
    BY <1>3 DEF FixPass
  <2>3. k \in DOMAIN aligns
    <3>1. TypeOK /\ k \in DOMAIN insts
      BY <1>0, <2>2 DEF Candidates, TInv
    <3> QED BY <3>1 DEF TypeOK
  <2>4. HasAligns'
    BY <2>2, <2>3 DEF HasAligns
  <2> QED BY <1>0, <2>1, <2>4 DEF SInv
<1>4. CASE Converge
  <2>1. /\ UNCHANGED <<insts, where, addrs, sizes, aligns>> /\ phase' \in {"pad", "verify"}
    BY <1>4 DEF Converge, Goto, layVars
  <2>2. HasAligns' <=> HasAligns
    BY <2>1 DEF HasAligns
  <2>3. ASSUME ~HasAligns PROVE Settled'
    BY <1>4, <2>1, <2>3, SettledConverge
      DEF Settled, SizeFrom, SizeWith, Offset, AddrOf, N
  <2> QED BY <1>0, <2>1, <2>2, <2>3 DEF SInv
<1>5. CASE ScanLabel \/ ScanAlign \/ ScanNoPad \/ ScanInst \/ CheckOk
  <2>1. phase \in {"check", "scan"} /\ phase' = "scan" /\ npasses' = npasses
    BY <1>5 DEF ScanLabel, ScanAlign, ScanNoPad, ScanInst, Scanning, Scanned, CheckOk, Goto,
      passVars
  <2> QED BY <1>0, <2>1 DEF SInv
<1>6. CASE ScanDone
  <2>1. phase = "scan" /\ phase' = "place" /\ npasses' = npasses /\ i' = 1
    BY <1>6 DEF ScanDone, Goto, passVars
  <2>2. Chained'
    BY <1>0, <2>1 DEF Chained
  <2> QED BY <1>0, <2>1, <2>2 DEF SInv
<1>7. CASE \/ CheckDuplicate \/ CheckDetached \/ PlaceMissing \/ GiveUp \/ VerifyEmpty
           \/ VerifyBad
  <2>1. phase' = "failed"
    BY <1>7 DEF CheckDuplicate, CheckDetached, PlaceMissing, GiveUp, VerifyEmpty, VerifyBad, Raise
  <2> QED BY <1>0, <2>1 DEF SInv
<1>8. CASE PadInst \/ PadDone \/ VerifyOk \/ EncodeInst \/ EncodeDone
  <2>1. /\ UNCHANGED <<insts, where, addrs, sizes, aligns>>
        /\ phase \in {"pad", "verify", "encode"}
        /\ phase' \in {"pad", "verify", "encode", "done", "failed"}
    BY <1>8 DEF PadInst, PadDone, VerifyOk, EncodeInst, EncodeDone, Goto, layVars
  <2>2. (HasAligns' <=> HasAligns) /\ (Settled => Settled')
    BY <2>1 DEF HasAligns, Settled, SizeFrom, SizeWith, Offset, AddrOf, N
  <2> QED BY <1>0, <2>1, <2>2 DEF SInv
<1>9. CASE Finished \/ UNCHANGED vars
  <2>1. vars' = vars
    BY <1>9 DEF Finished
  <2> QED BY <1>0, <2>1 DEF vars, scanVars, layVars, passVars, outVars, SInv, HasAligns, Chained,
        Pending, Taken, Settled, SizeFrom, SizeWith, Offset, AddrOf, N
<1> QED
  BY <1>1, <1>2, <1>3, <1>4, <1>5, <1>6, <1>7, <1>8, <1>9 DEF Next

\* A build that ended without any alignment stores the sizes it encodes, so
\* that its branches are relative to where the next instruction really is.
THEOREM SettledHolds == Spec => []AlignFreeSettled
<1>1. Init => SInv
  BY TypeInit DEF SInv, Init
<1>2. SInv /\ [Next]_vars => SInv'
  BY SettledNext
<1>3. SInv => AlignFreeSettled
  BY DEF SInv, AlignFreeSettled, Settled, N
<1> QED BY <1>1, <1>2, <1>3, PTL DEF Spec

-----------------------------------------------------------------------------
(* Where the instructions of a finished build are.  The passes are stopped *)
(* when the ADDRESSES repeat, the image is put together from sizes that    *)
(* are taken once more: what makes the two agree is that, under equal      *)
(* addresses, the size of an instruction takes at most two values, and     *)
(* each of them has been left room for.                                    *)

\* The sizes instruction k can have, whatever it refers to.
Window(k) ==
  LET x == insts[k] IN
  IF x.kind = "data" THEN {x.n}
  ELSE IF x.kind = "plain" THEN {1 + x.n} ELSE x.n + 2 .. x.n + 6

\* Under the addresses a, instruction k may have size q.
Room(k, a, q) ==
  k < N => a[k + 1] >= a[k] + q /\ (aligns[k + 1] = 0 => a[k + 1] = a[k] + q)
First(a) == a[1] >= Start /\ (aligns[1] = 0 => a[1] = Start)
Divides(k) == aligns[k] # 0 => addrs[k] % aligns[k] = 0

\* q was the size of instruction k at the end of the last recorded pass.
OldSize(k, q) ==
  /\ q \in Window(k)
  /\ Room(k, prev, q)
  /\ npasses > 1 /\ prev = prev2 => \E r \in Window(k) : q = SizeWith(k, prev, r)

\* A pass in progress: the instructions before i have a new address and size.
PassInv ==
  /\ i = 1 => p = Start
  /\ i > 1 => p = addrs[i - 1] + sizes[i - 1] /\ First(addrs)
  /\ \A k \in 1 .. N : k < i => sizes[k] \in Window(k) /\ Divides(k)
  /\ \A k \in 1 .. N : k + 1 < i => Room(k, addrs, sizes[k])
  /\ npasses > 0 =>
       /\ \A k \in 1 .. N : k >= i => addrs[k] = prev[k] /\ OldSize(k, sizes[k])
       /\ \A k \in 1 .. N : k < i =>
            \E q \in Window(k) : OldSize(k, q) /\ (addrs = prev => sizes[k] = SizeWith(k, addrs, q))

\* The layout after the last pass, for sizes taken once more.
Pos(k) == IF k = 1 THEN Start ELSE addrs[k - 1] + SizeFrom(k - 1, addrs)
Laid ==
  /\ \A k \in 1 .. N : /\ addrs[k] >= Pos(k) /\ (aligns[k] = 0 => addrs[k] = Pos(k))
                       /\ Divides(k) /\ Resolved(insts[k])
                       /\ SizeFrom(k, addrs) \in Nat /\ SizeFrom(k, addrs) <= sizes[k] + 1
  /\ N > 0 => LastBranchAhead(N) \/ SizeFrom(N, addrs) = sizes[N]
Padded(k) == pads[k] = addrs[k] - Pos(k)

ImageInv ==
  /\ phase \in {"check", "scan"} => npasses = 0
  /\ phase = "place" => PassInv
  /\ phase \in {"pad", "verify", "encode", "done"} => Laid
  /\ phase = "pad" => p = Pos(i) /\ \A k \in 1 .. N : k < i => Padded(k)
  /\ phase \in {"verify", "encode"} => \A k \in 1 .. N : Padded(k)
  /\ phase \in {"encode", "done"} => N > 0 /\ addrs[N] + sizes[N] <= End
  /\ phase = "encode" => p = Pos(i) /\ Len(image) = i - 1
  /\ phase = "done" => Len(image) = N
  /\ phase \notin {"encode", "done", "failed"} => image = <<>>
  /\ \A k \in 1 .. Len(image) : k <= N /\ image[k] = addrs[k]
  /\ error # "AssertionError"
IInv == TInv /\ ImageInv

-----------------------------------------------------------------------------
(* Arithmetic. *)

\* Only 0 is a multiple of n between 0 and n - 1.
LEMMA SmallMultiple ==
  ASSUME NEW n \in Nat \ {0}, NEW d \in Int, 0 <= n * d, n * d < n
  PROVE  n * d = 0
<1>1. CASE d <= -1
  <2>1. n * d <= n * (-1)
    BY <1>1
  <2> QED BY <2>1
<1>2. CASE d >= 1
  <2>1. n * d >= n * 1
    BY <1>2
  <2> QED BY <2>1
<1>3. CASE d = 0
  BY <1>3
<1> QED BY <1>1, <1>2, <1>3

LEMMA MultipleMod ==
  ASSUME NEW n \in Nat \ {0}, NEW k \in Int
  PROVE  (n * k) % n = 0
<1> DEFINE q == (n * k) \div n
           r == (n * k) % n
<1>1. q \in Int /\ r \in 0 .. n - 1 /\ n * k = n * q + r
  OBVIOUS
<1> HIDE DEF q, r
<1>2. n * (k - q) = n * k - n * q
  <2>1. q \in Int
    BY <1>1
  <2> QED BY <2>1
<1>3. n * (k - q) = r /\ k - q \in Int
  BY <1>1, <1>2
<1>4. n * (k - q) = 0
  BY <1>1, <1>3, SmallMultiple
<1>5. r = 0
  BY <1>3, <1>4
<1> QED BY <1>5 DEF r

\* Rounding up gives a multiple, and never a lower address.
LEMMA RoundUpDivides ==
  ASSUME NEW a \in Nat, NEW n \in Nat \ {0}
  PROVE  RoundUp(a, n) % n = 0 /\ RoundUp(a, n) >= a
<1> DEFINE q == (-a) \div n
           r == (-a) % n
<1>1. q \in Int /\ r \in 0 .. n - 1 /\ -a = n * q + r
  OBVIOUS
<1> HIDE DEF q, r
<1>2. a + r = n * (-q) /\ -q \in Int
  <2>1. q \in Int /\ n * (-q) = -(n * q)
    BY <1>1
  <2> QED BY <1>1, <2>1
<1>3. (n * (-q)) % n = 0
  BY <1>2, MultipleMod
<1>4. (a + r) % n = 0 /\ a + r >= a
  BY <1>1, <1>2, <1>3
<1> QED BY <1>4 DEF r, RoundUp

\* Five neighbouring values have at most two sizes, and these are neighbours.
LEMMA ImmWindow ==
  ASSUME NEW d \in Int
  PROVE  \E v \in 1 .. 4 : \A s \in 0 .. 4 : ImmSize(d - s) \in {v, v + 1}
<1> DEFINE Mag(u) == IF u >= 0 THEN u ELSE -u - 1
<1>1. \A u \in Int : ImmSize(u) = IF Mag(u) < 32 THEN 1 ELSE IF Mag(u) < 4096 THEN 2
        ELSE IF Mag(u) < 524288 THEN 3 ELSE IF Mag(u) < 67108864 THEN 4 ELSE 5
  BY DEF ImmSize, VarintSize
<1>2. CASE \A s \in 0 .. 4 : Mag(d - s) < 4096
  <2>1. \A s \in 0 .. 4 : ImmSize(d - s) \in {1, 2}
    BY <1>1, <1>2, SMT
  <2> QED BY <2>1, SMT
<1>3. CASE \A s \in 0 .. 4 : 32 <= Mag(d - s) /\ Mag(d - s) < 524288
  <2>1. \A s \in 0 .. 4 : ImmSize(d - s) \in {2, 3}
    BY <1>1, <1>3, SMT
  <2> QED BY <2>1, SMT
<1>4. CASE \A s \in 0 .. 4 : 4096 <= Mag(d - s) /\ Mag(d - s) < 67108864
  <2>1. \A s \in 0 .. 4 : ImmSize(d - s) \in {3, 4}
    BY <1>1, <1>4, SMT
  <2> QED BY <2>1, SMT
<1>5. CASE \A s \in 0 .. 4 : Mag(d - s) >= 524288
  <2>1. \A s \in 0 .. 4 : ImmSize(d - s) \in {4, 5}
    BY <1>1, <1>5, SMT
  <2> QED BY <2>1, SMT
<1> QED BY <1>2, <1>3, <1>4, <1>5, SMT

\* The size of a backward offset does not shrink when it reaches further back.
LEMMA ImmGrows ==
  ASSUME NEW a \in Int, NEW b \in Int, b <= a, a < 0
  PROVE  ImmSize(a) <= ImmSize(b)
BY DEF ImmSize, VarintSize

-----------------------------------------------------------------------------
(* The size of an instruction as a function of its stored size. *)

Placeable(k, ad) ==
  /\ insts \in Seq(Inst) /\ where \in [Objs -> 0 .. N]
  /\ k \in 1 .. N /\ Resolved(insts[k])
  /\ ad \in Seq(Nat) /\ Len(ad) = N

\* The parts of an instruction and the address it refers to.
LEMMA Parts ==
  ASSUME NEW k, NEW ad, Placeable(k, ad)
  PROVE  /\ insts[k].kind \in Kinds /\ insts[k].n \in Nat /\ ad[k] \in Nat
         /\ Refers(insts[k]) => AddrOf(insts[k], ad) \in Int
<1> DEFINE x == insts[k]
<1>1. x \in Inst /\ k \in 1 .. N /\ N \in Nat
  BY DEF Placeable, N
<1>2. x.n \in Nat /\ x.off \in Int /\ x.ref \in Objs /\ x.kind \in Kinds
  BY <1>1 DEF Inst
<1>3. ad[k] \in Nat
  BY <1>1, ElementOfSeq DEF Placeable
<1>4. ASSUME Refers(x) PROVE AddrOf(x, ad) \in Int
  <2>1. where[x.ref] \in 1 .. Len(ad)
    BY <1>2, <1>4 DEF Placeable, Resolved
  <2>2. ad[where[x.ref]] \in Nat
    BY <2>1, ElementOfSeq DEF Placeable
  <2> QED BY <1>2, <2>2 DEF AddrOf
<1> QED BY <1>2, <1>3, <1>4

LEMMA WindowNat ==
  ASSUME NEW k, NEW ad, Placeable(k, ad), NEW q \in Window(k)
  PROVE  q \in Nat
BY Parts DEF Window

\* An instruction always has a size of its window.
LEMMA SizeInWindow ==
  ASSUME NEW k, NEW ad, Placeable(k, ad), NEW q \in Int
  PROVE  SizeWith(k, ad, q) \in Window(k)
<1> DEFINE x == insts[k]
<1>1. /\ x.kind \in Kinds /\ x.n \in Nat /\ ad[k] \in Nat
      /\ Refers(x) => AddrOf(x, ad) \in Int
  BY Parts
<1>2. CASE x.kind \in {"data", "plain"}
  BY SMT, <1>2 DEF SizeWith, Window
<1>3. CASE x.kind = "branch"
  <2>1. Offset(k, ad, q) \in Int
    BY <1>1, <1>3 DEF Offset, Refers
  <2>2. ImmSize(Offset(k, ad, q)) \in 1 .. 5
    BY <2>1, OperandSizes
  <2> QED BY SMT, <1>1, <1>3, <2>2 DEF SizeWith, Window
<1>4. CASE x.kind \in {"imm", "mem"}
  <2>1. AddrOf(x, ad) \in Int
    BY <1>1, <1>4 DEF Refers
  <2>2. ImmSize(AddrOf(x, ad)) \in 1 .. 5 /\ MemSize(AddrOf(x, ad)) \in 1 .. 5
    BY <2>1, OperandSizes
  <2> QED BY SMT, <1>1, <1>4, <2>2 DEF SizeWith, Window
<1> QED BY <1>1, <1>2, <1>3, <1>4

\* Only a branch looks at its stored size.
LEMMA SizeFixed ==
  ASSUME NEW k, NEW ad, Placeable(k, ad), insts[k].kind # "branch", NEW q, NEW r
  PROVE  SizeWith(k, ad, q) = SizeWith(k, ad, r)
<1>1. insts[k].kind \in {"data", "plain", "imm", "mem"}
  BY Parts
<1> QED BY SMT, <1>1 DEF SizeWith

\* Under given addresses an instruction has at most two sizes, one apart.
LEMMA TwoSizes ==
  ASSUME NEW k, NEW ad, Placeable(k, ad)
  PROVE  \E v \in Nat : \A s \in Window(k) : SizeWith(k, ad, s) \in {v, v + 1}
<1> DEFINE x == insts[k]
<1>1. x.n \in Nat /\ ad[k] \in Nat
  BY Parts
<1>2. CASE x.kind = "branch"
  <2> DEFINE d == AddrOf(x, ad) - ad[k] - (x.n + 2)
  <2>1. AddrOf(x, ad) \in Int /\ d \in Int
    BY <1>1, <1>2, Parts DEF Refers
  <2> HIDE DEF d
  <2>2. PICK v \in 1 .. 4 : \A s \in 0 .. 4 : ImmSize(d - s) \in {v, v + 1}
    BY <2>1, ImmWindow
  <2>3. ASSUME NEW s \in Window(k)
        PROVE  SizeWith(k, ad, s) \in {1 + x.n + v, (1 + x.n + v) + 1}
    <3>1. s \in x.n + 2 .. x.n + 6
      BY <1>2, <2>3 DEF Window
    <3>2. Offset(k, ad, s) = d - (s - (x.n + 2)) /\ s - (x.n + 2) \in 0 .. 4
      BY <1>1, <2>1, <3>1 DEF d, Offset
    <3>3. ImmSize(Offset(k, ad, s)) \in {v, v + 1}
      BY <2>2, <3>2
    <3> QED BY SMT, <1>1, <1>2, <3>3 DEF SizeWith
  <2> QED BY <1>1, <2>3
<1>3. CASE x.kind # "branch"
  <2>1. SizeWith(k, ad, 0) \in Nat
    BY SizeInWindow, WindowNat
  <2> QED BY <1>3, <2>1, SizeFixed
<1> QED BY <1>2, <1>3

\* Taken a third time, the size is one of the two sizes before it.
LEMMA ThirdSize ==
  ASSUME NEW k, NEW ad, Placeable(k, ad), NEW q, NEW r \in Window(k), NEW s,
         q = SizeWith(k, ad, r), s = SizeWith(k, ad, q)
  PROVE  SizeWith(k, ad, s) \in {q, s} /\ SizeWith(k, ad, s) <= s + 1
<1>1. r \in Int
  BY WindowNat
<1>2. q \in Window(k) /\ q \in Int
  <2>1. SizeWith(k, ad, r) \in Window(k)
    BY <1>1, SizeInWindow
  <2> QED BY <2>1, WindowNat
<1>3. s \in Window(k) /\ s \in Int
  <2>1. SizeWith(k, ad, q) \in Window(k)
    BY <1>2, SizeInWindow
  <2> QED BY <2>1, WindowNat
<1>4. PICK v \in Nat : \A t \in Window(k) : SizeWith(k, ad, t) \in {v, v + 1}
  BY TwoSizes
<1>5. q \in {v, v + 1} /\ s \in {v, v + 1} /\ SizeWith(k, ad, s) \in {v, v + 1}
  BY <1>2, <1>3, <1>4
<1>6. q = s => SizeWith(k, ad, s) = s
  OBVIOUS
<1> QED BY <1>5, <1>6

\* The size of an instruction that does not look ahead is settled by then.
LEMMA LastSize ==
  ASSUME NEW k, NEW ad, Placeable(k, ad), NEW q, NEW r \in Window(k), NEW s,
         q = SizeWith(k, ad, r), s = SizeWith(k, ad, q),
         insts[k].kind = "branch" => AddrOf(insts[k], ad) <= ad[k]
  PROVE  SizeWith(k, ad, s) = s
<1> DEFINE x == insts[k]
<1>1. r \in Int
  BY WindowNat
<1>2. q \in Window(k) /\ q \in Int
  <2>1. SizeWith(k, ad, r) \in Window(k)
    BY <1>1, SizeInWindow
  <2> QED BY <2>1, WindowNat
<1>3. s \in Window(k) /\ s \in Int
  <2>1. SizeWith(k, ad, q) \in Window(k)
    BY <1>2, SizeInWindow
  <2> QED BY <2>1, WindowNat
<1>4. CASE x.kind = "branch"
  <2>1. x.n \in Nat /\ ad[k] \in Nat /\ AddrOf(x, ad) \in Int
    BY <1>4, Parts DEF Refers
  <2>2. q >= 2 /\ s >= 2
    BY <1>2, <1>3, <1>4, <2>1 DEF Window
  <2>3. /\ Offset(k, ad, q) \in Int /\ Offset(k, ad, s) \in Int
        /\ Offset(k, ad, q) < 0 /\ Offset(k, ad, s) < 0
        /\ q <= s => Offset(k, ad, s) <= Offset(k, ad, q)
        /\ s <= q => Offset(k, ad, q) <= Offset(k, ad, s)
    BY <1>2, <1>3, <1>4, <2>1, <2>2 DEF Offset
  <2>4. ImmSize(Offset(k, ad, q)) \in Int /\ ImmSize(Offset(k, ad, s)) \in Int
    BY <2>3, OperandSizes
  <2>5. /\ q <= s => ImmSize(Offset(k, ad, q)) <= ImmSize(Offset(k, ad, s))
        /\ s <= q => ImmSize(Offset(k, ad, s)) <= ImmSize(Offset(k, ad, q))
    BY <2>3, ImmGrows
  <2>6. /\ s = 1 + x.n + ImmSize(Offset(k, ad, q))
        /\ SizeWith(k, ad, s) = 1 + x.n + ImmSize(Offset(k, ad, s))
    BY SMT, <1>4 DEF SizeWith
  <2>7. SizeWith(k, ad, s) \in {q, s}
    BY ThirdSize
  <2> QED BY <1>2, <1>3, <2>1, <2>4, <2>5, <2>6, <2>7
<1>5. CASE x.kind # "branch"
  BY <1>5, SizeFixed
<1> QED BY <1>4, <1>5

-----------------------------------------------------------------------------
(* A pass keeps PassInv. *)

LEMMA ImageTypes ==
  ASSUME TInv
  PROVE  /\ N \in Nat /\ i \in 1 .. N + 1 /\ p \in Nat /\ npasses \in Nat
         /\ addrs \in Seq(Nat) /\ Len(addrs) = N
         /\ sizes \in Seq(Nat) /\ Len(sizes) = N
         /\ aligns \in Seq(Nat) /\ Len(aligns) = N
         /\ insts \in Seq(Inst) /\ where \in [Objs -> 0 .. N]
         /\ \A k \in 1 .. N : addrs[k] \in Nat /\ sizes[k] \in Nat /\ aligns[k] \in Nat
<1>1. TypeOK
  BY DEF TInv
<1>2. /\ N \in Nat /\ i \in 1 .. N + 1 /\ p \in Nat /\ npasses \in Nat
      /\ addrs \in Seq(Nat) /\ Len(addrs) = N
      /\ sizes \in Seq(Nat) /\ Len(sizes) = N
      /\ aligns \in Seq(Nat) /\ Len(aligns) = N
      /\ insts \in Seq(Inst) /\ where \in [Objs -> 0 .. N]
  BY <1>1 DEF TypeOK, N
<1> QED BY <1>2, ElementOfSeq

\* What rounding an address up for an instruction gives.
LEMMA AlignedIs ==
  ASSUME NEW k, NEW a \in Nat, aligns[k] \in Nat
  PROVE  /\ Aligned(k, a) \in Nat /\ Aligned(k, a) >= a
         /\ aligns[k] = 0 => Aligned(k, a) = a
         /\ aligns[k] # 0 => Aligned(k, a) % aligns[k] = 0
<1>1. CASE aligns[k] = 0
  BY <1>1 DEF Aligned
<1>2. CASE aligns[k] # 0
  BY <1>2, RoundUpNat, RoundUpDivides DEF Aligned
<1> QED BY <1>1, <1>2

\* Sizes and windows depend on nothing but the instructions and their places.
LEMMA SizeSame ==
  ASSUME UNCHANGED <<insts, where>>, NEW k, NEW ad, NEW q
  PROVE  SizeWith(k, ad, q)' = SizeWith(k, ad, q) /\ Window(k)' = Window(k)
BY SMT DEF SizeWith, Offset, AddrOf, Window

\* What Place does, instruction by instruction.
LEMMA PlaceStep ==
  ASSUME IInv, Place
  PROVE  /\ UNCHANGED <<insts, where, aligns, npasses, prev, prev2>> /\ N' = N
         /\ i \in 1 .. N /\ i' = i + 1
         /\ \A k \in 1 .. N : k # i => addrs'[k] = addrs[k] /\ sizes'[k] = sizes[k]
         /\ addrs'[i] = Aligned(i, p)
         /\ addrs' = [addrs EXCEPT ![i] = addrs'[i]]
         /\ sizes'[i] = SizeWith(i, addrs', sizes[i])
         /\ sizes'[i] \in Window(i)
         /\ p' = addrs'[i] + sizes'[i]
<1> DEFINE a == Aligned(i, p)
           size == SizeWith(i, addrs', sizes[i])
<1>1. TInv /\ UNCHANGED <<insts, where, aligns, npasses, prev, prev2>> /\ Resolved(insts[i])
  BY DEF IInv, Place, passVars
<1>2. /\ i \in 1 .. N /\ i' = i + 1 /\ a \in Nat /\ size \in Nat
      /\ addrs' = [addrs EXCEPT ![i] = a] /\ sizes' = [sizes EXCEPT ![i] = size]
      /\ p' = a + size /\ addrs' \in Seq(Nat) /\ Len(addrs') = N
  BY <1>1, PlaceValues DEF N
<1>3. /\ addrs \in Seq(Nat) /\ Len(addrs) = N /\ sizes \in Seq(Nat) /\ Len(sizes) = N
      /\ sizes[i] \in Nat
  BY <1>1, <1>2, ImageTypes
<1>4. size \in Window(i)
  <2>1. Placeable(i, addrs')
    BY <1>1, <1>2, ImageTypes DEF Placeable
  <2> QED BY <1>3, <2>1, SizeInWindow
<1> HIDE DEF a, size
<1>5. /\ addrs'[i] = a /\ sizes'[i] = size
      /\ \A k \in 1 .. N : k # i => addrs'[k] = addrs[k] /\ sizes'[k] = sizes[k]
  BY <1>2, <1>3, ExceptSeq
<1> QED BY <1>1, <1>2, <1>4, <1>5 DEF a, size, N

LEMMA PassPlace ==
  ASSUME IInv, Place
  PROVE  PassInv'
<1>1. /\ UNCHANGED <<insts, where, aligns, npasses, prev, prev2>> /\ N' = N
      /\ i \in 1 .. N /\ i' = i + 1
      /\ \A k \in 1 .. N : k # i => addrs'[k] = addrs[k] /\ sizes'[k] = sizes[k]
      /\ addrs' = [addrs EXCEPT ![i] = addrs'[i]]
      /\ sizes'[i] = SizeWith(i, addrs', sizes[i])
      /\ sizes'[i] \in Window(i)
      /\ p' = addrs'[i] + sizes'[i]
  BY PlaceStep
<1>2. TInv /\ PassInv
  BY DEF IInv, ImageInv, Place
<1>3. N \in Nat /\ p \in Nat /\ aligns[i] \in Nat /\ addrs \in Seq(Nat) /\ Len(addrs) = N
  BY <1>1, <1>2, ImageTypes
<1>4. /\ addrs'[i] \in Nat /\ addrs'[i] >= p
      /\ aligns[i] = 0 => addrs'[i] = p
      /\ aligns[i] # 0 => addrs'[i] % aligns[i] = 0
  BY <1>3, AlignedIs, PlaceStep
<1>5. First(addrs')
  <2>1. CASE i = 1
    BY <1>2, <1>4, <2>1 DEF PassInv, First
  <2>2. CASE i # 1
    <3>1. i > 1 /\ 1 \in 1 .. N /\ addrs'[1] = addrs[1]
      BY <1>1, <1>3, <2>2
    <3> QED BY <1>2, <3>1 DEF PassInv, First
  <2> QED BY <2>1, <2>2
<1>6. ASSUME NEW k \in 1 .. N, k < i + 1
      PROVE  sizes'[k] \in Window(k) /\ (aligns[k] # 0 => addrs'[k] % aligns[k] = 0)
  <2>1. CASE k = i
    BY <1>1, <1>4, <2>1
  <2>2. CASE k # i
    <3>1. k < i
      BY <1>1, <1>3, <1>6, <2>2
    <3> QED BY <1>1, <1>2, <3>1 DEF PassInv, Divides
  <2> QED BY <2>1, <2>2
<1>7. ASSUME NEW k \in 1 .. N, k + 1 < i + 1
      PROVE  Room(k, addrs', sizes'[k])
  <2>1. CASE k + 1 = i
    <3>1. p = addrs[k] + sizes[k] /\ addrs'[k] = addrs[k] /\ sizes'[k] = sizes[k]
      BY <1>1, <1>2, <2>1 DEF PassInv
    <3> QED BY <1>4, <2>1, <3>1 DEF Room
  <2>2. CASE k + 1 # i
    <3>0. k + 1 < i /\ k + 1 \in 1 .. N /\ k # i
      BY <1>1, <1>3, <1>7, <2>2
    <3>1. Room(k, addrs, sizes[k]) /\ k + 1 \in 1 .. N
      BY <1>2, <3>0 DEF PassInv
    <3>2. addrs'[k] = addrs[k] /\ addrs'[k + 1] = addrs[k + 1] /\ sizes'[k] = sizes[k]
      BY <1>1, <2>2, <3>0
    <3> QED BY <3>1, <3>2 DEF Room
  <2> QED BY <2>1, <2>2
<1>8. ASSUME npasses > 0, NEW k \in 1 .. N, k >= i + 1
      PROVE  addrs'[k] = prev[k] /\ OldSize(k, sizes'[k])
  BY <1>1, <1>2, <1>8 DEF PassInv
<1>9. ASSUME npasses > 0, NEW k \in 1 .. N, k < i + 1
      PROVE  \E q \in Window(k) :
               OldSize(k, q) /\ (addrs' = prev => sizes'[k] = SizeWith(k, addrs', q))
  <2>1. CASE k = i
    <3>1. OldSize(k, sizes[k])
      BY <1>1, <1>2, <1>9, <2>1 DEF PassInv
    <3>2. sizes[k] \in Window(k)
      BY <3>1 DEF OldSize
    <3> QED BY <1>1, <2>1, <3>1, <3>2
  <2>2. CASE k # i
    <3>0. k < i
      BY <1>1, <1>3, <1>9, <2>2
    <3>1. PICK q \in Window(k) : OldSize(k, q) /\ (addrs = prev => sizes[k] = SizeWith(k, addrs, q))
      BY <1>2, <1>9, <3>0 DEF PassInv
    <3>2. sizes'[k] = sizes[k]
      BY <1>1, <2>2
    <3>3. ASSUME addrs' = prev PROVE addrs' = addrs
      <4>1. addrs[i] = prev[i]
        BY <1>1, <1>2, <1>9 DEF PassInv
      <4>2. addrs'[i] = addrs[i]
        BY <3>3, <4>1
      <4>3. addrs' = [addrs EXCEPT ![i] = addrs[i]]
        BY <1>1, <4>2
      <4> QED BY <1>3, <4>3
    <3> QED BY <3>1, <3>2, <3>3
  <2> QED BY <2>1, <2>2
<1>10. i + 1 > 1 /\ (i + 1) - 1 = i
  BY <1>1
<1>11. ASSUME NEW k, NEW q PROVE OldSize(k, q)' <=> OldSize(k, q)
  <2>1. Window(k)' = Window(k) /\ \A r : SizeWith(k, prev, r)' = SizeWith(k, prev, r)
    BY <1>1, SizeSame
  <2> QED BY <1>1, <2>1 DEF OldSize, Room
<1>12. ASSUME NEW k PROVE Window(k)' = Window(k)
  BY <1>1, SizeSame
<1>13. /\ \A k \in 1 .. N' : k < i' => sizes'[k] \in Window(k)' /\ Divides(k)'
       /\ \A k \in 1 .. N' : k + 1 < i' => Room(k, addrs, sizes[k])'
       /\ First(addrs)'
  BY <1>1, <1>5, <1>6, <1>7, <1>12 DEF Divides, Room, First
<1>14. npasses' > 0 =>
         /\ \A k \in 1 .. N' : k >= i' => addrs'[k] = prev'[k] /\ OldSize(k, sizes[k])'
         /\ \A k \in 1 .. N' : k < i' =>
              \E q \in Window(k)' :
                 OldSize(k, q)' /\ (addrs' = prev' => sizes'[k] = SizeWith(k, addrs, q)')
  <2>1. ASSUME npasses > 0, NEW k \in 1 .. N, k >= i + 1
        PROVE  addrs'[k] = prev[k] /\ OldSize(k, sizes[k])'
    BY <1>8, <1>11, <2>1
  <2>2. ASSUME npasses > 0, NEW k \in 1 .. N, k < i + 1
        PROVE  \E q \in Window(k) :
                 OldSize(k, q)' /\ (addrs' = prev => sizes'[k] = SizeWith(k, addrs, q)')
    BY <1>1, <1>9, <1>11, <2>2, SizeSame
  <2> QED BY <1>1, <1>12, <2>1, <2>2
<1> QED
  BY <1>1, <1>10, <1>13, <1>14 DEF PassInv

\* A pass is recorded: what was laid out becomes what was there before.
LEMMA PassRecorded ==
  ASSUME IInv, NextPass \/ FixPass
  PROVE  PassInv'
<1>1. /\ UNCHANGED <<insts, where, addrs, sizes>> /\ N' = N
      /\ i > N /\ i' = 1 /\ p' = Start
      /\ npasses' = npasses + 1 /\ prev' = addrs /\ prev2' = prev
  BY DEF NextPass, FixPass, PassDone, RecordPass, AnotherPass, N
<1>2. TInv /\ PassInv
  BY DEF IInv, ImageInv, NextPass, FixPass, PassDone
<1>3. /\ N \in Nat /\ i = N + 1 /\ npasses \in Nat /\ Len(aligns) = N
      /\ addrs \in Seq(Nat) /\ Len(addrs) = N /\ aligns \in Seq(Nat)
  BY <1>1, <1>2, ImageTypes
<1>4. \A k \in 1 .. N : aligns'[k] = 0 => aligns[k] = 0
  <2>1. CASE NextPass
    BY <2>1 DEF NextPass
  <2>2. CASE FixPass
    <3>1. PICK j \in Candidates : aligns' = [aligns EXCEPT ![j] = 4]
      BY <2>2 DEF FixPass
    <3>2. j \in 1 .. N
      <4>1. insts \in Seq(Inst)
        BY <1>2, ImageTypes
      <4> QED BY <3>1, <4>1 DEF Candidates, N
    <3> QED BY <1>3, <3>1, <3>2
  <2> QED BY <2>1, <2>2
<1>5. ASSUME NEW k \in 1 .. N
      PROVE  OldSize(k, sizes[k])'
  <2>1. sizes[k] \in Window(k)
    BY <1>2, <1>3 DEF PassInv
  <2>2. Room(k, prev, sizes[k])'
    <3>1. k < N => Room(k, addrs, sizes[k]) /\ k + 1 \in 1 .. N
      BY <1>2, <1>3 DEF PassInv
    <3> QED BY <1>1, <1>4, <3>1 DEF Room
  <2>3. ASSUME npasses + 1 > 1, addrs = prev
        PROVE  \E r \in Window(k) : sizes[k] = SizeWith(k, addrs, r)
    BY <1>2, <1>3, <2>3 DEF PassInv
  <2>4. /\ Window(k)' = Window(k)
        /\ \A r : SizeWith(k, prev, r)' = SizeWith(k, addrs, r)
    BY <1>1, SizeSame
  <2> QED BY <1>1, <2>1, <2>2, <2>3, <2>4 DEF OldSize
<1>6. \A k \in 1 .. N' : ~(k < 1) /\ ~(k + 1 < 1)
  BY <1>1, <1>3
<1> QED BY <1>1, <1>5, <1>6 DEF PassInv

\* The first pass starts from the pessimistic layout.
LEMMA PassStarts ==
  ASSUME IInv, TInv', ScanDone
  PROVE  PassInv'
<1>1. i' = 1 /\ p' = Start /\ npasses' = 0
  BY DEF IInv, ImageInv, ScanDone, passVars
<1>2. N' \in Nat
  BY DEF TInv, TypeOK, N
<1>3. \A k \in 1 .. N' : ~(k < 1) /\ ~(k + 1 < 1)
  BY <1>2
<1> QED BY <1>1, <1>3 DEF PassInv

\* When the addresses have come out equal three times, both sizes between
\* which an instruction may still move have their room.
LEMMA LaidAtEnd ==
  ASSUME IInv, Converge
  PROVE  Laid
<1>1. /\ TInv /\ PassInv /\ phase = "place" /\ i > N
      /\ npasses + 1 >= 3 /\ addrs = prev /\ prev = prev2
  BY DEF IInv, ImageInv, Converge, PassDone, Converged, N
<1>2. /\ N \in Nat /\ i = N + 1 /\ npasses \in Nat
      /\ addrs \in Seq(Nat) /\ Len(addrs) = N
      /\ \A k \in 1 .. N : addrs[k] \in Nat /\ sizes[k] \in Nat /\ aligns[k] \in Nat
  BY <1>1, ImageTypes
<1>3. ASSUME NEW k \in 1 .. N
      PROVE  Placeable(k, addrs)
  <2>1. Resolved(insts[k])
    BY <1>1, <1>2 DEF TInv, Looked, N
  <2> QED BY <1>1, <1>2, <2>1, ImageTypes DEF Placeable
<1>4. ASSUME NEW k \in 1 .. N
      PROVE  \E q \in Window(k) :
               /\ Room(k, addrs, q) /\ sizes[k] = SizeWith(k, addrs, q)
               /\ \E r \in Window(k) : q = SizeWith(k, addrs, r)
  <2>1. PICK q \in Window(k) : OldSize(k, q) /\ sizes[k] = SizeWith(k, addrs, q)
    <3>1. npasses > 0 /\ k < i
      BY <1>1, <1>2
    <3>2. \E q \in Window(k) : OldSize(k, q) /\ (addrs = prev => sizes[k] = SizeWith(k, addrs, q))
      BY <1>1, <3>1 DEF PassInv
    <3> QED BY <1>1, <3>2
  <2> QED BY <1>1, <1>2, <2>1 DEF OldSize
<1>5. ASSUME NEW k \in 1 .. N
      PROVE  /\ SizeFrom(k, addrs) \in Nat
             /\ Room(k, addrs, SizeFrom(k, addrs)) /\ SizeFrom(k, addrs) <= sizes[k] + 1
             /\ k = N => LastBranchAhead(k) \/ SizeFrom(k, addrs) = sizes[k]
  <2>1. PICK q \in Window(k) :
               /\ Room(k, addrs, q) /\ sizes[k] = SizeWith(k, addrs, q)
               /\ \E r \in Window(k) : q = SizeWith(k, addrs, r)
    BY <1>4
  <2>2. PICK r \in Window(k) : q = SizeWith(k, addrs, r)
    BY <2>1
  <2>3. /\ SizeFrom(k, addrs) \in {q, sizes[k]}
        /\ SizeFrom(k, addrs) <= sizes[k] + 1
    BY <1>3, <2>1, <2>2, ThirdSize DEF SizeFrom
  <2>6. SizeFrom(k, addrs) \in Nat
    BY <1>2, <2>3, <1>3, WindowNat
  <2>4. Room(k, addrs, sizes[k])
    <3>1. CASE k < N
      BY <1>1, <1>2, <3>1 DEF PassInv
    <3>2. CASE ~(k < N)
      BY <3>2 DEF Room
    <3> QED BY <3>1, <3>2
  <2>5. ASSUME k = N, ~LastBranchAhead(k)
        PROVE  SizeFrom(k, addrs) = sizes[k]
    <3>1. insts[k].kind = "branch" => AddrOf(insts[k], addrs) <= addrs[k]
      <4>1. insts[k].kind = "branch" => AddrOf(insts[k], addrs) \in Int
        BY <1>3, Parts DEF Refers
      <4> QED BY <1>2, <2>5, <4>1 DEF LastBranchAhead, N
    <3> QED BY <1>3, <2>1, <2>2, <3>1, LastSize DEF SizeFrom
  <2> QED BY <2>1, <2>3, <2>4, <2>5, <2>6
<1>6. ASSUME NEW k \in 1 .. N
      PROVE  addrs[k] >= Pos(k) /\ (aligns[k] = 0 => addrs[k] = Pos(k))
  <2>1. CASE k = 1
    <3>1. First(addrs)
      BY <1>1, <1>2 DEF PassInv
    <3> QED BY <2>1, <3>1 DEF First, Pos
  <2>2. CASE k # 1
    <3>1. k - 1 \in 1 .. N /\ k - 1 < N /\ (k - 1) + 1 = k
      BY <1>2, <2>2
    <3>2. Room(k - 1, addrs, SizeFrom(k - 1, addrs))
      BY <1>5, <3>1
    <3> QED BY <2>2, <3>1, <3>2 DEF Room, Pos
  <2> QED BY <2>1, <2>2
<1>7. \A k \in 1 .. N : Divides(k) /\ Resolved(insts[k])
  BY <1>1, <1>2, <1>3 DEF PassInv, Placeable
<1> QED BY <1>2, <1>5, <1>6, <1>7 DEF Laid

-----------------------------------------------------------------------------
(* From the layout to the image. *)

\* What a step that keeps the layout keeps of it.
LEMMA LayoutSame ==
  ASSUME UNCHANGED <<insts, where, addrs, sizes, aligns>>
  PROVE  /\ N' = N /\ (Laid => Laid')
         /\ \A k : SizeFrom(k, addrs)' = SizeFrom(k, addrs)
         /\ \A k : Pos(k)' = Pos(k)
<1>1. N' = N
  BY DEF N
<1>2. ASSUME NEW k PROVE SizeFrom(k, addrs)' = SizeFrom(k, addrs)
  BY SizeSame DEF SizeFrom
<1>3. ASSUME NEW k PROVE Pos(k)' = Pos(k)
  BY <1>2 DEF Pos
<1>4. ASSUME NEW k
      PROVE  /\ Divides(k)' <=> Divides(k)
             /\ LastBranchAhead(k)' <=> LastBranchAhead(k)
             /\ Resolved(insts[k])' <=> Resolved(insts[k])
  BY DEF Divides, LastBranchAhead, AddrOf, Resolved, Refers
<1>5. Laid => Laid'
  BY <1>1, <1>2, <1>3, <1>4 DEF Laid
<1> QED BY <1>1, <1>2, <1>3, <1>5

\* Once laid out, every instruction has a size and a position.
LEMMA LaidTypes ==
  ASSUME TInv, Laid
  PROVE  /\ \A k \in 1 .. N : SizeFrom(k, addrs) \in Nat /\ Pos(k) \in Nat /\ Pos(k) <= addrs[k]
         /\ \A k \in 1 .. N : Pos(k + 1) = addrs[k] + SizeFrom(k, addrs)
<1>1. /\ N \in Nat /\ addrs \in Seq(Nat) /\ Len(addrs) = N
      /\ \A k \in 1 .. N : addrs[k] \in Nat /\ sizes[k] \in Nat
  BY ImageTypes
<1>2. ASSUME NEW k \in 1 .. N PROVE SizeFrom(k, addrs) \in Nat
  BY DEF Laid
<1>3. ASSUME NEW k \in 1 .. N PROVE Pos(k) \in Nat /\ Pos(k) <= addrs[k]
  <2>1. CASE k = 1
    BY <1>1, <2>1, RegionAssumption DEF Pos, Laid
  <2>2. CASE k # 1
    <3>1. k - 1 \in 1 .. N
      BY <1>1, <2>2
    <3>2. addrs[k - 1] \in Nat /\ SizeFrom(k - 1, addrs) \in Nat
      BY <1>1, <1>2, <3>1
    <3> QED BY <1>1, <2>2, <3>2 DEF Pos, Laid
  <2> QED BY <2>1, <2>2
<1>4. ASSUME NEW k \in 1 .. N PROVE Pos(k + 1) = addrs[k] + SizeFrom(k, addrs)
  BY <1>1 DEF Pos
<1> QED BY <1>2, <1>3, <1>4

LEMMA ImageConverge ==
  ASSUME IInv, Converge
  PROVE  ImageInv'
<1>1. /\ UNCHANGED <<insts, where, addrs, sizes, aligns, image, error>>
      /\ phase' = (IF HasAligns THEN "pad" ELSE "verify") /\ phase = "place"
      /\ pads' = [k \in DOMAIN insts |-> 0] /\ i' = 1 /\ p' = Start
  BY DEF Converge, PassDone, Goto, layVars
<1>2. TInv /\ Laid /\ image = <<>> /\ error # "AssertionError"
  BY <1>1, LaidAtEnd DEF IInv, ImageInv
<1>3. Laid' /\ N' = N /\ \A k : Pos(k)' = Pos(k)
  BY <1>1, <1>2, LayoutSame
<1>4. /\ N \in Nat /\ DOMAIN insts = 1 .. N /\ Len(aligns) = N
      /\ \A k \in 1 .. N : addrs[k] \in Nat
  BY <1>2, ImageTypes DEF N
<1>5. CASE HasAligns
  <2>1. phase' = "pad" /\ p' = Pos(1)' /\ \A k \in 1 .. N' : ~(k < 1)
    BY <1>1, <1>3, <1>4, <1>5 DEF Pos
  <2> QED BY <1>1, <1>2, <1>3, <2>1 DEF ImageInv
<1>6. CASE ~HasAligns
  <2>1. \A k \in 1 .. N : Pos(k) = addrs[k]
    <3>1. \A k \in 1 .. N : aligns[k] = 0
      <4>1. aligns \in Seq(Nat) /\ Len(aligns) = N
        BY <1>2, ImageTypes
      <4> QED BY <1>6, <4>1 DEF HasAligns
    <3> QED BY <1>2, <3>1 DEF Laid
  <2>2. \A k \in 1 .. N : Padded(k)'
    BY <1>1, <1>3, <1>4, <2>1 DEF Padded
  <2>3. phase' = "verify"
    BY <1>1, <1>6
  <2> QED BY <1>1, <1>2, <1>3, <2>2, <2>3 DEF ImageInv
<1> QED BY <1>5, <1>6

LEMMA ImagePad ==
  ASSUME IInv, PadInst
  PROVE  ImageInv'
<1>1. /\ UNCHANGED <<insts, where, addrs, sizes, aligns, image, error, phase>>
      /\ phase = "pad" /\ i <= N /\ i' = i + 1
      /\ pads' = [pads EXCEPT ![i] = IF p < addrs[i] THEN addrs[i] - p ELSE 0]
      /\ p' = addrs[i] + SizeFrom(i, addrs)
  BY DEF PadInst, layVars, N
<1>2. /\ TInv /\ Laid /\ image = <<>> /\ error # "AssertionError"
      /\ p = Pos(i) /\ \A k \in 1 .. N : k < i => Padded(k)
  BY <1>1 DEF IInv, ImageInv
<1>3. Laid' /\ N' = N /\ \A k : Pos(k)' = Pos(k)
  BY <1>1, <1>2, LayoutSame
<1>4. /\ N \in Nat /\ i \in 1 .. N /\ pads \in Seq(Nat) /\ Len(pads) = N
      /\ addrs[i] \in Nat /\ Pos(i) \in Nat /\ Pos(i) <= addrs[i]
  <2>1. N \in Nat /\ i \in 1 .. N /\ pads \in Seq(Nat) /\ Len(pads) = N
    BY <1>1, <1>2, ImageTypes DEF TInv, TypeOK, N
  <2> QED BY <1>1, <1>2, <2>1, ImageTypes, LaidTypes
<1>5. p' = Pos(i)'
  <2>1. p' = Pos(i + 1)
    BY <1>1, <1>2, <1>4, LaidTypes
  <2> QED BY <1>1, <1>3, <2>1
<1>6. ASSUME NEW k \in 1 .. N, k < i + 1 PROVE Padded(k)'
  <2>1. CASE k = i
    <3>1. pads'[i] = addrs[i] - Pos(i)
      BY <1>1, <1>2, <1>4
    <3> QED BY <1>1, <1>3, <2>1, <3>1 DEF Padded
  <2>2. CASE k # i
    <3>1. pads'[k] = pads[k] /\ k < i
      BY <1>1, <1>4, <1>6, <2>2
    <3> QED BY <1>1, <1>2, <1>3, <3>1 DEF Padded
  <2> QED BY <2>1, <2>2
<1> QED BY <1>1, <1>2, <1>3, <1>5, <1>6 DEF ImageInv

LEMMA ImageEncode ==
  ASSUME IInv, EncodeInst
  PROVE  ImageInv'
<1>1. /\ UNCHANGED <<insts, where, addrs, sizes, aligns, pads, error, phase>>
      /\ phase = "encode" /\ i <= N /\ i' = i + 1
      /\ image' = Append(image, p + pads[i])
      /\ p' = p + pads[i] + SizeFrom(i, addrs)
  BY DEF EncodeInst, layVars, N
<1>2. /\ TInv /\ Laid /\ error # "AssertionError"
      /\ p = Pos(i) /\ Len(image) = i - 1 /\ N > 0 /\ addrs[N] + sizes[N] <= End
      /\ \A k \in 1 .. N : Padded(k)
      /\ \A k \in 1 .. Len(image) : k <= N /\ image[k] = addrs[k]
  BY <1>1 DEF IInv, ImageInv
<1>3. Laid' /\ N' = N /\ \A k : Pos(k)' = Pos(k)
  BY <1>1, <1>2, LayoutSame
<1>4. /\ N \in Nat /\ i \in 1 .. N /\ image \in Seq(Nat)
      /\ addrs[i] \in Nat /\ Pos(i) \in Nat /\ SizeFrom(i, addrs) \in Nat
  <2>1. N \in Nat /\ i \in 1 .. N /\ image \in Seq(Nat)
    BY <1>1, <1>2, ImageTypes DEF TInv, TypeOK
  <2> QED BY <1>1, <1>2, <2>1, ImageTypes, LaidTypes
<1>5. p + pads[i] = addrs[i]
  BY <1>2, <1>4 DEF Padded
<1>6. p' = Pos(i)'
  <2>1. Pos(i + 1) = addrs[i] + SizeFrom(i, addrs)
    BY <1>1, <1>2, <1>4, LaidTypes
  <2>2. p' = Pos(i + 1)
    BY <1>1, <1>5, <2>1
  <2> QED BY <1>1, <1>3, <2>2
<1>7. Len(image') = i /\ \A k \in 1 .. Len(image') : k <= N /\ image'[k] = addrs[k]
  <2>1. /\ Len(image') = Len(image) + 1 /\ image'[Len(image) + 1] = addrs[i]
        /\ \A k \in 1 .. Len(image) : image'[k] = image[k]
    BY <1>1, <1>4, <1>5, AppendProperties
  <2> QED BY <1>2, <1>4, <2>1
<1>8. \A k \in 1 .. N : Padded(k)'
  BY <1>1, <1>2, <1>3 DEF Padded
<1>9. (i + 1) - 1 = i
  BY <1>4
<1> QED BY <1>1, <1>2, <1>3, <1>6, <1>7, <1>8, <1>9 DEF ImageInv

\* Raising an error, before there is an image.
LEMMA ImageRaise ==
  ASSUME IInv, NEW e \in Errors \ {"AssertionError"}, Raise(e),
         phase \in {"check", "place", "verify"}
  PROVE  ImageInv'
<1>1. image' = <<>> /\ error' # "AssertionError" /\ phase' = "failed"
  BY DEF IInv, ImageInv, Raise, outVars
<1> QED BY <1>1 DEF ImageInv

\* The phases that follow the passes.
LEMMA ImageMoves ==
  ASSUME IInv, PadDone \/ VerifyOk \/ EncodeDone
  PROVE  ImageInv'
<1>1. UNCHANGED <<insts, where, addrs, sizes, aligns, pads, image>> /\ Laid /\ TInv
  BY DEF PadDone, VerifyOk, EncodeDone, layVars, outVars, IInv, ImageInv
<1>2. /\ Laid' /\ N' = N /\ (\A k : Pos(k)' = Pos(k))
      /\ \A k : Padded(k)' <=> Padded(k)
  BY <1>1, LayoutSame DEF Padded
<1>3. N \in Nat /\ i \in 1 .. N + 1 /\ Len(addrs) = N /\ Len(sizes) = N /\ N = Len(insts)
  BY <1>1, ImageTypes DEF N
<1>4. CASE PadDone
  <2>1. phase = "pad" /\ i > N /\ phase' = "verify" /\ error' = error
    BY <1>4 DEF PadDone, Goto, N
  <2>2. image = <<>> /\ error # "AssertionError" /\ \A k \in 1 .. N : Padded(k)
    BY <1>3, <2>1 DEF IInv, ImageInv
  <2> QED BY <1>1, <1>2, <2>1, <2>2 DEF ImageInv
<1>5. CASE VerifyOk
  <2>1. /\ phase = "verify" /\ phase' = "encode" /\ error' = error /\ i' = 1 /\ p' = Start
        /\ insts # <<>> /\ InRange
    BY <1>5 DEF VerifyOk, Goto
  <2>2. image = <<>> /\ error # "AssertionError" /\ \A k \in 1 .. N : Padded(k)
    BY <2>1 DEF IInv, ImageInv
  <2>3. N > 0
    <3>1. insts \in Seq(Inst)
      BY <1>1, ImageTypes
    <3> QED BY <1>3, <2>1, <3>1, EmptySeq
  <2>4. addrs[N] + sizes[N] <= End
    <3>1. addrs[N] \in Nat /\ sizes[N] \in Nat
      BY <1>1, <1>3, <2>3, ImageTypes
    <3> QED BY <1>3, <2>1, <3>1, RegionAssumption DEF InRange, CodeEnd
  <2>5. p' = Pos(i)' /\ Len(image') = i' - 1
    BY <1>1, <2>1, <2>2, EmptySeq DEF Pos
  <2> QED BY <1>1, <1>2, <2>1, <2>2, <2>3, <2>4, <2>5 DEF ImageInv
<1>6. CASE EncodeDone
  <2>1. /\ phase = "encode" /\ i > N
        /\ p = EncodedEnd => phase' = "done" /\ error' = error
    BY <1>6 DEF EncodeDone, N
  <2>2. /\ error # "AssertionError" /\ N > 0 /\ addrs[N] + sizes[N] <= End
        /\ p = Pos(i) /\ Len(image) = i - 1
        /\ \A k \in 1 .. Len(image) : k <= N /\ image[k] = addrs[k]
    BY <2>1 DEF IInv, ImageInv
  <2>3. i = N + 1 /\ N \in 1 .. N
    BY <1>3, <2>1, <2>2
  <2>4. p = EncodedEnd
    BY <1>1, <1>3, <2>2, <2>3, LaidTypes DEF EncodedEnd
  <2>5. Len(image) = N
    BY <1>3, <2>2, <2>3
  <2> QED BY <1>1, <1>2, <2>1, <2>2, <2>4, <2>5 DEF ImageInv
<1> QED BY <1>4, <1>5, <1>6

LEMMA ImageInit ==
  ASSUME Init PROVE IInv
<1>1. phase = "check" /\ error = "none" /\ npasses = 0 /\ image = <<>>
  BY DEF Init
<1>2. Len(image) = 0
  BY <1>1, EmptySeq
<1> QED BY <1>1, <1>2, TypeInit DEF IInv, ImageInv

LEMMA ImageNext ==
  ASSUME IInv, [Next]_vars
  PROVE  IInv'
<1>0. TInv /\ TInv'
  BY TypeNext DEF IInv
<1>1. CASE \/ CheckDuplicate \/ CheckDetached \/ PlaceMissing \/ GiveUp \/ VerifyEmpty
           \/ VerifyBad
  <2>1. /\ \E e \in Errors \ {"AssertionError"} : Raise(e)
        /\ phase \in {"check", "place", "verify"}
    BY <1>1 DEF CheckDuplicate, CheckDetached, PlaceMissing, GiveUp, PassDone, VerifyEmpty,
      VerifyBad, Errors
  <2> QED BY <1>0, <2>1, ImageRaise DEF IInv
<1>2. CASE CheckOk \/ ScanLabel \/ ScanAlign \/ ScanNoPad \/ ScanInst
  <2>1. /\ phase \in {"check", "scan"} /\ phase' = "scan"
        /\ UNCHANGED <<error, npasses, image>>
    BY <1>2 DEF CheckOk, ScanLabel, ScanAlign, ScanNoPad, ScanInst, Scanning, Scanned, Goto,
      passVars, outVars
  <2>2. npasses = 0 /\ image = <<>> /\ error # "AssertionError"
    BY <2>1 DEF IInv, ImageInv
  <2> QED BY <1>0, <2>1, <2>2 DEF IInv, ImageInv
<1>3. CASE ScanDone \/ Place \/ NextPass \/ FixPass
  <2>1. PassInv'
    BY <1>0, <1>3, PassStarts, PassPlace, PassRecorded
  <2>2. phase \in {"scan", "place"} /\ phase' = "place" /\ UNCHANGED <<error, image>>
    BY <1>3 DEF ScanDone, Place, NextPass, FixPass, PassDone, AnotherPass, Goto, outVars
  <2>3. image = <<>> /\ error # "AssertionError"
    BY <2>2 DEF IInv, ImageInv
  <2> QED BY <1>0, <2>1, <2>2, <2>3 DEF IInv, ImageInv
<1>4. CASE Finished \/ UNCHANGED vars
  <2>1. UNCHANGED <<phase, error, insts, where, addrs, sizes, aligns, pads, image, i, p,
                    npasses, prev, prev2>>
    BY <1>4 DEF Finished, vars, layVars, passVars, outVars
  <2>2. /\ N' = N /\ (Laid => Laid') /\ (\A k : Pos(k)' = Pos(k))
        /\ \A k : Padded(k)' <=> Padded(k)
    BY <2>1, LayoutSame DEF Padded
  <2>3. PassInv => PassInv'
    BY <2>1, <2>2, SizeSame DEF PassInv, OldSize, Room, First, Divides
  <2> QED BY <1>0, <2>1, <2>2, <2>3 DEF IInv, ImageInv
<1> QED
  BY <1>0, <1>1, <1>2, <1>3, <1>4, ImageConverge, ImagePad, ImageMoves, ImageEncode
    DEF Next, IInv

\* The image of every program has each instruction at its address, and the
\* length assertion of Script.encode() never fails.
THEOREM ImageProved == Spec => []ImageMatchesLayout
<1>1. Init => IInv
  BY ImageInit
<1>2. IInv /\ [Next]_vars => IInv'
  BY ImageNext
<1>3. IInv => ImageMatchesLayout
  <2>1. TInv => DOMAIN image = 1 .. Len(image)
    BY DEF TInv, TypeOK
  <2> QED BY <2>1 DEF IInv, ImageInv, ImageMatchesLayout
<1> QED BY <1>1, <1>2, <1>3, PTL DEF Spec

\* The bytes of a finished build end in the code region, or one byte behind it
\* when the last instruction branches past the end of the code.
THEOREM RegionProved == Spec => []InCodeRegion
<1>1. Init => IInv
  BY ImageInit
<1>2. IInv /\ [Next]_vars => IInv'
  BY ImageNext
<1>3. IInv => InCodeRegion
  <2> SUFFICES ASSUME IInv, phase = "done"
               PROVE  EndOf(N) <= (IF LastBranchAhead(N) THEN End + 1 ELSE End)
    BY DEF InCodeRegion, N
  <2>1. /\ TInv /\ Laid /\ Len(image) = N /\ N > 0 /\ addrs[N] + sizes[N] <= End
        /\ \A k \in 1 .. Len(image) : k <= N /\ image[k] = addrs[k]
    BY DEF IInv, ImageInv
  <2>2. /\ N \in Nat /\ N \in 1 .. N /\ addrs[N] \in Nat /\ sizes[N] \in Nat /\ End \in Nat
    BY <2>1, ImageTypes, RegionAssumption
  <2>3. EndOf(N) = addrs[N] + SizeFrom(N, addrs)
    BY <2>1, <2>2 DEF EndOf
  <2> QED BY <2>1, <2>2, <2>3 DEF Laid
<1> QED BY <1>1, <1>2, <1>3, PTL DEF Spec

-----------------------------------------------------------------------------
(* What the layout keeps of the item list. *)

\* The number of instructions among the first q items.
Count(q) == Cardinality({r \in 1 .. q : code[r].t = "inst"})

\* The items scanned since the last instruction.
Unbound == {r \in 1 .. pos : \A q \in r .. pos : code[q].t # "inst"}

HasNoPad(k) == \E r \in Between(k) : code[r].t = "nopad"
Names(r, o) == code[r].t = "label" /\ code[r].obj = o
Stands(o, k) == insts[k].obj = o \/ \E r \in Between(k) : Names(r, o)

\* Instruction k is the k-th instruction of the item list, under the
\* directives written before it; the fixes take only what has none.
Tagged(k) ==
  /\ InstAt(k) \in 1 .. pos /\ Count(InstAt(k)) = k /\ code[InstAt(k)] = insts[k]
  /\ AlignItems(k) # {} => aligns[k] # 0 /\ aligns[k] = LastAlign(k)
  /\ AlignItems(k) = {} /\ HasNoPad(k) => aligns[k] = 0 /\ k \in nopads

\* The directives and labels that wait for the next instruction.
LastUnboundAlign ==
  IF \E r \in Unbound : code[r].t = "align"
  THEN \E m \in Unbound : /\ code[m].t = "align" /\ pending_align = code[m].n
                          /\ \A r \in Unbound : code[r].t = "align" => r <= m
  ELSE pending_align = 0
Waiting ==
  /\ Count(pos) = N
  /\ LastUnboundAlign
  /\ (\E r \in Unbound : code[r].t = "nopad") => pending_nopad
  /\ \A o \in pending_labels : \E r \in Unbound : Names(r, o)

CodeInv ==
  /\ \A k \in 1 .. N : Tagged(k)
  /\ \A o \in Objs : where[o] # 0 => Stands(o, where[o])
  /\ phase \in {"check", "scan"} => Waiting
  /\ phase \notin {"check", "failed"} => ~Duplicated
JInv == IInv /\ CodeInv

LEMMA CodeSame ==
  ASSUME UNCHANGED code, NEW k
  PROVE  /\ InstAt(k)' = InstAt(k) /\ Between(k)' = Between(k)
         /\ AlignItems(k)' = AlignItems(k) /\ LastAlign(k)' = LastAlign(k)
         /\ HasNoPad(k)' <=> HasNoPad(k)
         /\ Count(k)' = Count(k) /\ (Duplicated' <=> Duplicated)
<1>1. InstAt(k)' = InstAt(k)
  BY DEF InstAt
<1>2. Between(k)' = Between(k)
  BY <1>1 DEF Between
<1>3. AlignItems(k)' = AlignItems(k)
  BY <1>2 DEF AlignItems
<1>4. LastAlign(k)' = LastAlign(k)
  BY <1>3 DEF LastAlign
<1> QED BY <1>1, <1>2, <1>3, <1>4 DEF HasNoPad, Count, Duplicated, Placed

\* Counting the instructions of the item list.
LEMMA CountTypes ==
  ASSUME NEW q \in Nat
  PROVE  /\ IsFiniteSet({r \in 1 .. q : code[r].t = "inst"}) /\ Count(q) \in Nat
         /\ q = 0 => Count(q) = 0
<1> DEFINE S == {r \in 1 .. q : code[r].t = "inst"}
<1>1. IsFiniteSet(1 .. q) /\ S \in SUBSET (1 .. q)
  BY FS_Interval
<1>2. IsFiniteSet(S)
  BY <1>1, FS_Subset
<1>3. q = 0 => S = {}
  OBVIOUS
<1> HIDE DEF S
<1>4. Cardinality(S) \in Nat /\ (q = 0 => Cardinality(S) = 0)
  BY <1>2, <1>3, FS_CardinalityType, FS_EmptySet
<1> QED BY <1>2, <1>4 DEF S, Count

LEMMA CountStep ==
  ASSUME NEW q \in Nat
  PROVE  Count(q + 1) = IF code[q + 1].t = "inst" THEN Count(q) + 1 ELSE Count(q)
<1> DEFINE S(n) == {r \in 1 .. n : code[r].t = "inst"}
<1>1. IsFiniteSet(S(q)) /\ q + 1 \notin S(q)
  BY CountTypes
<1>2. S(q + 1) = IF code[q + 1].t = "inst" THEN S(q) \cup {q + 1} ELSE S(q)
  OBVIOUS
<1> HIDE DEF S
<1>3. Cardinality(S(q + 1)) = IF code[q + 1].t = "inst" THEN Cardinality(S(q)) + 1
                              ELSE Cardinality(S(q))
  BY <1>1, <1>2, FS_AddElement
<1> QED BY <1>3 DEF S, Count

LEMMA CountGrows ==
  ASSUME NEW q \in Nat, NEW r \in Nat, q < r, code[r].t = "inst"
  PROVE  Count(q) < Count(r)
<1> DEFINE S(n) == {m \in 1 .. n : code[m].t = "inst"}
<1>1. /\ IsFiniteSet(S(r)) /\ S(q) \in SUBSET S(r) /\ r \in S(r) /\ r \notin S(q)
      /\ Cardinality(S(q)) \in Nat /\ Cardinality(S(r)) \in Nat
  BY CountTypes DEF Count
<1> HIDE DEF S
<1>2. Cardinality(S(q)) <= Cardinality(S(r)) /\ Cardinality(S(q)) # Cardinality(S(r))
  BY <1>1, FS_Subset
<1>3. Cardinality(S(q)) < Cardinality(S(r))
  BY <1>1, <1>2
<1> QED BY <1>3 DEF S, Count

\* The k-th instruction of the list is one place.
LEMMA InstAtIs ==
  ASSUME NEW q \in DOMAIN code, code \in Seq(Item), code[q].t = "inst"
  PROVE  InstAt(Count(q)) = q
<1> DEFINE Is(j) == code[j].t = "inst" /\ Count(j) = Count(q)
<1>1. ASSUME NEW j \in DOMAIN code, Is(j) PROVE j = q
  <2>0. j \in Nat /\ q \in Nat
    OBVIOUS
  <2>1. Count(j) \in Nat /\ Count(q) \in Nat
    BY <2>0, CountTypes
  <2>2. ~(j < q) /\ ~(q < j)
    BY <1>1, <2>0, <2>1, CountGrows
  <2> QED BY <2>0, <2>2
<1>2. InstAt(Count(q)) = CHOOSE j \in DOMAIN code : Is(j)
  BY DEF InstAt, Count
<1>3. Is(q)
  OBVIOUS
<1> HIDE DEF Is
<1> QED BY <1>1, <1>2, <1>3

\* The Align(n) in force is the last one before the instruction.
LEMMA LastAlignIs ==
  ASSUME NEW k, NEW m \in AlignItems(k), \A r \in AlignItems(k) : r <= m,
         AlignItems(k) \in SUBSET Int
  PROVE  LastAlign(k) = code[m].n
<1>1. \A r \in AlignItems(k) : (\A q \in AlignItems(k) : q <= r) => r = m
  OBVIOUS
<1>2. (CHOOSE r \in AlignItems(k) : \A q \in AlignItems(k) : q <= r) = m
  BY <1>1
<1> QED BY <1>2 DEF LastAlign

LEMMA TaggedSame ==
  ASSUME UNCHANGED code, NEW k, Tagged(k), insts'[k] = insts[k], aligns'[k] = aligns[k],
         k \in nopads => k \in nopads', pos \in Nat, pos' \in Nat, pos <= pos'
  PROVE  Tagged(k)'
<1>1. /\ InstAt(k)' = InstAt(k) /\ AlignItems(k)' = AlignItems(k)
      /\ LastAlign(k)' = LastAlign(k) /\ (HasNoPad(k)' <=> HasNoPad(k))
      /\ Count(InstAt(k))' = Count(InstAt(k))
  BY CodeSame
<1> QED BY <1>1 DEF Tagged

LEMMA StandsSame ==
  ASSUME UNCHANGED code, NEW o, NEW k, insts'[k] = insts[k], Stands(o, k)
  PROVE  Stands(o, k)'
<1>1. Between(k)' = Between(k)
  BY CodeSame
<1> QED BY <1>1 DEF Stands, Names

\* A label or a directive joins those that wait.
LEMMA CodeDirective ==
  ASSUME JInv, TInv', ScanLabel \/ ScanAlign \/ ScanNoPad
  PROVE  CodeInv'
<1> DEFINE y == code[pos + 1]
<1>1. /\ UNCHANGED <<code, insts, where, aligns, nopads, phase>> /\ pos' = pos + 1
      /\ phase = "scan" /\ y.t \in {"label", "align", "nopad"}
  BY DEF ScanLabel, ScanAlign, ScanNoPad, Scanning, Scanned, layVars
<1>2. pos \in Nat /\ pos + 1 \in 1 .. Len(code) /\ N \in Nat /\ N' = N
  <2>1. TInv
    BY DEF JInv, IInv
  <2> QED BY <1>1, <2>1, ImageTypes DEF TInv, TypeOK, N
<1>3. CodeInv /\ Waiting /\ ~Duplicated
  BY <1>1 DEF JInv, CodeInv
<1>4. Count(pos)' = N
  BY <1>1, <1>2, <1>3, CountStep, CodeSame DEF Waiting
<1>5. Unbound' = Unbound \cup {pos + 1}
  BY <1>1, <1>2 DEF Unbound
<1>6. LastUnboundAlign'
  <2>0. \A r \in Unbound : r \in Nat /\ r <= pos
    BY <1>2 DEF Unbound
  <2>1. CASE ScanAlign
    <3>1. y.t = "align" /\ pending_align' = y.n
      BY <2>1 DEF ScanAlign, Scanning
    <3>2. \A r \in Unbound' : r <= pos + 1
      BY <1>2, <1>5, <2>0
    <3> QED BY <1>1, <1>5, <3>1, <3>2 DEF LastUnboundAlign
  <2>2. CASE ScanLabel \/ ScanNoPad
    <3>1. y.t # "align" /\ pending_align' = pending_align
      BY <2>2 DEF ScanLabel, ScanNoPad, Scanning
    <3>2. LastUnboundAlign
      BY <1>3 DEF Waiting
    <3>3. CASE \E r \in Unbound : code[r].t = "align"
      <4>1. PICK m \in Unbound : /\ code[m].t = "align" /\ pending_align = code[m].n
                                 /\ \A r \in Unbound : code[r].t = "align" => r <= m
        BY <3>2, <3>3 DEF LastUnboundAlign
      <4>2. m \in Unbound' /\ \A r \in Unbound' : code[r].t = "align" => r <= m
        BY <1>5, <3>1, <4>1
      <4> QED BY <1>1, <3>1, <4>1, <4>2 DEF LastUnboundAlign
    <3>4. CASE ~\E r \in Unbound : code[r].t = "align"
      <4>1. ~\E r \in Unbound' : code'[r].t = "align"
        BY <1>1, <1>5, <3>1, <3>4
      <4> QED BY <3>1, <3>2, <3>4, <4>1 DEF LastUnboundAlign
    <3> QED BY <3>3, <3>4
  <2> QED BY <2>1, <2>2
<1>7. (\E r \in Unbound' : code'[r].t = "nopad") => pending_nopad'
  <2>1. CASE ScanNoPad
    BY <2>1 DEF ScanNoPad
  <2>2. CASE ScanLabel \/ ScanAlign
    <3>1. y.t # "nopad" /\ pending_nopad' = pending_nopad
      BY <2>2 DEF ScanLabel, ScanAlign, Scanning
    <3> QED BY <1>1, <1>3, <1>5, <3>1 DEF Waiting
  <2> QED BY <2>1, <2>2
<1>8. \A o \in pending_labels' : \E r \in Unbound' : Names(r, o)'
  <2>1. CASE ScanLabel
    <3>1. y.t = "label" /\ pending_labels' = pending_labels \cup {y.obj}
      BY <2>1 DEF ScanLabel, Scanning
    <3> QED BY <1>1, <1>3, <1>5, <3>1 DEF Waiting, Names
  <2>2. CASE ScanAlign \/ ScanNoPad
    <3>1. pending_labels' = pending_labels
      BY <2>2 DEF ScanAlign, ScanNoPad
    <3> QED BY <1>1, <1>3, <1>5, <3>1 DEF Waiting, Names
  <2> QED BY <2>1, <2>2
<1>9. ASSUME NEW k \in 1 .. N PROVE Tagged(k)'
  <2>1. Tagged(k) /\ pos' \in Nat /\ pos <= pos'
    BY <1>1, <1>2, <1>3 DEF CodeInv
  <2> QED BY <1>1, <1>2, <2>1, TaggedSame
<1>10. ASSUME NEW o \in Objs, where[o] # 0 PROVE Stands(o, where[o])'
  <2>1. Stands(o, where[o])
    BY <1>3, <1>10 DEF CodeInv
  <2> QED BY <1>1, <2>1, StandsSame
<1>11. ~Duplicated'
  BY <1>1, <1>3, CodeSame
<1> QED BY <1>1, <1>2, <1>4, <1>6, <1>7, <1>8, <1>9, <1>10, <1>11 DEF CodeInv, Waiting

LEMMA AlignItem ==
  ASSUME NEW x \in Item, x.t = "align"
  PROVE  x.n \in Nat \ {0}
BY DEF Item, Inst

\* An instruction takes what waits.
LEMMA CodeInst ==
  ASSUME JInv, TInv', ScanInst
  PROVE  CodeInv'
<1> DEFINE q == pos + 1
           y == code[q]
           k0 == N + 1
<1>1. /\ UNCHANGED <<code, phase>> /\ pos' = q /\ phase = "scan" /\ y.t = "inst"
      /\ insts' = Append(insts, y) /\ aligns' = Append(aligns, pending_align)
      /\ pending_labels' = {} /\ pending_align' = 0 /\ pending_nopad' = FALSE
      /\ nopads' = IF pending_nopad THEN nopads \cup {k0} ELSE nopads
  BY DEF ScanInst, Scanning, Scanned, N
<1>2. /\ where' = [o \in Objs |-> IF o \in pending_labels \cup {y.obj} THEN k0 ELSE where[o]]
      /\ TInv /\ CodeInv /\ Waiting /\ ~Duplicated
  <2>1. where' = [o \in Objs |-> IF o \in pending_labels \cup {y.obj} THEN k0 ELSE where[o]]
    BY SMT DEF ScanInst, N
  <2> QED BY <1>1, <2>1 DEF JInv, IInv, CodeInv
<1>3. /\ pos \in Nat /\ q \in 1 .. Len(code) /\ code \in Seq(Item) /\ N \in Nat
      /\ insts \in Seq(Inst) /\ Len(insts) = N /\ aligns \in Seq(Nat) /\ Len(aligns) = N
      /\ pending_align \in Nat /\ where \in [Objs -> 0 .. N]
  <2>1. /\ code \in Seq(Item) /\ pos \in 0 .. Len(code) /\ pending_align \in Nat
    BY <1>2 DEF TInv, TypeOK
  <2>2. pos < Len(code)
    BY DEF ScanInst, Scanning
  <2> QED BY <1>2, <2>1, <2>2, ImageTypes DEF N
<1>4. y \in Inst
  <2>1. y \in Item
    BY <1>3, ElementOfSeq
  <2> QED BY <1>1, <2>1, InstItem
<1> HIDE DEF y
<1>5. /\ Len(insts') = k0 /\ insts'[k0] = y /\ aligns'[k0] = pending_align
      /\ \A k \in 1 .. N : insts'[k] = insts[k] /\ aligns'[k] = aligns[k]
      /\ N' = k0
  BY <1>1, <1>3, <1>4, AppendProperties DEF N
<1>6. Count(q) = k0 /\ InstAt(k0) = q
  <2>1. Count(q) = k0
    BY <1>1, <1>2, <1>3, CountStep DEF Waiting, y
  <2>2. InstAt(Count(q)) = q
    BY <1>1, <1>3, InstAtIs DEF y
  <2> QED BY <2>1, <2>2
<1>7. Between(k0) = Unbound
  BY <1>3, <1>6 DEF Between, Unbound
<1>8. Tagged(N)'
  <2>1. /\ InstAt(N)' = q /\ AlignItems(N)' = AlignItems(k0) /\ Count(InstAt(N))' = k0
        /\ LastAlign(N)' = LastAlign(k0) /\ (HasNoPad(N)' <=> HasNoPad(k0))
    BY <1>1, <1>5, <1>6, CodeSame
  <2>2. AlignItems(k0) = {r \in Unbound : code[r].t = "align"}
    BY <1>7 DEF AlignItems
  <2>3. ASSUME AlignItems(k0) # {}
        PROVE  pending_align # 0 /\ pending_align = LastAlign(k0)
    <3>1. PICK m \in Unbound : /\ code[m].t = "align" /\ pending_align = code[m].n
                               /\ \A r \in Unbound : code[r].t = "align" => r <= m
      BY <1>2, <2>2, <2>3 DEF Waiting, LastUnboundAlign
    <3>2. AlignItems(k0) \in SUBSET Int
      BY <2>2 DEF Unbound
    <3>3. LastAlign(k0) = code[m].n
      BY <2>2, <3>1, <3>2, LastAlignIs
    <3>4. code[m] \in Item
      <4>1. m \in 1 .. Len(code)
        BY <1>3 DEF Unbound
      <4> QED BY <1>3, <4>1, ElementOfSeq
    <3> QED BY <3>1, <3>3, <3>4, AlignItem
  <2>4. ASSUME AlignItems(k0) = {}, HasNoPad(k0)
        PROVE  pending_align = 0 /\ k0 \in nopads'
    <3>1. pending_align = 0
      BY <1>2, <2>2, <2>4 DEF Waiting, LastUnboundAlign
    <3>2. pending_nopad
      BY <1>2, <1>7, <2>4 DEF Waiting, HasNoPad
    <3> QED BY <1>1, <3>1, <3>2
  <2>5. q \in 1 .. pos'
    BY <1>1, <1>3
  <2> QED BY <1>1, <1>5, <2>1, <2>3, <2>4, <2>5 DEF Tagged, y
<1>9. ASSUME NEW k \in 1 .. N' PROVE Tagged(k)'
  <2>1. CASE k = k0
    BY <1>5, <1>8, <2>1
  <2>2. CASE k # k0
    <3>1. k \in 1 .. N
      BY <1>3, <1>5, <2>2
    <3>2. Tagged(k) /\ pos' \in Nat /\ pos <= pos' /\ (k \in nopads => k \in nopads')
      BY <1>1, <1>2, <1>3, <3>1 DEF CodeInv
    <3> QED BY <1>1, <1>3, <1>5, <3>1, <3>2, TaggedSame
  <2> QED BY <2>1, <2>2
<1>10. ASSUME NEW o \in Objs, where'[o] # 0 PROVE Stands(o, where[o])'
  <2>1. CASE o \in pending_labels
    <3>1. where'[o] = k0 /\ \E r \in Unbound : Names(r, o)
      BY <1>2, <2>1 DEF Waiting
    <3>2. Between(N)' = Unbound
      BY <1>1, <1>5, <1>7, CodeSame
    <3>3. Stands(o, N)'
      BY <1>1, <3>1, <3>2 DEF Stands, Names
    <3> QED BY <1>5, <3>1, <3>3
  <2>2. CASE o = y.obj
    <3>1. where'[o] = k0 /\ insts'[k0].obj = o
      BY <1>2, <1>5, <2>2
    <3>2. Stands(o, N)'
      BY <1>5, <3>1 DEF Stands
    <3> QED BY <1>5, <3>1, <3>2
  <2>3. CASE ~(o \in pending_labels \cup {y.obj})
    <3>1. where'[o] = where[o]
      BY <1>2, <2>3
    <3>2. where[o] \in 1 .. N /\ Stands(o, where[o])
      BY <1>2, <1>3, <1>10, <3>1 DEF CodeInv
    <3>3. insts'[where[o]] = insts[where[o]]
      BY <1>5, <3>2
    <3> QED BY <1>1, <3>1, <3>2, <3>3, StandsSame
  <2> QED BY <2>1, <2>2, <2>3
<1>11. Waiting'
  <2>1. Count(pos)' = N'
    BY <1>1, <1>5, <1>6, CodeSame
  <2>2. Unbound' = {}
    BY <1>1, <1>3 DEF Unbound, y
  <2> QED BY <1>1, <2>1, <2>2 DEF Waiting, LastUnboundAlign
<1>12. ~Duplicated'
  BY <1>1, <1>2, CodeSame
<1> QED BY <1>9, <1>10, <1>11, <1>12 DEF CodeInv

\* The layout may change, the scan is over and the directives still hold.
LEMMA CodeKept ==
  ASSUME JInv, TInv', UNCHANGED <<code, pos, insts, where, nopads>>,
         \A k \in 1 .. N : aligns[k] # 0 \/ k \in nopads => aligns'[k] = aligns[k],
         phase' \notin {"check", "scan"},
         phase \in {"check", "scan"} => ~Duplicated \/ phase' = "failed",
         phase' # "failed" => phase # "failed"
  PROVE  CodeInv'
<1>1. CodeInv /\ pos \in Nat /\ N' = N
  BY DEF JInv, IInv, TInv, TypeOK, N
<1>2. ASSUME NEW k \in 1 .. N PROVE Tagged(k)'
  <2>1. /\ InstAt(k)' = InstAt(k) /\ AlignItems(k)' = AlignItems(k)
        /\ LastAlign(k)' = LastAlign(k) /\ (HasNoPad(k)' <=> HasNoPad(k))
        /\ Count(InstAt(k))' = Count(InstAt(k))
    BY CodeSame
  <2>2. Tagged(k) /\ (aligns[k] # 0 \/ k \in nopads => aligns'[k] = aligns[k])
    BY <1>1 DEF CodeInv
  <2> QED BY <2>1, <2>2 DEF Tagged
<1>3. ASSUME NEW o \in Objs, where[o] # 0 PROVE Stands(o, where[o])'
  <2>1. Stands(o, where[o])
    BY <1>1, <1>3 DEF CodeInv
  <2> QED BY <2>1, StandsSame
<1>4. phase' # "failed" => ~Duplicated'
  BY <1>1, CodeSame DEF CodeInv
<1> QED BY <1>1, <1>2, <1>3, <1>4 DEF CodeInv

LEMMA CodeInit ==
  ASSUME Init PROVE JInv
<1>1. IInv /\ TInv
  BY ImageInit, TypeInit
<1>2. /\ phase = "check" /\ pos = 0 /\ N = 0 /\ pending_align = 0 /\ pending_labels = {}
      /\ \A o \in Objs : where[o] = 0
  BY EmptySeq DEF Init, N
<1>3. Count(pos) = N /\ Unbound = {}
  <2>1. Count(0) = 0
    BY CountTypes
  <2> QED BY <1>2, <2>1 DEF Unbound
<1>4. Waiting
  BY <1>2, <1>3 DEF Waiting, LastUnboundAlign
<1> QED BY <1>1, <1>2, <1>4 DEF JInv, CodeInv

\* The fixes for oscillations leave alone what a directive is about.
LEMMA CodeFix ==
  ASSUME JInv, TInv', FixPass
  PROVE  CodeInv'
<1>1. /\ UNCHANGED <<code, phase, pos, insts, where, nopads>> /\ phase = "place"
  BY DEF FixPass, AnotherPass, PassDone, scanVars
<1>2. PICK j \in Candidates : aligns' = [aligns EXCEPT ![j] = 4]
  BY DEF FixPass
<1>3. \A k \in 1 .. N : aligns[k] # 0 \/ k \in nopads => aligns'[k] = aligns[k]
  BY <1>2 DEF Candidates
<1> QED BY <1>1, <1>3, CodeKept

LEMMA CodeNext ==
  ASSUME JInv, [Next]_vars
  PROVE  JInv'
<1>0. IInv /\ TInv /\ IInv' /\ TInv' /\ CodeInv
  BY ImageNext DEF JInv, IInv
<1>1. CASE ScanLabel \/ ScanAlign \/ ScanNoPad \/ ScanInst \/ FixPass
  BY <1>0, <1>1, CodeDirective, CodeInst, CodeFix DEF JInv
<1>2. CASE CheckOk \/ Finished \/ UNCHANGED vars
  <2>1. /\ UNCHANGED <<code, pos, insts, where, aligns, nopads>>
        /\ UNCHANGED <<pending_labels, pending_align, pending_nopad>>
        /\ phase' = phase \/ (phase = "check" /\ phase' = "scan" /\ ~Duplicated)
    BY <1>2 DEF CheckOk, Finished, Goto, vars, scanVars, layVars
  <2>2. N' = N /\ pos \in Nat
    BY <1>0, <2>1 DEF TInv, TypeOK, N
  <2>3. \A k \in 1 .. N : Tagged(k)'
    BY <1>0, <2>1, <2>2, TaggedSame DEF CodeInv
  <2>4. \A o \in Objs : where[o] # 0 => Stands(o, where[o])'
    BY <1>0, <2>1, StandsSame DEF CodeInv
  <2>5. Waiting => Waiting'
    <3>1. Count(pos)' = Count(pos) /\ Unbound' = Unbound
      BY <2>1, CodeSame DEF Unbound
    <3> QED BY <2>1, <2>2, <3>1 DEF Waiting, LastUnboundAlign, Names
  <2>6. Duplicated' <=> Duplicated
    BY <2>1, CodeSame
  <2> QED BY <1>0, <2>1, <2>2, <2>3, <2>4, <2>5, <2>6 DEF CodeInv, JInv
<1>3. CASE \/ CheckDuplicate \/ CheckDetached \/ PlaceMissing \/ GiveUp \/ VerifyEmpty
           \/ VerifyBad
  <2>1. /\ UNCHANGED <<code, pos, insts, where, aligns, nopads>> /\ phase' = "failed"
    BY <1>3 DEF CheckDuplicate, CheckDetached, PlaceMissing, GiveUp, VerifyEmpty, VerifyBad,
      Raise, scanVars, layVars
  <2> QED BY <1>0, <2>1, CodeKept DEF JInv
<1>4. CASE \/ ScanDone \/ Place \/ NextPass \/ Converge \/ PadInst \/ PadDone \/ VerifyOk
           \/ EncodeInst \/ EncodeDone
  <2>1. /\ UNCHANGED <<code, pos, insts, where, aligns, nopads>>
        /\ phase \in {"scan", "place", "pad", "verify", "encode"}
        /\ phase' \in {"place", "pad", "verify", "encode", "done", "failed"}
    BY <1>4 DEF ScanDone, Place, NextPass, Converge, PadInst, PadDone, VerifyOk, EncodeInst,
      EncodeDone, PassDone, AnotherPass, Goto, scanVars, layVars
  <2>2. ~Duplicated
    BY <1>0, <2>1 DEF CodeInv
  <2> QED BY <1>0, <2>1, <2>2, CodeKept DEF JInv
<1> QED
  BY <1>1, <1>2, <1>3, <1>4 DEF Next

-----------------------------------------------------------------------------
(* The finished image. *)

LEMMA InImage ==
  ASSUME JInv, phase = "done"
  PROVE  /\ N \in Nat /\ N > 0 /\ DOMAIN insts = 1 .. N
         /\ Laid /\ CodeInv /\ TInv /\ ~Duplicated
         /\ \A k \in 1 .. N : /\ image[k] = addrs[k] /\ addrs[k] \in Nat
                              /\ SizeFrom(k, addrs) \in Nat
                              /\ EndOf(k) = addrs[k] + SizeFrom(k, addrs)
<1>1. /\ TInv /\ Laid /\ CodeInv /\ ~Duplicated /\ Len(image) = N /\ N > 0
      /\ \A k \in 1 .. Len(image) : image[k] = addrs[k]
  BY DEF JInv, IInv, ImageInv, CodeInv
<1>2. N \in Nat /\ DOMAIN insts = 1 .. N /\ \A k \in 1 .. N : addrs[k] \in Nat
  BY <1>1, ImageTypes DEF N
<1>3. \A k \in 1 .. N : SizeFrom(k, addrs) \in Nat /\ EndOf(k) = addrs[k] + SizeFrom(k, addrs)
  BY <1>1, <1>2 DEF Laid, EndOf
<1> QED BY <1>1, <1>2, <1>3

\* The address of an instruction is a multiple of the Align() before it.
THEOREM AlignProved == Spec => []AlignHonored
<1>1. Init => JInv
  BY CodeInit
<1>2. JInv /\ [Next]_vars => JInv'
  BY CodeNext
<1>3. JInv => AlignHonored
  <2> SUFFICES ASSUME JInv, phase = "done", NEW k \in DOMAIN insts, AlignItems(k) # {}
               PROVE  image[k] % LastAlign(k) = 0
    BY DEF AlignHonored
  <2>1. k \in 1 .. N /\ Laid /\ CodeInv /\ image[k] = addrs[k]
    BY InImage
  <2>2. Divides(k) /\ Tagged(k)
    BY <2>1 DEF Laid, CodeInv
  <2> QED BY <2>1, <2>2 DEF Divides, Tagged
<1> QED BY <1>1, <1>2, <1>3, PTL DEF Spec

\* Nothing comes between an instruction under NoPad() and the one before it.
THEOREM NoPadProved == Spec => []NoPadHonored
<1>1. Init => JInv
  BY CodeInit
<1>2. JInv /\ [Next]_vars => JInv'
  BY CodeNext
<1>3. JInv => NoPadHonored
  <2> SUFFICES ASSUME JInv, phase = "done", NEW k \in DOMAIN insts,
                      \E r \in Between(k) : code[r].t = "nopad", AlignItems(k) = {}
               PROVE  image[k] = (IF k = 1 THEN Start ELSE EndOf(k - 1))
    BY DEF NoPadHonored
  <2>1. N \in Nat /\ k \in 1 .. N /\ Laid /\ CodeInv /\ image[k] = addrs[k]
    BY InImage
  <2>2. Tagged(k)
    BY <2>1 DEF CodeInv
  <2>3. addrs[k] = Pos(k)
    BY <2>1, <2>2 DEF Laid, Tagged, HasNoPad
  <2>4. k # 1 => EndOf(k - 1) = addrs[k - 1] + SizeFrom(k - 1, addrs)
    <3>1. k # 1 => k - 1 \in 1 .. N
      BY <2>1
    <3> QED BY <3>1, InImage
  <2> QED BY <2>1, <2>3, <2>4 DEF Pos
<1> QED BY <1>1, <1>2, <1>3, PTL DEF Spec

\* An object stands for one instruction: a label is before it, with no other
\* instruction in between.
LEMMA Spots ==
  ASSUME JInv, NEW k \in 1 .. N, NEW o, Stands(o, k)
  PROVE  \E r \in Placed : /\ r \in 1 .. InstAt(k) /\ code[r].obj = o
                           /\ \A q \in r .. InstAt(k) - 1 : code[q].t # "inst"
<1>1. Tagged(k) /\ insts[k] \in Inst /\ code \in Seq(Item) /\ pos \in 0 .. Len(code)
  <2>1. CodeInv /\ TInv /\ insts \in Seq(Inst)
    BY ImageTypes DEF JInv, IInv
  <2> QED BY <2>1, ElementOfSeq DEF CodeInv, TInv, TypeOK, N
<1>2. /\ InstAt(k) \in 1 .. Len(code) /\ code[InstAt(k)] = insts[k] /\ insts[k].t = "inst"
  BY <1>1 DEF Tagged, Inst
<1>3. CASE insts[k].obj = o
  <2>1. InstAt(k) \in Placed /\ InstAt(k) \in 1 .. InstAt(k)
    BY <1>1, <1>2 DEF Placed
  <2>2. \A q \in InstAt(k) .. InstAt(k) - 1 : FALSE
    BY <1>2
  <2> QED BY <1>2, <1>3, <2>1, <2>2
<1>4. CASE insts[k].obj # o
  <2>1. PICK r \in Between(k) : Names(r, o)
    BY <1>4 DEF Stands
  <2>2. r \in Placed /\ r \in 1 .. InstAt(k)
    BY <1>1, <1>2, <2>1 DEF Between, Names, Placed
  <2> QED BY <2>1, <2>2 DEF Between, Names
<1> QED BY <1>3, <1>4

LEMMA OneSpot ==
  ASSUME JInv, ~Duplicated, NEW j \in 1 .. N, NEW k \in 1 .. N, NEW o,
         Stands(o, j), Stands(o, k)
  PROVE  ~(InstAt(j) < InstAt(k))
<1>1. PICK r \in Placed : r \in 1 .. InstAt(j) /\ code[r].obj = o
  BY Spots
<1>2. PICK s \in Placed : /\ s \in 1 .. InstAt(k) /\ code[s].obj = o
                          /\ \A q \in s .. InstAt(k) - 1 : code[q].t # "inst"
  BY Spots
<1>3. r = s
  BY <1>1, <1>2 DEF Duplicated
<1>4. /\ InstAt(j) \in Nat /\ InstAt(k) \in Nat /\ code[InstAt(j)].t = "inst"
  <2>1. CodeInv /\ TInv /\ insts \in Seq(Inst)
    BY ImageTypes DEF JInv, IInv
  <2>2. Tagged(j) /\ Tagged(k) /\ insts[j] \in Inst /\ pos \in Nat
    BY <2>1, ElementOfSeq DEF CodeInv, N, TInv, TypeOK
  <2> QED BY <2>2 DEF Tagged, Inst
<1>5. InstAt(j) < InstAt(k) => InstAt(j) \in s .. InstAt(k) - 1
  BY <1>1, <1>2, <1>3, <1>4
<1> QED BY <1>2, <1>4, <1>5

LEMMA TargetIs ==
  ASSUME JInv, ~Duplicated, NEW o \in Objs, where[o] # 0
  PROVE  Target(o) = where[o]
<1>1. CodeInv /\ TInv /\ DOMAIN insts = 1 .. N /\ where[o] \in 1 .. N
  <2>1. CodeInv /\ TInv /\ insts \in Seq(Inst) /\ where \in [Objs -> 0 .. N] /\ N \in Nat
    BY ImageTypes DEF JInv, IInv
  <2> QED BY <2>1 DEF N
<1>2. Stands(o, where[o])
  BY <1>1 DEF CodeInv
<1>3. ASSUME NEW k \in 1 .. N, Stands(o, k) PROVE k = where[o]
  <2>1. ~(InstAt(k) < InstAt(where[o])) /\ ~(InstAt(where[o]) < InstAt(k))
    BY <1>1, <1>2, <1>3, OneSpot
  <2>2. Tagged(k) /\ Tagged(where[o]) /\ pos \in Nat
    BY <1>1 DEF CodeInv, TInv, TypeOK
  <2>3. InstAt(k) = InstAt(where[o])
    BY <2>1, <2>2 DEF Tagged
  <2> QED BY <2>2, <2>3 DEF Tagged
<1>4. Target(o) = CHOOSE k \in 1 .. N : Stands(o, k)
  BY <1>1 DEF Target, Stands, Names
<1> QED BY <1>1, <1>2, <1>3, <1>4

\* In a build without any alignment a branch goes to the instruction after its
\* label: its size is settled and nothing was put between the instructions.
\* The one exception is a last instruction that branches past the end.
THEOREM BranchesProved == Spec => []AlignFreeBranchesLand
<1>1. Init => JInv /\ SInv
  BY CodeInit, TypeInit DEF SInv, Init
<1>2. JInv /\ SInv /\ [Next]_vars => JInv' /\ SInv'
  BY CodeNext, SettledNext
<1>3. JInv /\ SInv => AlignFreeBranchesLand
  <2> SUFFICES ASSUME JInv, SInv, phase = "done", ~HasAligns, NEW k \in DOMAIN insts,
                      insts[k].kind = "branch", ~LastBranchAhead(k)
               PROVE  Lands(k)
    BY DEF AlignFreeBranchesLand
  <2> DEFINE o == insts[k].ref
  <2>1. /\ N \in Nat /\ k \in 1 .. N /\ Laid /\ TInv /\ ~Duplicated
        /\ EndOf(k) = addrs[k] + SizeFrom(k, addrs) /\ SizeFrom(k, addrs) \in Nat
        /\ \A j \in 1 .. N : image[j] = addrs[j] /\ addrs[j] \in Nat
    BY InImage
  <2>2. SizeFrom(k, addrs) = sizes[k]
    <3>1. CASE k = N
      BY <2>1, <3>1 DEF Laid
    <3>2. CASE k # N
      <4>1. k \in 1 .. N - 1
        BY <2>1, <3>2
      <4> QED BY <4>1 DEF SInv, Settled
    <3> QED BY <3>1, <3>2
  <2>3. o \in Objs /\ insts[k].off \in Int /\ where[o] \in 1 .. N
    <3>1. insts \in Seq(Inst) /\ where \in [Objs -> 0 .. N]
      BY <2>1, ImageTypes
    <3>2. insts[k] \in Inst
      BY <3>1
    <3>3. o \in Objs /\ insts[k].off \in Int
      BY <3>2 DEF Inst
    <3>4. where[o] # 0
      BY <2>1 DEF Laid, Resolved, Refers
    <3> QED BY <2>1, <3>1, <3>3, <3>4
  <2>4. Target(o) = where[o]
    BY <2>1, <2>3, TargetIs
  <2>5. image[Target(o)] = addrs[where[o]] /\ addrs[where[o]] \in Nat
    BY <2>1, <2>3, <2>4
  <2>6. Offset(k, addrs, sizes[k]) = (addrs[where[o]] + insts[k].off) - (addrs[k] + sizes[k])
    BY DEF Offset, AddrOf
  <2>7. addrs[k] \in Nat
    BY <2>1
  <2> HIDE DEF o
  <2>8. EndOf(k) + Offset(k, addrs, sizes[k]) = image[Target(o)] + insts[k].off
    BY <2>1, <2>2, <2>3, <2>5, <2>6, <2>7
  <2> QED BY <2>8 DEF Lands, o
<1> QED BY <1>1, <1>2, <1>3, PTL DEF Spec

=============================================================================
