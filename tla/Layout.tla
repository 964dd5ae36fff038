------------------------------- MODULE Layout -------------------------------
(***************************************************************************)
(* The assembler's layout engine: builder.build() turns a flat list of     *)
(* instructions, labels and directives into addresses.  Instruction sizes  *)
(* depend on the addresses they mention and the addresses depend on the    *)
(* sizes, so build() repeats whole passes, updating ONE layout in place,   *)
(* until three passes give the same addresses; if that takes too long it   *)
(* aligns a random instruction to 4 and goes on.  The module follows a     *)
(* script from builder.check() to Script.encode().                         *)
(*                                                                         *)
(* An instruction is a record: "obj" is the identity of the Python object, *)
(* "kind" says which operand decides its size, "n" is its length (data) or *)
(* its number of one-byte operands, "ref" + "off" is the address used.     *)
(*                                                                         *)
(* Addresses stay far below 2^31: cast_s32() is the identity on them.      *)
(* A definition named X_Y is X with one plausible mistake Y: no action     *)
(* uses it, it shows that a property notices the mistake.                  *)
(***************************************************************************)
EXTENDS Varint, Sequences, FiniteSets

CONSTANTS
  Programs,         \* the flat item lists to build
  Objs,             \* identities of Inst and Label objects
  Start,            \* env.code_region[0]
  End,              \* env.code_region[1]
  MaxPasses,        \* env.max_passes
  FixOscillations   \* builder._FIX_OSCILLATIONS

Kinds == {"data", "plain", "branch", "imm", "mem"}

Inst == [t: {"inst"}, obj: Objs, kind: Kinds, n: Nat, ref: Objs, off: Int]
Item == Inst \cup [t: {"label"}, obj: Objs]
             \cup [t: {"align"}, n: Nat \ {0}]
             \cup [t: {"nopad"}]

ASSUME ProgramsAssumption == Programs \subseteq Seq(Item)
ASSUME RegionAssumption   == Start \in Nat /\ End \in Nat /\ Start <= End
ASSUME PassesAssumption   == MaxPasses \in Nat /\ MaxPasses >= 3
ASSUME FixAssumption      == FixOscillations \in BOOLEAN

VARIABLES
  code,             \* the flat code being built
  phase,            \* where build() is
  error,            \* the exception raised, or "none"
  pos,              \* items of code already scanned
  pending_labels,   \* labels waiting for their instruction
  pending_align,    \* 0 when None
  pending_nopad,
  insts,            \* lay.insts; an instruction is named by its index from here on
  where,            \* index of the instruction an object stands for, 0 if unplaced
  addrs, sizes,     \* lay.addrs, lay.sizes
  aligns,           \* lay.aligns, 0 when absent
  nopads,           \* lay.nopads
  i, p,             \* the loop's instruction and location counter
  npasses,          \* len(passes)
  prev, prev2,      \* addresses of the last two completed passes
  next_fix_thres,
  remaining_fixes,
  pads,             \* number of Nop()s put before each instruction
  image             \* position of each instruction in the encoded bytes

scanVars   == <<pos, pending_labels, pending_align, pending_nopad>>
layVars    == <<insts, where, addrs, sizes, aligns, nopads>>
passVars   == <<npasses, prev, prev2, next_fix_thres, remaining_fixes>>
outVars    == <<pads, image>>
vars == <<code, phase, error, scanVars, layVars, i, p, passVars, outVars>>

-----------------------------------------------------------------------------
(* Sizes of encoded operands. *)

MaxSize(x) ==
  CASE x.kind = "data"  -> x.n
    [] x.kind = "plain" -> 1 + MaxVarintSize * x.n
    [] OTHER            -> 1 + MaxVarintSize * (x.n + 1)

\* lay.addrof(ref) + off under the addresses ad.
AddrOf(x, ad) == ad[where[x.ref]] + x.off

Offset_FromStart(k, ad, size) == AddrOf(insts[k], ad) - ad[k]

\* ImmOffset: the distance from the END of the branch, as lay.sizes has it.
Offset(k, ad, size) == AddrOf(insts[k], ad) - (ad[k] + size)

\* inst.size_from(lay) when lay.addrs = ad and lay.sizes[inst] = size.
SizeWith(k, ad, size) ==
  LET x == insts[k] IN
  CASE x.kind = "data"   -> x.n
    [] x.kind = "plain"  -> 1 + x.n
    [] x.kind = "branch" -> 1 + x.n + ImmSize(Offset(k, ad, size))
    [] x.kind = "imm"    -> 1 + x.n + ImmSize(AddrOf(x, ad))
    [] x.kind = "mem"    -> 1 + x.n + MemSize(AddrOf(x, ad))
SizeFrom(k, ad) == SizeWith(k, ad, sizes[k])

Refers(x)   == x.kind \in {"branch", "imm", "mem"}
Resolved(x) == Refers(x) => where[x.ref] # 0

RoundUp(a, n) == a + ((-a) % n)
Aligned(k, a) == IF aligns[k] = 0 THEN a ELSE RoundUp(a, aligns[k])

-----------------------------------------------------------------------------
Init ==
  /\ code \in Programs
  /\ phase = "check" /\ error = "none"
  /\ pos = 0 /\ pending_labels = {} /\ pending_align = 0 /\ pending_nopad = FALSE
  /\ insts = <<>> /\ where = [o \in Objs |-> 0]
  /\ addrs = <<>> /\ sizes = <<>> /\ aligns = <<>> /\ nopads = {}
  /\ i = 1 /\ p = Start
  /\ npasses = 0 /\ prev = <<>> /\ prev2 = <<>>
  /\ next_fix_thres = MaxPasses
  /\ remaining_fixes = (IF FixOscillations THEN MaxPasses ELSE 0)
  /\ pads = <<>> /\ image = <<>>

Raise(e) ==
  /\ phase' = "failed" /\ error' = e
  /\ UNCHANGED <<code, scanVars, layVars, i, p, passVars, outVars>>

Goto(ph) == phase' = ph /\ UNCHANGED <<code, error>>

(* builder.check(): every object placed once, no label at the very end. *)
Placed     == {k \in DOMAIN code : code[k].t \in {"inst", "label"}}
Duplicated == \E j, k \in Placed : j # k /\ code[j].obj = code[k].obj
Detached   == \E k \in Placed : code[k].t = "label" /\ \A j \in Placed : j <= k

CheckDuplicate == phase = "check" /\ Duplicated /\ Raise("DuplicateDefError")
CheckDetached  == phase = "check" /\ ~Duplicated /\ Detached /\ Raise("DetachedLabelError")
CheckOk ==
  /\ phase = "check" /\ ~Duplicated /\ ~Detached
  /\ Goto("scan")
  /\ UNCHANGED <<scanVars, layVars, i, p, passVars, outVars>>

-----------------------------------------------------------------------------
(* build(), steps 1-2: bind labels and directives to the next instruction. *)

Scanning(t) == phase = "scan" /\ pos < Len(code) /\ code[pos + 1].t = t
Scanned ==
  /\ pos' = pos + 1
  /\ UNCHANGED <<code, phase, error, i, passVars, outVars>>

ScanLabel ==
  /\ Scanning("label") /\ Scanned
  /\ pending_labels' = pending_labels \cup {code[pos + 1].obj}
  /\ UNCHANGED <<pending_align, pending_nopad, layVars, p>>

ScanAlign ==
  /\ Scanning("align") /\ Scanned
  /\ pending_align' = code[pos + 1].n
  /\ UNCHANGED <<pending_labels, pending_nopad, layVars, p>>

ScanNoPad ==
  /\ Scanning("nopad") /\ Scanned
  /\ pending_nopad' = TRUE
  /\ UNCHANGED <<pending_labels, pending_align, layVars, p>>

ScanInst ==
  /\ Scanning("inst") /\ Scanned
  /\ LET x == code[pos + 1]
         k == Len(insts) + 1
     IN /\ insts'  = Append(insts, x)
        /\ addrs'  = Append(addrs, p)
        /\ sizes'  = Append(sizes, MaxSize(x))
        /\ p'      = p + MaxSize(x)
        /\ aligns' = Append(aligns, pending_align)
        /\ nopads' = IF pending_nopad THEN nopads \cup {k} ELSE nopads
        /\ where'  = [o \in Objs |-> IF o \in pending_labels \cup {x.obj}
                                     THEN k ELSE where[o]]
  /\ pending_labels' = {} /\ pending_align' = 0 /\ pending_nopad' = FALSE

ScanDone ==
  /\ phase = "scan" /\ pos = Len(code)
  /\ Goto("place")
  /\ i' = 1 /\ p' = Start
  /\ UNCHANGED <<scanVars, layVars, passVars, outVars>>

-----------------------------------------------------------------------------
(* build(), steps 3-4: one pass, an instruction at a time.  The size is    *)
(* taken from a layout whose later addresses are still the last pass's.    *)

Place ==
  /\ phase = "place" /\ i <= Len(insts)
  /\ Resolved(insts[i])
  /\ LET a == Aligned(i, p) IN
       /\ addrs' = [addrs EXCEPT ![i] = a]
       /\ sizes' = [sizes EXCEPT ![i] = SizeFrom(i, addrs')]
       /\ p' = a + sizes'[i]
  /\ i' = i + 1
  /\ UNCHANGED <<code, phase, error, scanVars, insts, where, aligns, nopads,
                 passVars, outVars>>

PlaceMissing ==
  /\ phase = "place" /\ i <= Len(insts)
  /\ ~Resolved(insts[i])
  /\ Raise("MissingDefError")

PassDone  == phase = "place" /\ i > Len(insts)
Converged_Uncloned == npasses + 1 >= 3     \* one layout appended thrice
Converged == npasses + 1 >= 3 /\ addrs = prev /\ prev = prev2
Exhausted == npasses + 1 >= next_fix_thres

\* Only the last three passes kept.
RecordPass_Trimmed ==
  /\ npasses' = (IF npasses < 3 THEN npasses + 1 ELSE 3)
  /\ prev' = addrs /\ prev2' = prev
RecordPass ==
  /\ npasses' = npasses + 1 /\ prev' = addrs /\ prev2' = prev

AnotherPass ==
  /\ i' = 1 /\ p' = Start
  /\ UNCHANGED <<code, phase, error, scanVars, insts, where, addrs, sizes,
                 nopads, outVars>>

NextPass ==
  /\ PassDone /\ ~Converged /\ ~Exhausted
  /\ RecordPass /\ AnotherPass
  /\ UNCHANGED <<aligns, next_fix_thres, remaining_fixes>>

Candidates_Realigned == {k \in DOMAIN insts : k \notin nopads}
Candidates_Padded    == {k \in DOMAIN insts : aligns[k] = 0}
Candidates == {k \in DOMAIN insts : k \notin nopads /\ aligns[k] = 0}

FixPass_Uncounted ==
  /\ PassDone /\ ~Converged /\ Exhausted
  /\ \E k \in Candidates : aligns' = [aligns EXCEPT ![k] = 4]
  /\ next_fix_thres' = next_fix_thres + MaxPasses
  /\ UNCHANGED remaining_fixes
  /\ RecordPass /\ AnotherPass

FixPass_Unchecked ==
  /\ PassDone /\ ~Converged /\ Exhausted
  /\ \E k \in Candidates : aligns' = [aligns EXCEPT ![k] = 4]
  /\ remaining_fixes' = remaining_fixes - 1
  /\ next_fix_thres' = next_fix_thres + MaxPasses
  /\ RecordPass /\ AnotherPass

\* rnd.choice() is any choice: the seed only makes it repeatable.
FixPass ==
  /\ PassDone /\ ~Converged /\ Exhausted
  /\ remaining_fixes > 0
  /\ \E k \in Candidates : aligns' = [aligns EXCEPT ![k] = 4]
  /\ remaining_fixes' = remaining_fixes - 1
  /\ next_fix_thres' = next_fix_thres + MaxPasses
  /\ RecordPass /\ AnotherPass

GiveUp ==
  /\ PassDone /\ ~Converged /\ Exhausted
  /\ remaining_fixes = 0 \/ Candidates = {}
  /\ Raise("BuildError")

HasAligns == \E k \in DOMAIN aligns : aligns[k] # 0

Converge ==
  /\ PassDone /\ Converged
  /\ Goto(IF HasAligns THEN "pad" ELSE "verify")
  /\ RecordPass
  /\ pads' = [k \in DOMAIN insts |-> 0]
  /\ i' = 1 /\ p' = Start
  /\ UNCHANGED <<scanVars, layVars, next_fix_thres, remaining_fixes, image>>

-----------------------------------------------------------------------------
(* build(), step 5: Nop()s up to each address; lay.check(); encode().      *)

PadInst_StoredSize ==
  /\ phase = "pad" /\ i <= Len(insts)
  /\ pads' = [pads EXCEPT ![i] = IF p < addrs[i] THEN addrs[i] - p ELSE 0]
  /\ p' = addrs[i] + sizes[i]
  /\ i' = i + 1
  /\ UNCHANGED <<code, phase, error, scanVars, layVars, passVars, image>>

PadInst ==
  /\ phase = "pad" /\ i <= Len(insts)
  /\ pads' = [pads EXCEPT ![i] = IF p < addrs[i] THEN addrs[i] - p ELSE 0]
  /\ p' = addrs[i] + SizeFrom(i, addrs)
  /\ i' = i + 1
  /\ UNCHANGED <<code, phase, error, scanVars, layVars, passVars, image>>

PadDone ==
  /\ phase = "pad" /\ i > Len(insts)
  /\ Goto("verify")
  /\ UNCHANGED <<scanVars, layVars, i, p, passVars, outVars>>

\* BuildCtx.code_range, from the addresses and the STORED sizes.
CodeEnd   == addrs[Len(addrs)] + sizes[Len(sizes)]
IsCode(a) == Start <= a /\ a < CodeEnd
InRange_Inclusive == Start <= CodeEnd - 1 /\ CodeEnd - 1 <= End
InRange   == Start <= CodeEnd - 1 /\ CodeEnd - 1 < End
OperandsOk ==
  \A k \in DOMAIN insts : insts[k].kind = "mem" => IsCode(AddrOf(insts[k], addrs))

VerifyEmpty == phase = "verify" /\ insts = <<>> /\ Raise("IndexError")
VerifyBad ==
  /\ phase = "verify" /\ insts # <<>>
  /\ ~(InRange /\ OperandsOk)
  /\ Raise("AddrError")
VerifyOk ==
  /\ phase = "verify" /\ insts # <<>>
  /\ InRange /\ OperandsOk
  /\ Goto("encode")
  /\ i' = 1 /\ p' = Start
  /\ UNCHANGED <<scanVars, layVars, passVars, outVars>>

\* b"".join() of the encodings: i and p now walk over the image.
EncodeInst ==
  /\ phase = "encode" /\ i <= Len(insts)
  /\ image' = Append(image, p + pads[i])
  /\ p' = p + pads[i] + SizeFrom(i, addrs)
  /\ i' = i + 1
  /\ UNCHANGED <<code, phase, error, scanVars, layVars, passVars, pads>>

\* Only the total length is double-checked, against the last instruction.
EncodedEnd == LET l == Len(insts) IN addrs[l] + SizeFrom(l, addrs)

EncodeDone ==
  /\ phase = "encode" /\ i > Len(insts)
  /\ IF p = EncodedEnd
     THEN phase' = "done" /\ error' = error
     ELSE phase' = "failed" /\ error' = "AssertionError"
  /\ UNCHANGED <<code, scanVars, layVars, i, p, passVars, outVars>>

Finished == phase \in {"done", "failed"} /\ UNCHANGED vars

Next ==
  \/ CheckDuplicate \/ CheckDetached \/ CheckOk
  \/ ScanLabel \/ ScanAlign \/ ScanNoPad \/ ScanInst \/ ScanDone
  \/ Place \/ PlaceMissing \/ NextPass \/ FixPass \/ GiveUp \/ Converge
  \/ PadInst \/ PadDone \/ VerifyEmpty \/ VerifyBad \/ VerifyOk
  \/ EncodeInst \/ EncodeDone
  \/ Finished

Spec == Init /\ [][Next]_vars
\* build() is a sequential loop: it keeps running until it returns or raises.
FairSpec == Spec /\ WF_vars(Next)

-----------------------------------------------------------------------------
(* Properties. *)

Phases == {"check", "scan", "place", "pad", "verify", "encode", "done", "failed"}
Errors == {"none", "DuplicateDefError", "DetachedLabelError", "MissingDefError",
           "BuildError", "AddrError", "IndexError", "AssertionError"}

\* The layout keeps one address, size and alignment per scanned instruction.
TypeOK ==
  /\ code \in Seq(Item) /\ phase \in Phases /\ error \in Errors
  /\ (phase = "failed") <=> (error # "none")
  /\ pos \in 0 .. Len(code)
  /\ pending_labels \subseteq Objs /\ pending_align \in Nat /\ pending_nopad \in BOOLEAN
  /\ insts \in Seq(Inst)
  /\ where \in [Objs -> 0 .. Len(insts)]
  /\ addrs \in Seq(Nat) /\ sizes \in Seq(Nat) /\ aligns \in Seq(Nat)
  /\ Len(addrs) = Len(insts) /\ Len(sizes) = Len(insts) /\ Len(aligns) = Len(insts)
  /\ nopads \subseteq 1 .. Len(insts)
  /\ i \in 1 .. Len(insts) + 1 /\ p \in Nat
  /\ npasses \in Nat /\ next_fix_thres \in Nat /\ remaining_fixes \in 0 .. MaxPasses
  /\ pads \in Seq(Nat) /\ image \in Seq(Nat)
  /\ phase \in {"pad", "verify", "encode"} => Len(pads) = Len(insts)

\* What the script says, read off the item list: the item of the k-th
\* instruction, and the items between it and the instruction before.
InstAt(k) ==
  CHOOSE q \in DOMAIN code :
    /\ code[q].t = "inst"
    /\ Cardinality({r \in 1 .. q : code[r].t = "inst"}) = k
Between(k) ==
  {r \in 1 .. InstAt(k) - 1 : \A q \in r .. InstAt(k) - 1 : code[q].t # "inst"}
AlignItems(k) == {r \in Between(k) : code[r].t = "align"}
LastAlign(k)  == code[CHOOSE r \in AlignItems(k) : \A q \in AlignItems(k) : q <= r].n
Target(o) ==
  CHOOSE k \in DOMAIN insts :
    \/ insts[k].obj = o
    \/ \E r \in Between(k) : code[r].t = "label" /\ code[r].obj = o

EndOf(k) == image[k] + SizeFrom(k, addrs)

\* Padding is computed from re-encoded sizes and the image is a plain
\* concatenation: each instruction is nevertheless put where the layout says,
\* however its size wobbled; so Script.encode() never trips its assertion.
ImageMatchesLayout ==
  /\ \A k \in DOMAIN image : image[k] = addrs[k]
  /\ error # "AssertionError"

\* The Align(n) nearest before an instruction holds in the finished image; the
\* fixes for oscillations never take it over.
AlignHonored ==
  phase = "done" =>
    \A k \in DOMAIN insts : AlignItems(k) # {} => image[k] % LastAlign(k) = 0

\* An instruction under NoPad() and no Align follows the one before it with no
\* byte in between, however many oscillation fixes were tried.
NoPadHonored ==
  phase = "done" =>
    \A k \in DOMAIN insts :
      (\E r \in Between(k) : code[r].t = "nopad") /\ AlignItems(k) = {} =>
        image[k] = (IF k = 1 THEN Start ELSE EndOf(k - 1))

\* Where the encoded branch goes: the VM adds the offset to the address of the
\* next instruction, which is after what was really encoded.
Lands(k) ==
  EndOf(k) + Offset(k, addrs, sizes[k]) = image[Target(insts[k].ref)] + insts[k].off

\* Every branch of a finished build goes to the instruction after its label.
BranchesLand ==
  phase = "done" => \A k \in DOMAIN insts : insts[k].kind = "branch" => Lands(k)

\* A branch that ends the program and goes beyond its own start: its offset
\* shrinks as it grows, and no later address tells that its size wobbles.
LastBranchAhead(k) ==
  /\ k = Len(insts) /\ insts[k].kind = "branch"
  /\ AddrOf(insts[k], addrs) > addrs[k]

\* They do in every build that ended with no alignment at all, but for a last
\* instruction that branches past the end of the code.
AlignFreeBranchesLand ==
  phase = "done" /\ ~HasAligns =>
    \A k \in DOMAIN insts :
      insts[k].kind = "branch" => LastBranchAhead(k) \/ Lands(k)

\* Without alignments three equal passes also mean settled sizes: encoding
\* again gives what is stored, for each instruction that has a successor.
AlignFreeSettled ==
  phase \in {"verify", "encode", "done"} /\ ~HasAligns =>
    \A k \in 1 .. Len(insts) - 1 : SizeFrom(k, addrs) = sizes[k]

\* lay.check() trusts the stored size of the last instruction: the bytes
\* really encoded still end inside the code region, and one byte behind it at
\* worst when the last instruction is a branch past the end of the code.
InCodeRegion ==
  phase = "done" =>
    LET l == Len(insts) IN EndOf(l) <= (IF LastBranchAhead(l) THEN End + 1 ELSE End)

\* The search is bounded: max_passes fixes of max_passes passes each.
PassBudget == npasses <= MaxPasses * (MaxPasses + 1)

\* Script.encode() has a case for a script without instructions, b"": so
\* building one is not meant to fail.
EmptyScriptBuilds == error # "IndexError"

\* build() returns or raises, whatever oscillates and whatever gets aligned.
Terminates == <>(phase \in {"done", "failed"})
=============================================================================
