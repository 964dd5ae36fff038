------------------------------- MODULE Script -------------------------------
(***************************************************************************)
(* From nested code to control flow: the macros when(), case() and pack(), *)
(* the flattening of code collections, the implicit Exit, the layout that  *)
(* a Script computes once, and a run of what it encodes.                   *)
(*                                                                         *)
(* Python makes the code of a script in steps, the inner parts first; what *)
(* is made waits on a stack for the collection or the macro around it.  An *)
(* object is known by the items it yields when it is flattened, for the    *)
(* first time and again: an iterator yields nothing again.  An item is an  *)
(* instruction (inst, exit, br, brif), a label, the directive nopad, or    *)
(* none (None, False) or true, which stand for no code.  A condition is a  *)
(* name; what comparisons and their branches mean is in Derived, and what  *)
(* build() does with flat code in Layout.                                  *)
(*                                                                         *)
(* A definition named X_Y is X with one plausible mistake Y: no action     *)
(* uses it, it shows that a property notices the mistake.                  *)
(***************************************************************************)
EXTENDS Integers, SequencesExt

CONSTANTS
  Ids,         \* what tells the instructions apart
  Conds,       \* the conditions
  Scripts,     \* the steps that make the code of a Script, and its add_exit
  Extras       \* items the owner of the code list may append to it later

Labels == {"user", "else", "case", "end"} \X Nat \X Nat
Leaves ==
  [is : {"inst"}, id : Ids, refs : SUBSET Labels, packed : {FALSE}]
    \cup [is : {"exit"}, packed : {FALSE}] \cup [is : {"none", "true"}] \cup [is : {"label"}, at : Labels]
Steps ==
  [is : {"leaf"}, item : Leaves] \cup [is : {"list", "add", "iter", "pack"}]
    \cup [is : {"when"}, cond : Conds] \cup [is : {"case"}, conds : Seq(Conds)]

ASSUME ScriptAssumption ==
  Scripts \subseteq [steps : Seq(Steps), add_exit : BOOLEAN] /\ Extras \subseteq Leaves

VARIABLES
  script,     \* the Script that is made and run
  stack,      \* the objects made so far; in the end, the code of the Script
  extras,     \* the items that its owner may still append
  read,       \* has the code been flattened before?
  layout,     \* the cached layout, None before a build succeeded
  built,      \* the code the layout was made from
  images,     \* what encode() returned so far
  value,      \* what the conditions will be in the run
  st, pc,     \* "making", "python", "running", "stopped", "ran off"; the next step or item
  trace       \* the instructions executed
vars == <<script, stack, extras, read, layout, built, images, value, st, pc, trace>>
python == <<script, extras, read, layout, built, images, value>>

None == [is |-> "none"]

-----------------------------------------------------------------------------
(* What code means, read as the nested text it is: the instructions it     *)
(* executes, and whether it then comes to an Exit.  No action depends on   *)
(* it: each object only carries it along with its items.                   *)

Nil  == [does |-> <<>>, exits |-> FALSE]
Stop == [does |-> <<>>, exits |-> TRUE]
Then(a, b) == IF a.exits THEN a ELSE [does |-> a.does \o b.does, exits |-> b.exits]

LeafMeans(t) ==
  IF t.is = "inst" THEN [does |-> <<t.id>>, exits |-> FALSE] ELSE IF t.is = "exit" THEN Stop ELSE Nil
WhenMeans(c, then, otherwise) == IF value[c] THEN then ELSE otherwise
CaseMeans(conds, codes, default) ==
  IF \E k \in DOMAIN conds : value[conds[k]]
  THEN codes[CHOOSE k \in DOMAIN conds : value[conds[k]] /\ \A j \in 1 .. k - 1 : ~value[conds[j]]]
  ELSE default

-----------------------------------------------------------------------------
(* The macros: the items that a call makes of the items of its arguments.  *)
(* Its labels are known by n, the step the call is.                        *)

Label(l)       == [is |-> "label", at |-> l]
Br(l)          == [is |-> "br", to |-> l, packed |-> FALSE]
BrIf(c, on, l) == [is |-> "brif", cond |-> c, on |-> on, to |-> l, packed |-> FALSE]
NoPad          == [is |-> "nopad"]
Else(n) == <<"else", 0, n>>
End(n)  == <<"end", 0, n>>
IsInst(t) == t.is \in {"inst", "exit", "br", "brif"}

When_FallsThrough(c, then, otherwise, falsy, n) ==
  <<BrIf(c, FALSE, Else(n))>> \o then \o <<Label(Else(n))>> \o otherwise
When(c, then, otherwise, falsy, n) ==
  IF falsy
  THEN <<BrIf(c, FALSE, End(n))>> \o then \o <<Label(End(n))>>
  ELSE <<BrIf(c, FALSE, Else(n))>> \o then \o <<Br(End(n)), Label(Else(n))>>
         \o otherwise \o <<Label(End(n))>>

\* The last of res is always the branch behind the last block.
Case(conds, codes, default, falsy, n) ==
  LET tests  == [k \in DOMAIN conds |-> BrIf(conds[k], TRUE, <<"case", k, n>>)]
      first  == (IF falsy THEN <<>> ELSE default) \o <<Br(End(n))>>
      blocks == [k \in DOMAIN codes |-> <<Label(<<"case", k, n>>)>> \o codes[k] \o <<Br(End(n))>>]
  IN  Front(tests \o first \o FlattenSeq(blocks)) \o <<Label(End(n))>>

\* packed remembers what pack() was given.
Given(t) == [t EXCEPT !.packed = TRUE]
Pack_Once(code) ==
  <<NoPad>> \o [k \in DOMAIN code |-> IF IsInst(code[k]) THEN Given(code[k]) ELSE code[k]]
Pack(code) ==
  FlattenSeq([k \in DOMAIN code |-> IF IsInst(code[k]) THEN <<NoPad, Given(code[k])>> ELSE <<code[k]>>])

-----------------------------------------------------------------------------
(* Python evaluates the steps.  What an object yields is its text: items   *)
(* and their meaning.  It is falsy when Python's bool() of it is False.    *)

Empty == [code |-> <<>>, means |-> Nil]
Object(falsy, first, again) == [falsy |-> falsy, first |-> first, again |-> again]
LeafText(t) == [code |-> <<t>>, means |-> LeafMeans(t)]
Leaf(t) == Object(t.is = "none", LeafText(t), LeafText(t))
Joined(a, b) == [code |-> a.code \o b.code, means |-> Then(a.means, b.means)]
Added(list, x) == Object(FALSE, Joined(list.first, x.first), Joined(list.again, x.again))

Init ==
  /\ script \in Scripts /\ value \in [Conds -> BOOLEAN]
  /\ stack = <<>> /\ extras = Extras /\ read = FALSE
  /\ layout = None /\ built = None /\ images = {}
  /\ st = "making" /\ pc = 1 /\ trace = <<>>

Step == script.steps[pc]
Evaluates(kind, args) ==
  st = "making" /\ pc <= Len(script.steps) /\ Step.is = kind /\ Len(stack) >= args
Arg(k, args) == stack[Len(stack) - args + k]
\* The step takes its arguments from the stack and leaves x there.
Push(args, x) ==
  /\ stack' = Append(SubSeq(stack, 1, Len(stack) - args), x) /\ pc' = pc + 1
  /\ UNCHANGED <<python, st, trace>>

MakeLeaf == Evaluates("leaf", 0) /\ Push(0, Leaf(Step.item))
MakeList == Evaluates("list", 0) /\ Push(0, Object(TRUE, Empty, Empty))
AddToList == Evaluates("add", 2) /\ Push(2, Added(Arg(1, 2), Arg(2, 2)))
MakeIterator == Evaluates("iter", 1) /\ Push(1, Object(FALSE, Arg(1, 1).first, Empty))
WhenYields(then, otherwise) ==
  [code  |-> When(Step.cond, then.code, otherwise.code, Last(stack).falsy, pc),
   means |-> WhenMeans(Step.cond, then.means, otherwise.means)]
CallWhen ==
  /\ Evaluates("when", 2)
  /\ Push(2, Object(FALSE, WhenYields(Arg(1, 2).first, Last(stack).first),
                           WhenYields(Arg(1, 2).again, Last(stack).again)))
CaseYields(texts, default) ==
  [code  |-> Case(Step.conds, [k \in DOMAIN texts |-> texts[k].code], default.code,
                  Last(stack).falsy, pc),
   means |-> CaseMeans(Step.conds, [k \in DOMAIN texts |-> texts[k].means], default.means)]
CallCase ==
  LET n == Len(Step.conds)
  IN  /\ Evaluates("case", n + 1)
      /\ Push(n + 1,
              Object(FALSE, CaseYields([k \in 1 .. n |-> Arg(k, n + 1).first], Last(stack).first),
                            CaseYields([k \in 1 .. n |-> Arg(k, n + 1).again], Last(stack).again)))
\* pack() reads the iterators and makes a list.
CallPack ==
  LET given == Arg(1, 1).first
      text  == [code |-> Pack(given.code), means |-> given.means]
  IN  Evaluates("pack", 1) /\ Push(1, Object(given.code = <<>>, text, text))

MakeScript ==
  /\ st = "making" /\ pc > Len(script.steps) /\ Len(stack) = 1
  /\ st' = "python"
  /\ UNCHANGED <<python, stack, pc, trace>>

-----------------------------------------------------------------------------
(* The script. *)

\* _code_as_list(): the first line drops None and bools, the rest adds an Exit.
WithExit_Never(flat, add_exit) == flat
WithExit(flat, add_exit) ==
  IF add_exit /\ (flat = <<>> \/ Last(flat).is # "exit")
  THEN Append(flat, [is |-> "exit", packed |-> FALSE]) ELSE flat
Kept(code) == FlattenSeq([k \in DOMAIN code |-> IF code[k].is \in {"none", "true"} THEN <<>> ELSE <<code[k]>>])
CodeAsList(code) == WithExit(Kept(code), script.add_exit)

\* builder.check() and build() pass: there is an instruction, none of the labels
\* comes after the last or twice, and every label mentioned is there.
Buildable(flat) ==
  LET labels == {k \in DOMAIN flat : flat[k].is = "label"}
      placed == {flat[k].at : k \in labels}
  IN  /\ \E j \in DOMAIN flat : IsInst(flat[j]) /\ \A k \in labels : k < j
      /\ \A j, k \in labels : flat[j].at = flat[k].at => j = k
      /\ \A k \in DOMAIN flat : flat[k].is = "inst" => flat[k].refs \subseteq placed

Text == IF read THEN stack[1].again ELSE stack[1].first

\* The owner of the code list appends to it.
Extend ==
  /\ st = "python"
  /\ \E t \in extras : stack' = <<Added(stack[1], Leaf(t))>> /\ extras' = extras \ {t}
  /\ UNCHANGED <<script, read, layout, built, images, value, st, pc, trace>>

\* The cached property: it is stored only if no exception leaves it.
BuildLayout ==
  LET flat == CodeAsList(Text.code)
  IN  /\ st = "python" /\ layout = None
      /\ read' = TRUE
      /\ IF Buildable(flat)
         THEN layout' = [is |-> "layout", items |-> flat]
                /\ built' = [code |-> stack[1].first.code, means |-> Text.means]
         ELSE UNCHANGED <<layout, built>>
      /\ UNCHANGED <<script, stack, extras, images, value, st, pc, trace>>

Encoded_Fresh == CodeAsList(stack[1].first.code)
Encoded == layout.items
Encode ==
  /\ st = "python" /\ layout # None
  /\ images' = images \cup {Encoded}
  /\ UNCHANGED <<script, stack, extras, read, layout, built, value, st, pc, trace>>

-----------------------------------------------------------------------------
(* The machine runs an image.  Labels and directives leave no trace in it. *)

Start ==
  /\ st = "python" /\ images # {}
  /\ st' = "running" /\ pc' = 1
  /\ UNCHANGED <<python, stack, trace>>

Target(l) == CHOOSE k \in DOMAIN layout.items : layout.items[k] = Label(l)
At(kinds) == st = "running" /\ pc <= Len(layout.items) /\ layout.items[pc].is \in kinds
Item == layout.items[pc]
Ran == UNCHANGED <<python, stack>>

Skip == At({"label", "nopad"}) /\ pc' = pc + 1 /\ Ran /\ UNCHANGED <<st, trace>>
Execute == At({"inst"}) /\ pc' = pc + 1 /\ trace' = Append(trace, Item.id) /\ Ran /\ UNCHANGED st
Branch == At({"br"}) /\ pc' = Target(Item.to) /\ Ran /\ UNCHANGED <<st, trace>>
BranchIf ==
  /\ At({"brif"})
  /\ pc' = IF value[Item.cond] = Item.on THEN Target(Item.to) ELSE pc + 1
  /\ Ran /\ UNCHANGED <<st, trace>>
Exit == At({"exit"}) /\ st' = "stopped" /\ Ran /\ UNCHANGED <<pc, trace>>
RunOff ==
  /\ st = "running" /\ pc > Len(layout.items) /\ st' = "ran off"
  /\ Ran /\ UNCHANGED <<pc, trace>>

Making ==
  \/ MakeLeaf \/ MakeList \/ AddToList \/ MakeIterator
  \/ CallWhen \/ CallCase \/ CallPack \/ MakeScript
Next ==
  \/ Making \/ Extend \/ BuildLayout \/ Encode
  \/ Start \/ Skip \/ Execute \/ Branch \/ BranchIf \/ Exit \/ RunOff
Spec == Init /\ [][Next]_vars

-----------------------------------------------------------------------------
(* Properties. *)

\* The run stays in the image, unless the script was to have no Exit.
TypeOK ==
  /\ st \in {"making", "python", "running", "stopped", "ran off"}
  /\ st = "running" => pc \in 1 .. Len(layout.items) + 1
  /\ value \in [Conds -> BOOLEAN]
  /\ st = "ran off" => ~script.add_exit

\* A run executes the instructions of the code's meaning, in order, up to the
\* first Exit, and then stops: when() takes one of its two blocks, case() the
\* first that matches or the default, packed code is not changed.
MacrosMean ==
  /\ st = "stopped" => trace = built.means.does /\ (built.means.exits \/ script.add_exit)
  /\ st = "ran off" => trace = built.means.does /\ ~built.means.exits

\* build() may pad before no instruction that pack() was given, however many
\* collections and macros it lay in.
PackedUnpadded ==
  layout # None =>
    \A k \in DOMAIN layout.items :
      (IsInst(layout.items[k]) /\ layout.items[k].packed) => k > 1 /\ layout.items[k - 1] = NoPad

\* All encodings of one script are equal, although its code list may have grown.
OneImage == \A a, b \in images : a = b

\* A script that was built holds every instruction of its code, also if an
\* earlier attempt to build it failed.
EveryInstruction == layout # None => layout.items = CodeAsList(built.code)
=============================================================================
