# A TLA+ model of bajo

bajo is a small virtual machine (`src/c`) and its assembler, a Python library
(`src/src/bajo`). A Python program builds a list of instructions, labels and
directives; the assembler lays them out and encodes them; the C interpreter
runs the image inside a host, which gives it memory and functions through
callbacks. This directory models that path with TLA+, checks it with TLC and
proves parts of it with TLAPS.

## The system

| Component | State | Operations | What makes it correct |
|---|---|---|---|
| Layout engine, `builder.py` | one `BuildCtx` (addresses, sizes, alignments, NoPads of the instructions), the passes so far, the fixes left | `check`, `build`, `BuildCtx.check` | every instruction ends up where the layout says, branches reach their labels, user alignments hold, the loop ends |
| Script, `script.py` | the code, the cached layout | `flat_code`, `_code_as_list`, `layout`, `encode` | nothing of the code is lost; the image has the layout's length and parts; a run ends at an Exit |
| Encoder, `core.py` (`Op`, `Mem`, `IMem`, `Imm`) | none | `encode_for`, `max_size` | decoding gives back the operands; the m flag only where it changes nothing |
| Instruction classes and operators, `core.py` | none | the operators of `RichOpsMixin`, `Comparison`, derived classes | an expression computes what Python says |
| Immediate expressions, labels, operands, data, `core.py`, `asm.py` | `Label._seq` | `result_for`, `addr_from` | values follow the layout |
| Cycle guard, `core.py` | a set of (object, thread) marks per guarded method | `unless_recursive` | a cycle is reported, anything else is not, in each thread |
| Macros, `macro.py` | a subroutine's body | `when`, `case`, `Subroutine`, `pack` | one branch is executed; a call returns with its registers restored |
| C interpreter, `bajo.c` | `pc`, `err`, `exit_rc`; during a step the decoded operands and results | `bajo_init`, `bajo_step`, `bajo_run` | one step is one instruction; a failed step says so and changes nothing |
| Host, `tests/vm.py` | RAM, the image, the functions | `_read`, `_write`, `_call`, `run` | little-endian, bounded, errors through `me->err` |

How they interact: macros and operators return instruction objects; `Script`
flattens them and gives the list to `builder`, which calls every instruction's
`encode_for(lay)` to learn its size, and the instruction calls back
`lay.addrof` and `lay.sizeof` of the very layout being computed. The image
goes to the interpreter, which reads it, the RAM and the stack of the program
through the host's callbacks; the host reports errors by writing `me->err`
behind the interpreter's back and may run the machine again after an error.

What is hard here, and where the properties are:

* **Sizes and addresses depend on each other.** `build()` updates one layout
  in place, so a pass mixes this pass's addresses with the last one's, and its
  test for convergence looks at addresses only.
* **Errors are noticed late.** `bajo_step()` decodes on after a failed read,
  looks at `me->err` twice, and stores results one by one.
* **The first source may be left out** of the encoding (the m flag): it is then
  not decoded but read through the first target.
* **Half of the instructions are others with swapped arguments.**
* **Encoder and decoder are two programs in two languages** with two tables of
  the instruction set, one of them kept by hand.
* **Subroutines move `sp` and read the stack on either side of the move**, and
  return through memory that they have already released.
* **Macros work on code, not on instructions**: what they are given may be
  nothing, a collection, another macro or an iterator, which can be read once.
* **Objects refer to each other in circles** (every branch to itself), and
  threads that walk them share one set of marks.
* **Widths and ends**: word arithmetic, shift counts, `pc` at the end of memory,
  operand counts taken from the code.

`PROJECT.json` lists each hazard with its line and the properties about it.

## Modules

| Module | What it models |
|---|---|
| `Layout` | `builder.check()`, `build()`, `lay.check()` and `Script.encode()`, from the flat item list to the image |
| `Varint` | the sizes of encoded numbers, addresses and immediates |
| `Word` | words, sign and zero extension, little-endian memory |
| `OpSpec` | the C table of operations: targets, sources, access sizes |
| `Alu` | the results of `dispatch()`: arithmetic, logic, shifts, tests, moves |
| `VmCode` | instructions in memory, the host's read callback, the value of an operand, the effect of `dispatch()` |
| `VmSpec` | what the interpreter promises: an instruction is one step |
| `Vm` | the interpreter as it is: an operand, a store, a check of `me->err` at a time |
| `Derived` | from a Python expression to an instruction to its result |
| `Isa` | the Python classes: signatures, opcodes, and the header generated from them |
| `Codec` | one instruction from its constructor to bytes and through the decoder to operands |
| `Subroutine` | the code of `macro.Subroutine` and its run with nested calls |
| `Script` | `when`, `case`, `pack`, flattening, the cached layout, and a run of the result |
| `CycleGuard` | `unless_recursive` around the walks of `check_against` and `encode_for` |
| `MCLayout`, `MCVm`, `MCDerived`, `MCCodec`, `MCSubroutine`, `MCScript`, `MCCycleGuard` | the instances TLC checks |
| `LayoutProofs` | theorems about `Layout`: passes and their sizes; where the instructions end up |
| `VmProofs` | theorems about `Vm`: types, errors, buffers, and that it implements `VmSpec` |
| `DerivedProofs` | theorems about `Derived`: what every operator and instruction means |
| `SubroutineProofs` | theorems about `Subroutine`: calls, returns, saved registers |
| `CycleGuardProofs` | theorems about `CycleGuard`: marks, checks and reported cycles |
| `CodecProofs` | theorems about `Codec`: what is encoded is decoded, in step and in the size laid out |
| `ScriptProofs` | theorems about `Script`: what flat code does, packed code, the one image |
| `WordProofs` | lemmas: induction, powers of two, sums, words, bits, results of `Alu` |

They follow a program on its way: expressions (`Derived`) and macros (`Script`,
`Subroutine`) become instructions, `CycleGuard` walks these, `Layout` places
them, `Codec` turns each into bytes and back, `Vm` executes it. Neighbours share
definitions: `Varint` is what `Layout` computes sizes with and what `Codec`
compares its bytes with (`SizeAsLaidOut`); `OpSpec` is the table that both `Vm`
and `Codec` decode with; `Alu` is used by `VmCode` and by `Derived`; `Vm`
instantiates `VmSpec` under a refinement mapping. In every module a definition
`X_Y` is `X` with one plausible mistake `Y`. No action uses it: putting it in
the place of `X` must make a property fail, which shows that the property
depends on the code.

### Layout

`code` is the flat item list; an instruction record has the identity of its
Python object, the kind of operand that decides its size, and the object and
offset it refers to. `insts`, `addrs`, `sizes`, `aligns`, `nopads` are the
fields of `BuildCtx`, `where` its label binding. Each `Scan...` action is one
iteration of the first loop of `build()`, `Place` one of the pass loop (the new
size is computed with the new address of this instruction and the old addresses
of those after it), `NextPass`, `FixPass`, `GiveUp` and `Converge` the four ways
on at the end of a pass, `PadInst` one of the padding loop, `EncodeInst` one of
`encode()`. `rnd.choice()` is any choice. Of the earlier passes only the last
two address lists matter to the code, so only they are kept, with the number of
passes. Each size is a number of bytes computed as the encoder computes it
(prefix varints, 2 mode bits for an immediate, 3 for memory, aligned addresses
divided by 4).

`LastBranchAhead` names the one instruction of which a converged layout knows
less than its size: a branch that ends the program and goes beyond its own
start. Its offset shrinks as it grows, and no later address tells that the size
changed. `AlignFreeBranchesLand` and `InCodeRegion` except it; the exceptions
were found by trying to prove both without them, and the real `build()` shows
the case: `Script([l, Br(l + 34)], add_exit=False)` stores size 2 for the branch
and encodes 3 bytes. The programs `Ahead` of `MCLayout` have such branches.

### Word, Alu, VmCode

A word has four bytes and a halfword two, as in the program; a *byte* has
`ByteBits` bits, 8 in the program and 2 for TLC, so that its words are 8 bits
wide. Everything else (shift counts, extension, wrapping, the order of bytes)
is expressed through these. Words are their signed values; an address is
unsigned.

An operand is a sequence of cells: indirections, then an immediate or a memory
address. A cell, an opcode or an operand count is a varint of 1 to 5 bytes in
the program and one address here, so an image can end before any of them. The
image fits the address space (`ProgramsAssumption`), as `Env` demands. The
bytes that a program reads *as data* from the image are all `CodeByte`: only
where they are, not what they are, is kept.

`ReadAt`, `Indirect`, `Rest` are `read_src()`; each returns a value and the set
of errors `me->err` may be left with. The set has two members where C leaves
the outcome open: the order of the two reads of an indirect operand, and
`__builtin_ctz(0)` on a byte that could not be read. `Dispatch` returns the
possible outcomes of `dispatch()`; they are several for a host call, whose
results may be anything in `HostWords`, uninitialised memory included.

### Vm and VmSpec

`st` is the place in `bajo_step()`; the actions between two places are the
accesses made there, and `tgts`, `srcs`, `results`, `w` the locals. `Fetch...`
is lines 613 to 654, `CountTgts`, `ReadTgt`, `CountSrcs`, `Rmw`, `ReadSrc` the
decoding, `SrcsRead` and `Execute` the two looks at `me->err`, `Write` one
iteration of the store loop, `NextStep` and `RunReturns` the loop of
`bajo_run()`, `Rerun` the host calling it again. `ram0`, `pc0`, `exit0` remember
the machine as it was when the step began: they are the refinement mapping, and
`FailedStepWritesNothing` needs them.

`VmSpec` says the same of a whole instruction: all operands are evaluated in
the memory the instruction finds; if any evaluation fails, or the operation
does, the machine stops with one of the reasons and nothing is changed;
otherwise every result is stored, a later target over an earlier one. It knows
nothing of the m flag except where the first source lies in memory. `Stored`
gives each byte of RAM the value of the last target that covers it, without
going through the stores. `Assembled` says what the assembler takes care of: an
instruction with the m flag has a first source equal to its first target, and
the image holds its operand counts.

### Derived

`Write...` chooses a Python expression with argument values, `Assemble...` the
instruction it becomes (`IfClass`, `ElseClass`, `AbSwapped`, `BinaryOp` are the
tables and methods of `core.py`), `Run` what `dispatch()` makes of it. The
properties say what the expression means without these tables.

### Isa and Codec

`Isa` is the assembler's instruction set and `OpSpec` the interpreter's; only
the names of the generated header connect them. In `Codec`, `Construct` is
`Op.__init__()` with its refusals, `Encode` is `Op.encode_for()`, and the other
actions are the decoding half of `bajo_step()`, a varint at a time. Bytes have 8
bits and words 32: a number is a sequence of bits, so nothing is scaled down and
no value is too large for TLC. Each cell of an operand in `Vm` is one varint
here; this is where the two modules meet. `ends` remembers where the encoder's
parts end, for `DecoderInStep`. `read_src()` multiplies an aligned address by 4
in a signed `int`, which overflows from 2^31 on; the model has the wrapped
result that the compilers give.

### Subroutine

`Define` is `define()`, `Assemble` the expansion of `code` and the checks of the
builder, the other actions one instruction each of the program on the machine;
RAM is indexed by words. `frames` is not in the program: it remembers where each
call came from and what the saved registers held, and only the properties read
it. A condition of a body may go either way while fewer than `MaxDepth` calls
are open. `BodiesAssumption` names what the macro takes for granted: a body
leaves `sp` alone and `save_regs` does not name it, a leaf does not call and
does not write `lr`, and what a `when()` encloses ends within the body
(`Bodies`). `StackEnd` is where the registers end: the stack grows down to there.
No macro looks for that; the model ends in the phase "overflow" when it happens,
so the properties say nothing about what follows.

### Script

Python evaluates the code of a script in steps, inner parts first, as `steps` of
a script lists them: `MakeLeaf`, `MakeList`, `AddToList` and `MakeIterator` make
what the user writes, `CallWhen`, `CallCase` and `CallPack` are the macros. What
is made waits on `stack`; each step takes its arguments from there, so an object
goes to one place. Any nesting is a list of steps, and no operator is recursive.

An object is known by what `flat_code()` yields for it the first time and again,
which differ where an iterator is inside, and by its truth value, which `when`
and `case` ask for. A leaf is a record that keeps what Python's types tell apart:
instruction, Exit, None or bool, label. `When`, `Case` and `Pack` are the bodies of
the macros, applied to the items their arguments yield. `BuildLayout` is the
cached property, which is stored only if no exception leaves it, but has read the
code in any case (`read`); `Extend` is the owner of the code list appending to it
before, between or after builds; of `builder.check()` and `build()` `Buildable` has
whether they raise for the labels or for want of an instruction. Then the machine
runs the image. The truth values of the conditions (`value`) are chosen at the
start and do not change: the model has no computation that could change them.

Next to its items an object carries its meaning (`does`: the instructions it
executes, `exits`: whether it comes to an Exit), computed from those of its parts
as the text reads: one block or the other, the first case that matches. No action
looks at it; `MacrosMean` compares it with the run of the flat code.

### CycleGuard

`graph` holds the objects that instructions refer to; `stack` is each thread's
Python stack in the guarded methods. `Otherwise`, `Fresh`, `Mark` and `Leave` are
the wrapper, line by line; `Descend` is a method calling the same method of the
next operand (`Walks`, in the order of the code, with the first source and target
encoded twice for the m flag); `Fault` what the method raises of its own;
`TooDeep` Python's recursion limit. Values of expressions are computed without a
guard, as the code does, and a cycle there ends at the recursion limit. An
operand that encodes like another is taken to be the same object. Threads call
again and again, also after exceptions, so a mark left behind would be found.

## Runs

| Run | Question | Answer |
|---|---|---|
| `layout` | every build of short item lists: is the image the layout, do alignments, NoPad, region and pass budget hold, does it end? | yes |
| `layout_branches_land` | does every branch of a finished build reach its label? | no: see below |
| `layout_empty` | can a script without instructions be built? | no: see below |
| `vm` | is a step of the interpreter one atomic instruction, and do failed steps report and change nothing? | yes |
| `vm_step_rc` | the same of images the assembler does not make, with the m flag and no source | no: see below |
| `derived` | do operators, comparisons, branches, conditional moves and the named instructions mean what they say? | yes |
| `derived_left_shift` | does `<<` shift left? | no: see below |
| `codec` | does the interpreter decode what the assembler encoded, in the size the layout assumed? | yes, up to the interpreter's limit of operands |
| `subroutine` | do nested and recursive calls return to their callers with registers and stack as they were? | yes |
| `script` | do nested macros execute what they say, up to an Exit, and does a script keep one image? | yes |
| `script_retry` | does a script that is built again after a failure hold all of its code? | no: see below |
| `cycle_guard` | in two threads: is every operand checked, every cycle and nothing else reported, every mark removed? | yes |

**Bounds.** `layout`: the code region starts at 2030. The programs are all
sequences of up to four items over eight (a branch, two blocks of data, a memory
operand, a label, two alignments, NoPad), legal or not, and longer ones: branches
over 27 to 32 bytes forwards and backwards, where an offset goes from one byte to
two, and the programs of `test_oscill.py` with memory operands on both sides of
2048, where a misaligned address goes from two bytes to three. `MaxPasses = 3`
is the smallest value `Env` accepts; it makes the oscillation fixes start early,
so that all of them are explored. `vm`: three
words of RAM at 0, code at 16, so that there are unmapped addresses between and
behind; `MAX_TGTS` and `MAX_SRCS` are 3, and programs ask for 4; operands are
registers, misaligned and half-mapped words, unmapped addresses and up to three
levels of indirection, with targets that are also sources or the base of
another operand; RAM contents put valid, invalid and negative pointers in the
registers. The programs are one or two instructions, plus loops and calls: a
step depends on earlier ones only through RAM and `pc`. `derived`: sixteen
values around the ends, the sign changes and the width of an 8-bit word, in all
pairs. `codec`: every class with every number of operands up to one more than
`MAX_SRCS`; addresses and immediates of one bit, of all ones and next to these,
at each of 35 lengths, so on both sides of each varint size and of each range
check, in every place an operand has; operands of every shape in all pairs, for
the m flag. `subroutine`: a leaf and a subroutine that calls itself and the leaf,
and two that call each other, each with none to two saved registers, `lr` among
them; three calls deep, and a leaf's, which the stack holds with two words to
spare. `script`: one to three cases, empty, None, iterator and Exit blocks with
every default, and every such macro inside another, packed or not, with and
without the implicit Exit; a label and an instruction, each appended at any time.
`cycle_guard`: two threads; branches to themselves and to each other, an operand
inside itself, one used several times, expressions with and without a cycle, bad
addresses, and operands nested to the recursion limit of six.

**Fairness.** `build()` is a sequential loop: `WF_vars(Next)` says that it keeps
running. `bajo_step()` is sequential code too and its callbacks return:
`WF_vars(Next /\ st # "stopped")` says that a step that began goes on; nothing
obliges the host to run a stopped machine again. `Subroutine`: `WF_vars(Next)`,
one machine that keeps running; a program whose conditions stay true for ever
is bounded by `MaxDepth`. The other modules state no fairness.

## Disagreements with the documentation

* `builder.py:222`: convergence compares addresses, a branch offset also uses
  the stored size of the branch. If an alignment absorbs the branch's last
  change of size, the stored size is stale and the branch lands one byte past
  its label (`layout_branches_land`). Without alignments it cannot happen
  (`AlignFreeBranchesLand`, `AlignFreeSettled`).
* `bajo.c:692`: `return (me->err == BAJO_BAD_OPERAND)` compares where it means to
  assign, so a step with the m flag and no operand returns 0, even after a read
  that failed (`vm_step_rc`).
* `core.py:357`: `<<` builds `RShiftU` (`derived_left_shift`).
* `script.py:69`: a build that fails has read the iterators of the code. If the
  code includes a subroutine by its `code` property, as README.md:456 says, or a
  generator, and a label is missing at first, the next build succeeds and leaves
  these instructions out without a word (`script_retry`). A subroutine inserted
  as it is gives a new iterator each time.
* `builder.py:108`: a script without instructions raises `IndexError`, although
  `Script.encode()` has a case for it (`layout_empty`).

Met while reading, without a run: README.md:95 subscripts `R[3] - M[R[5] + 4]`,
which `MemFactory` refuses (`asm.py:278`); README.md:215 calls the `add_exit`
argument of `Script` `implicit_exit`; `Env` (`env.py:20`) looks for an overlap at
the two ends of RAM only and accepts a code region in the middle of it; a
variadic instruction with more than eight operands is assembled and then refused
by the interpreter (`DecodesUnlessTooMany` says that only this is refused).

## Proofs

Each of the eight modules of proofs is checked by `tlapm <module>.tla`;
`WordProofs` has lemmas only. A theorem holds for every value of the constants
that satisfies the `ASSUME`s of the modules it is about; TLC evaluates these in
every run. They say what the constants are (programs are sequences of items,
memories are functions to bytes, `ByteBits` is positive) and otherwise only what
is named with the modules above: the code region is a region, `max_passes` is at
least 3, an image fits the address space, subroutines are written as
`BodiesAssumption` says, graphs of objects are finite, operators are Python's,
constructor calls are calls the classes accept with operands of 32-bit addresses
(`CallsAssumption`), fewer than 2^29 of them (`Huge`).

**How induction is done.** The provers cannot instantiate the induction theorems
of the library, so `WordProofs` proves induction for sets (`SetInduction`, from
the least natural number outside of a set) and recursion from it (`Recursion`);
a predicate is written as the set of the numbers it holds for. The provers know
nothing of `2 ^ n` either: its laws come from counting the subsets of `1 .. n`.

`LayoutProofs`

* `TypeCorrect`: `TypeOK` is an invariant. It is not inductive: the size of an
  instruction exists only if the object it refers to is placed. `TInv` adds
  `Looked`: the instructions a pass has been over are resolved, and after the
  passes all are.
* `PassBudgetHolds`: never more than `MaxPasses * (MaxPasses + 1)` passes. `BInv`
  says that `next_fix_thres + MaxPasses * remaining_fixes` stays within the budget
  (a fix moves one and spends the other) and that `npasses` stays below the
  threshold while the search goes on.
* `SettledHolds`: without alignments a converged layout has settled sizes. `SInv`
  describes the one layout in the middle of a pass: the addresses before `i` form
  a chain of the new sizes, those from `i` on still are the chain of the pass
  before, and if nothing has moved so far each size taken is a function of the
  addresses and the old chain. At the end of a pass that moved nothing the old
  chain is the new one.
* `ImageProved` and `RegionProved`: the image has each instruction where the
  layout says, and ends in the code region. The loop stops when addresses repeat
  and `encode()` takes all sizes again, so the theorem is that the two agree: in
  equal addresses a size takes at most two values (`Window`: it depends on the
  size it had), and the addresses leave room for each (`PassInv`, `Laid`), the
  padding making up the difference. That is where `LastBranchAhead` comes from:
  nothing follows the last instruction, so nothing left room for it.
* `AlignProved` and `NoPadProved`: the last alignment before an instruction holds
  for it and NoPad instructions follow without padding. `CodeInv` relates what
  has been scanned to the items still waiting for their instruction.
* `BranchesProved`: without alignments every branch reaches its label, from
  `SInv` and the invariants above.

`VmProofs`

* `FailedStepHarmless`: a failing step leaves the RAM as it found it, unless a
  store was refused. `RamInv` says that `ram = ram0` until the stores begin, that
  they begin only with `err = "OK"`, and that an error among the first `w` stores
  comes from a target outside of RAM.
* `BuffersAlwaysHold`: the arrays of `bajo_step()` are never overfilled. `BufferInv`
  says that an array is empty until its count is checked, and that the count is
  within its limit in every place after that. Both use `CodeInv`: what is fetched
  is an instruction of the program.
* `TypeCorrect`: `TypeInv` adds the operands to these (`OperandInv`: a target is an
  address, a source a word, as many as the place in the step says) and that the
  results of every operation are words (`ResultsType` of `WordProofs`).
* `ErrorsReported`: a step with a failed callback does not return 0, if all
  programs are `Assembled`. `TrackInv` says where in the instruction the decoder
  is: on track, or behind an operand count that could not be read. The hypothesis
  is needed: `vm_step_rc` is the counterexample without it.
* `StepsAreAtomic`: `Vm` implements `VmSpec` under the refinement mapping, for the
  same programs. `AtomInv` says what a step has done so far in the terms of the
  atomic one: the operands read are those that the memory at the start of the
  step gives (`Reading`), the memory is what the first `w` stores make of it
  (`Writing`), and a step that ended was refused or done as a whole (`Rejected`,
  `Executed`). `NextStep` and `RunReturns` map to the actions of `VmSpec`, `Rerun`
  to `Resume`, all other actions stutter.

`DerivedProofs`

* `ComparisonsProved`, `MovesProved`, `DivisionProved`, `OperatorsProved`,
  `InstructionsProved`: the five properties of `Derived`, for every width of a byte
  and all argument values. `DerivedInv` is what the three steps make of the
  expression as it was written. Bit `k` of a word is the parity of the floor of
  its quotient by `2 ^ k` (`BitIs`), of any integer with that residue; from this
  come the meaning of shifts, of the complement, and that `FromBits` makes a word
  of the bits it is given (`BitOfBits`). `<<` is not among the operators: it
  shifts right.

`SubroutineProofs`

* `ReturnsProved`, `RegistersProved`, `FramesProved` and `TypeCorrect`: for any
  subroutines and scripts, and any depth the stack allows, a call returns behind
  itself, to its caller, with `sp` and the saved registers as they were, and the
  stack keeps what calls in progress have saved. `IInv` relates the code to the
  definitions (`CodeInv`), each frame to the one below it (`FramesInv`: stacks of
  nested calls do not overlap), and the machine to its place in the top frame
  (`RunInv`, `AtPos`: what has been pushed, whether `sp` has moved, what has been
  popped).

`CycleGuardProofs`

* `MarksHold`, `ChecksReachEverything`, `CyclesAreReported` and `TypeCorrect`: for
  any objects, any number of threads and any recursion limit. `IInv` has a part
  for each thread that mentions its own calls and marks only: the calls form a
  path through the operands (`PathInv`), an object is marked exactly while a
  guarded method is in it (`MarkInv`), what a method is through with was faultless
  and not cyclic (`WorkInv`, `CycleInv`). That another thread's step keeps it is a
  step of the proof.

`CodecProofs`

* `OperandsArrive`, `SharedFirstSource`, `StaysInStep`, `InstructionsDecode`,
  `LiteralsAreKept`, `SizesAsLaidOut` and `TypeCorrect`: the seven properties of
  `Codec`, for any class, any number of operands, any level of indirection, every
  address and every immediate. `IInv` (`Inductive`) says of each place in
  `bajo_step()` where the decoder is: at the end of a part of the encoding
  (`AtPart`), with the operands of the parts behind it, the last one perhaps
  without its last cells (`At`), and both counts as encoded.
* The steps of the argument: the Python signatures and the C table agree, class by
  class (`TablesAgree`); a varint is read back with the length its first byte tells
  (`PayloadIs`, `ReadsVarint`); the bits after the mode bits give the same word,
  for an immediate of either sign and an address aligned or not (`SrcArrives`,
  `TgtArrives`); two operands are encoded alike exactly if they mean the same
  (`RmwMeans`). For the sizes, the length of a number in bits is related to its
  value (`NumberLength`, `AddressLength`), so that the bytes of a varint are those
  `VarintSize` finds by comparing the value (`PrefixedSize`).
* `NumberOf`, the only number that `Codec` computes from bits, is a sum over a
  recursive function (`Total`); `Adds` is its unfolding, which the proofs use.

`ScriptProofs`

* `MacrosProved`: for any steps, conditions and appended items, so for code nested
  in any way, a run does what the code means. The idea is a *plan* of flat code: it
  gives for every place what is still to be done from there, so that each item fits
  what is before and behind it, and each branch what is at its label (`Fits`,
  `Plan`). `Means(v, E, m)` says that for every continuation `r` the items `E` have a
  plan from "`m`, then `r`" to `r` that depends on its own labels only (`Closed`).
  Joined code has joined plans (`RunsJoined`, `MeansJoined`), and a macro has one
  made of the plans of its blocks (`WhenMeaning`, `CaseMeaning`, `PackMeaning`,
  `KeptMeaning`); for `case()` this includes that the branch it drops is the
  redundant one (`CaseIsBody`).
* `IInv` says that everything on the stack is an object whose items, the first time
  and again, mean what it carries (`Made`), that an accepted layout is of such items
  and has each label once (`LaidOut`, `Sound`), and that a run keeps to a plan of
  the whole: what it did, and what its plan has at `pc`, together are the meaning of
  the code (`Running`, `Progress`). As each step of Python preserves `Made`, the
  induction over nested code is that over the run. `Means`
  quantifies over all continuations, so TLC cannot evaluate `IInv`; it evaluates
  what `IInv` implies, the four properties.
* `PackedProved`: each item that `pack()` was given follows a NoPad, in every object
  (`Padded`, part of `Objects`): the macros cut no code apart, and neither does
  dropping None and bools (`KeptPadded`). `ImagesProved` needs that every image is
  the one of the cached layout (`Imaged`). `TypeCorrect`: no run leaves the image,
  and none runs off its end if the script was to have an Exit.
* The only assumption is `ScriptAssumption`: scripts are sequences of steps and
  appended items are leaves.

Only model-checked:

* liveness (`Terminates`, `StepReturns`, `Finishes`): the provers do not do
  fairness;
* the runs that find a violation.

## Not modelled

* Self-modifying programs, i.e. RAM executed as code, and jumps into the middle
  of an instruction: the interpreter then decodes bytes that are not modelled.
  `Vm` has no behaviour there, so `MCVm`'s programs do not jump so.
* A host function that changes RAM or stops the process; the host of
  `tests/vm.py` only returns values.
* `pc` after a step that failed while decoding: the host cannot go on from
  there, and nothing says where it is. `Vm` has it; `VmSpec` does not.
* The factories `R`, `M`, `D` and `Bytes`, and the arithmetic of immediate
  expressions on two labels: functions without state, one line each.
* The structural `__eq__` of operands (`_eq`): nothing in the assembler uses it
  (the m flag compares encodings instead), it is there for users and tests.
* The numbering of unnamed labels: names appear in listings only.
* Listings and reprs, the writing of generated files, the ctypes layer: no state
  the program depends on. Of the generators, `Isa` has which class gets which
  opcode.
* One instruction or label object placed at two places is refused by
  `builder.check()`; `Layout` has it, `Script` takes each macro call for new.
* `Align` in the code of a `Script`, and the address errors of `build()`: `Layout`
  has them. A directive leaves no trace in a run, and `PackedUnpadded` is about
  instructions and the NoPads of `pack()` only.
* `define(None)`: it leaves the body unset, so that the subroutine counts as not
  defined and may be defined again. In `Subroutine` a body is a sequence, possibly
  empty.
* The assert of `Mem.encode()`: `CallsAssumption` keeps addresses of more than 32
  bits out of `Codec`. The assert of `Imm.encode()` is in `Codec` ("AssertionError"),
  as is `cast_s32()`. The sizes of `Layout` (`ImmSize`) have neither: below 2^31,
  where its addresses are, they change nothing.

## What is left

Every safety and refinement property that a passing run checks is proved. Liveness
is checked by TLC only, and the prover cannot do more about it. What could still be
added are the parts listed above as not modelled.
