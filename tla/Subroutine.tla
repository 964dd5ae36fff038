----------------------------- MODULE Subroutine -----------------------------
(***************************************************************************)
(* The calling convention of macro.Subroutine: the prologue, epilogue and  *)
(* jump it puts around a body, run with nested and recursive calls on the  *)
(* one RAM that holds the registers and the stack.                         *)
(*                                                                         *)
(* A body is a sequence of items:                                          *)
(*   write   an instruction that leaves some value in register reg         *)
(*   call    sub(), a BrLnk to the subroutine's label                      *)
(*   maybe   when(condition, the next n items), the condition being open   *)
(* Every access is to a whole word, so RAM is indexed by words and the     *)
(* factor 4 of the code is left out.  Each instruction takes one address.  *)
(*                                                                         *)
(* A definition named X_Y is X with one plausible mistake Y: no action     *)
(* uses it, it shows that a property notices the mistake.                  *)
(***************************************************************************)
EXTENDS Integers, FiniteSets, SequencesExt

CONSTANTS
  Subs,       \* the Subroutine objects
  Scripts,    \* define() calls, the subroutines put in the script, the main code
  sp, lr,     \* env.named_registers: two register numbers
  RamWords,   \* the size of RAM
  StackTop,   \* what the main code sets sp to
  StackEnd,   \* the stack may grow down to here; the registers in use are below
  Values,     \* what a write may leave
  MaxDepth    \* calls in a "maybe" are not made at this depth

ASSUME RegistersAssumption ==
  /\ RamWords \in Nat /\ StackTop \in 0 .. RamWords /\ StackEnd \in 0 .. StackTop
  /\ sp \in 0 .. StackEnd - 1 /\ lr \in 0 .. StackEnd - 1 /\ sp # lr
ASSUME BoundAssumption == Values \subseteq Int /\ MaxDepth \in Nat

Items(s) == {s[k] : k \in DOMAIN s}
Regs == 0 .. StackEnd - 1
Item ==
  [do : {"write"}, reg : Regs] \cup [do : {"call"}, sub : Subs] \cup [do : {"maybe"}, n : Nat]
\* What when() puts under its condition ends with the body at the latest.
Bodies ==
  {body \in Seq(Item) : \A k \in DOMAIN body : body[k].do = "maybe" => k + body[k].n <= Len(body)}
ASSUME ScriptsAssumption ==
  \A x \in Scripts :
    /\ x.parts \in Seq(Subs) /\ x.main \in Bodies
    /\ x.defs \in Seq([sub : Subs, save : SUBSET Regs, leaf : BOOLEAN, body : Seq(Item)])
    /\ \A d \in Items(x.defs) : d.body \in Bodies

\* What the macro takes for granted of its user: the code leaves sp alone, a
\* leaf makes no call and leaves lr alone, and sp itself is not to be saved.
Written(body) == {x.reg : x \in {y \in Items(body) : y.do = "write"}}
ASSUME BodiesAssumption ==
  \A x \in Scripts :
    /\ sp \notin Written(x.main)
    /\ \A d \in Items(x.defs) :
         /\ sp \notin Written(d.body) \cup d.save
         /\ d.leaf => lr \notin Written(d.body) /\ \A y \in Items(d.body) : y.do # "call"

VARIABLES
  script,     \* the Python program
  phase,      \* "define", "run", "stopped", or an error; "overflow" when the stack
              \* grows into the registers, which no macro looks for: the model ends there
  definition, \* what define() stored in each subroutine, None before
  ndefs,      \* define() calls made
  included,   \* subroutines that flat_code() has put in the script
  image,      \* the instructions
  label,      \* where the subroutines in the image begin
  ram, pc,
  frames      \* the calls being executed: who, from where, with which registers
vars == <<script, phase, definition, ndefs, included, image, label, ram, pc, frames>>
python == <<definition, ndefs, included, image, label>>
machine == <<ram, pc, frames>>

None == [save |-> {}]
Addrs == 0 .. RamWords - 1

-----------------------------------------------------------------------------
(* The code of a subroutine. *)

\* The registers to save, each once, by their numbers.
SavedRegs(d) ==
  [i \in 1 .. Cardinality(d.save) |->
     CHOOSE r \in d.save : Cardinality({q \in d.save : q <= r}) = i]
Push(d) == IF d.leaf THEN SavedRegs(d) ELSE Append(SavedRegs(d), lr)
Pop(d)  == SavedRegs(d)

Prologue_AboveSp(d) ==
  LET n == Len(Push(d))
  IN  IF n = 0 THEN <<>>
      ELSE <<[do |-> "move_sp", n |-> -n]>>
             \o [i \in 1 .. n |-> [do |-> "push", reg |-> Push(d)[i], at |-> i]]
Prologue(d) ==
  LET n == Len(Push(d))
  IN  IF n = 0 THEN <<>>
      ELSE <<[do |-> "move_sp", n |-> -n]>>
             \o [i \in 1 .. n |-> [do |-> "push", reg |-> Push(d)[i], at |-> i - 1]]

\* sp is back where it was before the registers are read from below it.
Epilogue_PopCount(d) ==
  IF Push(d) = <<>> THEN <<>>
  ELSE <<[do |-> "move_sp", n |-> Len(Push(d))]>>
         \o [i \in DOMAIN Pop(d) |-> [do |-> "pop", reg |-> Pop(d)[i], at |-> i - 1 - Len(Pop(d))]]
Epilogue(d) ==
  LET n == Len(Push(d))
  IN  IF n = 0 THEN <<>>
      ELSE <<[do |-> "move_sp", n |-> n]>>
             \o [i \in DOMAIN Pop(d) |-> [do |-> "pop", reg |-> Pop(d)[i], at |-> i - 1 - n]]

Jump_ThroughLr(d) == [do |-> "jmp_lr"]
Jump(d) == IF d.leaf THEN [do |-> "jmp_lr"] ELSE [do |-> "jmp_mem", at |-> -1]

SubCode_NoJump(d) == Prologue(d) \o d.body \o Epilogue(d)
SubCode(d) == Prologue(d) \o d.body \o Epilogue(d) \o <<Jump(d)>>

\* The script is its main code, an Exit and the subroutines it includes.
Start(x) == x.main \o <<[do |-> "exit"]>>
Called(s) == {y.sub : y \in {z \in Items(s) : z.do = "call"}}

-----------------------------------------------------------------------------
Init ==
  /\ script \in Scripts /\ phase = "define"
  /\ definition = [s \in Subs |-> None] /\ ndefs = 0 /\ included = 0
  /\ image = Start(script) /\ label = <<>> /\ pc = 1 /\ frames = <<>>
  /\ ram = [a \in Addrs |-> IF a = sp THEN StackTop ELSE 0]

Define ==
  LET d == script.defs[ndefs + 1]
  IN  /\ phase = "define" /\ ndefs < Len(script.defs)
      /\ IF definition[d.sub] = None
         THEN definition' = [definition EXCEPT ![d.sub] = d] /\ UNCHANGED phase
         ELSE phase' = "DuplicateDefError" /\ UNCHANGED definition
      /\ ndefs' = ndefs + 1
      /\ UNCHANGED <<script, included, image, label, machine>>

\* flat_code() comes to a subroutine: iterating one without a body is a MissingDefError.
Include ==
  LET s == script.parts[included + 1]
  IN  /\ phase = "define" /\ ndefs = Len(script.defs) /\ included < Len(script.parts)
      /\ IF definition[s] = None
         THEN phase' = "MissingDefError" /\ UNCHANGED <<image, label>>
         ELSE /\ image' = image \o SubCode(definition[s])
              /\ label' = [x \in DOMAIN label \cup {s} |-> IF x = s THEN Len(image) + 1 ELSE label[x]]
              /\ UNCHANGED phase
      /\ included' = included + 1
      /\ UNCHANGED <<script, definition, ndefs, machine>>

\* A label that is twice in the script is a DuplicateDefError, a branch to one that is
\* not in it a MissingDefError.
Assemble ==
  /\ phase = "define" /\ ndefs = Len(script.defs) /\ included = Len(script.parts)
  /\ phase' = IF ~IsInjective(script.parts) THEN "DuplicateDefError"
              ELSE IF ~(Called(image) \subseteq DOMAIN label) THEN "MissingDefError"
              ELSE "run"
  /\ UNCHANGED <<script, python, machine>>

-----------------------------------------------------------------------------
(* The machine. *)

Running(do) == phase = "run" /\ image[pc].do = do /\ UNCHANGED <<script, python>>

Write ==
  /\ Running("write")
  /\ \E v \in Values : ram' = [ram EXCEPT ![image[pc].reg] = v]
  /\ pc' = pc + 1 /\ UNCHANGED <<phase, frames>>

Maybe ==
  /\ Running("maybe")
  /\ \/ Len(frames) < MaxDepth /\ pc' = pc + 1
     \/ pc' = pc + 1 + image[pc].n
  /\ UNCHANGED <<phase, ram, frames>>

\* BrLnk: frames remembers the registers that the subroutine finds.
Call ==
  /\ Running("call")
  /\ ram' = [ram EXCEPT ![lr] = pc + 1]
  /\ pc' = label[image[pc].sub]
  /\ frames' = Append(frames, [sub |-> image[pc].sub, ret |-> pc + 1,
                  regs |-> [r \in definition[image[pc].sub].save \cup {sp} |-> ram'[r]]])
  /\ UNCHANGED phase

MoveSp ==
  /\ Running("move_sp")
  /\ ram' = [ram EXCEPT ![sp] = @ + image[pc].n]
  /\ phase' = IF ram[sp] + image[pc].n < StackEnd THEN "overflow" ELSE phase
  /\ pc' = pc + 1 /\ UNCHANGED frames

\* An address outside of RAM is an error of the host, which ends the run.
PushReg ==
  LET a == ram[sp] + image[pc].at
  IN  /\ Running("push")
      /\ IF a \in Addrs THEN ram' = [ram EXCEPT ![a] = ram[image[pc].reg]] /\ UNCHANGED phase
         ELSE phase' = "fault" /\ UNCHANGED ram
      /\ pc' = pc + 1 /\ UNCHANGED frames
PopReg ==
  LET a == ram[sp] + image[pc].at
  IN  /\ Running("pop")
      /\ IF a \in Addrs THEN ram' = [ram EXCEPT ![image[pc].reg] = ram[a]] /\ UNCHANGED phase
         ELSE phase' = "fault" /\ UNCHANGED ram
      /\ pc' = pc + 1 /\ UNCHANGED frames

ReturnAddress ==
  IF image[pc].do = "jmp_lr" THEN ram[lr]
  ELSE LET a == ram[sp] + image[pc].at IN IF a \in Addrs THEN ram[a] ELSE -1
Return ==
  /\ Running("jmp_lr") \/ Running("jmp_mem")
  /\ IF ReturnAddress \in DOMAIN image THEN pc' = ReturnAddress /\ UNCHANGED phase
     ELSE phase' = "fault" /\ UNCHANGED pc
  /\ frames' = IF frames = <<>> THEN frames ELSE Front(frames)
  /\ UNCHANGED ram

Exit ==
  /\ Running("exit")
  /\ phase' = "stopped" /\ UNCHANGED <<ram, pc, frames>>

Next ==
  \/ Define \/ Include \/ Assemble
  \/ Write \/ Maybe \/ Call \/ MoveSp \/ PushReg \/ PopReg \/ Return \/ Exit
Spec == Init /\ [][Next]_vars /\ WF_vars(Next)

-----------------------------------------------------------------------------
(* Properties. *)

\* The places and the frames fit the image, RAM holds numbers, no more calls are open
\* than the stack has words, and no access ever leaves the RAM or the code.
TypeOK ==
  /\ phase \in {"define", "run", "stopped", "overflow", "DuplicateDefError", "MissingDefError"}
  /\ ndefs \in 0 .. Len(script.defs) /\ included \in 0 .. Len(script.parts)
  /\ ram \in [Addrs -> Int]
  /\ phase = "run" => pc \in DOMAIN image
  /\ Len(frames) <= StackTop - StackEnd + 1
  /\ \A j \in DOMAIN frames : frames[j].sub \in DOMAIN label /\ frames[j].ret \in DOMAIN image

AtReturn == phase = "run" /\ image[pc].do \in {"jmp_lr", "jmp_mem"}

\* The finish jump of a subroutine goes behind the call that entered it, however
\* many calls the body made and whatever it wrote to lr.
ReturnsToCaller == AtReturn => frames # <<>> /\ ReturnAddress = Last(frames).ret

\* At the finish jump the saved registers and sp are what the subroutine found.
RegistersRestored ==
  AtReturn => \A r \in DOMAIN Last(frames).regs : ram[r] = Last(frames).regs[r]

\* While a call is being executed, the words its caller pushed stay as they are:
\* no prologue, body or epilogue of the callees reaches into them.
Pushed(f) == Push(definition[f.sub])
FramesIntact ==
  phase = "run" =>
    \A j \in 1 .. Len(frames) - 1 :
      LET f == frames[j]
          n == Len(Pushed(f))
      IN  /\ frames[j + 1].regs[sp] = f.regs[sp] - n
          /\ \A i \in 1 .. n :
               ram[f.regs[sp] - n + i - 1] =
                 IF ~definition[f.sub].leaf /\ i = n THEN f.ret ELSE f.regs[Pushed(f)[i]]

\* A script ends at its Exit, or is refused when it is built; the machine never
\* runs into unmapped memory or outside of the code.
Finishes == <>(phase \in {"stopped", "DuplicateDefError", "MissingDefError"})
=============================================================================
