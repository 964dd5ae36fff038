-------------------------------- MODULE MCVm --------------------------------
(* Programs for a machine with three registers: R0 at 0, R1 at 4, R2 at 8.   *)
EXTENDS Vm

Imm(v)  == <<[mode |-> "imm", v |-> v]>>
M(a)    == <<[mode |-> "mem", v |-> a]>>
I(a, c) == <<[mode |-> "ind", v |-> a]>> \o c
R0 == M(0)  R1 == M(4)  R2 == M(8)

\* The assembler sets the m flag exactly when the encodings are equal.
Hand(op, m, ts, ss) == [op |-> op, m |-> m, tgts |-> ts, srcs |-> ss]
Asm(op, ts, ss) ==
  Hand(op, ts # <<>> /\ ss # <<>> /\ Head(ts) = Head(ss), ts, ss)
Prog(insts) == [insts |-> insts, cut |-> 0]
Cut(insts, n) == [insts |-> insts, cut |-> n]

Tgts == {R0, R1, M(2), M(9), M(16), I(4, Imm(0)), I(4, R2), I(4, I(8, Imm(4)))}
SrcsOf == Tgts \cup {Imm(-3), Imm(0)}
Some == {R0, R1, M(9), I(4, Imm(0))}

Binary ==
  {Prog(<<Asm(op, <<t>>, <<a, b>>)>>) :
     op \in {"ADD", "DIV"}, t \in Tgts, a \in SrcsOf, b \in {R1, M(11), I(4, R2), Imm(0)}}
Narrow ==
  {Prog(<<Asm(op, <<t>>, <<a>>)>>) :
     op \in {"ST_B", "ST_H", "LD_B", "LD_H_U"}, t \in Tgts \cup {M(10), M(11)}, a \in SrcsOf \cup {M(11)}}
Long ==
  {Prog(<<Asm("LONG_MUL", <<t, u>>, <<a, R1>>), Asm("EXIT", <<>>, <<R0>>)>>) :
     t \in Tgts, u \in Tgts, a \in {R0, R1, I(4, Imm(0))}}
Variadic ==
  {Prog(<<Asm(op, <<t>>, ss)>>) : op \in {"MAX", "AND"}, t \in Some,
     ss \in {<<>>, <<R0>>, <<R0, R1, Imm(1)>>, <<M(9), R0>>, <<R0, R0, R0, R0>>}}
Calls ==
  {Prog(<<Asm("SYS", ts, ss), Asm("EXIT", <<>>, <<R0>>)>>) :
     ts \in {<<>>, <<R0>>, <<I(4, Imm(0)), R1>>, <<M(9), R0>>, <<R0, R1, R2, R0>>},
     ss \in {<<>>, <<Imm(5)>>, <<Imm(6), R0>>, <<R0, M(9)>>, <<R0, R0, R0, R0>>}}
  \cup {Prog(<<Asm("SYS22", <<t, R1>>, <<Imm(f), t, I(4, R2)>>)>>) : t \in Some, f \in {5, 6}}

\* Loops, calls, runs off the code, and the errors the host runs on after.
Control ==
  { Prog(<<Asm("ADD", <<R0>>, <<R0, Imm(-1)>>), Asm("BR_NE", <<>>, <<R0, Imm(0), Imm(-7)>>),
           Asm("EXIT", <<>>, <<R1>>)>>),
    Prog(<<Asm("BR_LNK", <<R2>>, <<Imm(2)>>), Asm("EXIT", <<>>, <<R0>>),
           Asm("ADD", <<R0>>, <<R0, Imm(1)>>), Asm("JMP", <<>>, <<R2>>)>>),
    Prog(<<Asm("JMP_LNK", <<R2>>, <<Imm(21)>>), Asm("EXIT", <<>>, <<R0>>),
           Asm("MOV_GT", <<R0>>, <<R0, R1, Imm(1), R2>>), Asm("JMP", <<>>, <<R2>>)>>),
    Prog(<<Asm("JMP", <<>>, <<Imm(-1)>>)>>),
    Prog(<<Asm("BR", <<>>, <<Imm(100)>>)>>),
    Prog(<<Hand("NOP", TRUE, <<>>, <<>>), Hand("UNDEF", FALSE, <<>>, <<>>)>>),
    Prog(<<>>),
    Prog(<<Asm("REM_U", <<R0>>, <<R0, Imm(0)>>), Asm("SYS00", <<>>, <<Imm(6)>>),
           Asm("EXIT", <<>>, <<R0>>), Asm("MOV", <<R0>>, <<Imm(7)>>)>>) }

\* Images that end inside their last instruction.
Truncated ==
  {Cut(<<Asm("NOP", <<>>, <<>>), x>>, n) :
     x \in {Asm("ADD", <<I(4, R2)>>, <<R0, I(8, Imm(1))>>), Asm("ADD", <<R0>>, <<R0, R1>>),
            Asm("SYS", <<R0>>, <<Imm(5)>>), Asm("MAX", <<R0>>, <<R1, R0>>)},
     n \in 1 .. 5}

MCPrograms ==
  Binary \cup Narrow \cup Long \cup Variadic \cup Calls \cup Control \cup Truncated

\* What the theorems about errors and atomic steps assume of the programs.
ASSUME ProgramsAreAssembled == \A pr \in MCPrograms : Assembled(pr)

\* The m flag where there is no source to share: a hand-made instruction, and
\* images that end before the operand count of an optimized one.
BarePrograms ==
  {Prog(<<Hand("MAX", TRUE, <<I(9, Imm(0))>>, <<>>), Asm("EXIT", <<>>, <<R0>>)>>)}
  \cup {Cut(<<Asm("MAX", <<R0>>, <<R0, R1>>)>>, n) : n \in 1 .. 3}

WordBytes(v) == [b \in 0 .. 3 |-> (Unsigned(v) \div Values(b)) % Values(1)]
Ram(r) == [a \in 0 .. 11 |-> WordBytes(r[a \div 4 + 1])[a % 4]]
MCRams == {Ram(<<3, 8, -2>>), Ram(<<0, 4, 1>>), Ram(<<-128, -1, 2>>)}
MCFuncs == {5}
MCHostWords == {0, -7}
=============================================================================
