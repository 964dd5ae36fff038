------------------------------ MODULE MCLayout ------------------------------
(* Small programs around the points where an operand changes its size.       *)
EXTENDS Layout

MCObjs == 1 .. 9          \* 9 is the label, an instruction is named by its place
L == 9
Missing == 8              \* a label no program places

I(o, k, n, r, d) == [t |-> "inst", obj |-> o, kind |-> k, n |-> n, ref |-> r, off |-> d]
Data(o, n)  == I(o, "data", n, o, 0)
Plain(o, n) == I(o, "plain", n, o, 0)
Br(o, r)    == I(o, "branch", 0, r, 0)
MovImm(o)   == I(o, "imm", 1, L, 0)
MovMem(o, d) == I(o, "mem", 1, L, d)
Lab         == [t |-> "label", obj |-> L]
Al(n)       == [t |-> "align", n |-> n]
NoPad       == [t |-> "nopad"]

Opt(x) == {<<>>, <<x>>}

\* A branch over 27 to 32 bytes of data: the short form reaches 31 bytes.
Branches ==
  {pre \o <<Br(2, L)>> \o dir \o <<Data(3, n), Lab, Plain(4, 0)>> :
     pre \in {<<>>, <<Plain(1, 0)>>, <<Al(4), Plain(1, 0)>>},
     dir \in {<<>>, <<Al(4)>>, <<NoPad>>, <<Al(2), Al(8)>>, <<Al(4), NoPad>>},
     n \in 27 .. 32}

\* The same backwards, the branch being the last instruction.
Backwards ==
  {<<Lab, Data(1, n)>> \o dir \o <<Br(2, L)>> :
     n \in 27 .. 32, dir \in {<<>>, <<NoPad>>, <<Al(4)>>}}

\* The last instruction branches past the end: <<>> leaves room behind it, the
\* 44 bytes of data do not.
Ahead ==
  {<<Lab>> \o pre \o <<I(2, "branch", 0, L, d)>> :
     pre \in {<<>>, <<Al(4)>>, <<Data(1, 44)>>}, d \in {33, 34, 35, 77, 78, 79}}

\* test_oscill.py: operands that are shorter when the address is a multiple of 4.
Oscillating ==
  {head \o dir \o <<MovMem(3, 0), MovMem(4, 2), Plain(5, 1), Lab>> \o tail :
     head \in {<<MovImm(1), Plain(2, 3)>>, <<Br(8, L), MovImm(1), Plain(2, 1)>>},
     dir \in {<<>>, <<NoPad>>, <<Al(8)>>},
     tail \in {<<Data(6, 4), Data(7, 2)>>, <<Data(6, 4), Al(8), Data(7, 2)>>}}
AllNoPad ==
  {<<NoPad, MovImm(1), NoPad, Plain(2, 3), NoPad, MovMem(3, 0), NoPad, MovMem(4, 2),
     NoPad, Plain(5, 1), Lab, NoPad, Data(6, 4), NoPad, Data(7, 2)>>}

\* What check() and lay.check() refuse, and code without instructions.
Refused ==
  { <<Lab, Plain(1, 0), Lab, Plain(2, 0)>>, <<Plain(1, 0), Plain(1, 0)>>,
    <<Plain(1, 0), Lab>>, <<Br(1, Missing), Plain(2, 0)>>,
    <<MovMem(1, 8), Lab, Plain(2, 0)>>, <<Lab, Data(1, 64)>> }
Empty == { <<>>, <<Al(4), NoPad>> }

\* Every short sequence of items, legal or not.
Shapes(o) ==
  <<Br(o, L), Data(o, 27), Data(o, 30), MovMem(o, 1), Lab, Al(4), Al(3), NoPad>>
Sequences ==
  UNION {{[o \in 1 .. m |-> Shapes(o)[f[o]]] : f \in [1 .. m -> 1 .. 8]} : m \in 1 .. 4}

EmptyPrograms == {<<Plain(1, 0)>>} \cup Empty
AllPrograms ==
  Branches \cup Backwards \cup Ahead \cup Oscillating \cup AllNoPad \cup Refused \cup Empty
    \cup Sequences
=============================================================================
