------------------------------ MODULE MCCodec ------------------------------
EXTENDS Codec

\* Numbers around every power of two, so around every size of a varint.
Pow(k)  == Zeros(k) \o <<1>>
Ones(k) == [i \in 1 .. k |-> 1]
Odd(k)  == <<1>> \o Zeros(k) \o <<1>>
Even(k) == <<0, 1>> \o Zeros(k) \o <<1>>
Addresses ==
  {Pow(k) : k \in 0 .. 31} \cup {Ones(k) : k \in 0 .. 32}
    \cup {Odd(k) : k \in 0 .. 30} \cup {Even(k) : k \in 0 .. 29}
Magnitudes == {Pow(k) : k \in 0 .. 33} \cup {Ones(k) : k \in 0 .. 34}
Integers32 == [neg : BOOLEAN, mag : Magnitudes]

Mem(a)  == <<[mode |-> "mem", v |-> a]>>
Ind(a, o) == <<[mode |-> "ind", v |-> a]>> \o o
Imm(v)  == <<[mode |-> "imm", v |-> v]>>
Lit(v)  == <<[mode |-> "lit", v |-> v]>>
Bool    == <<[mode |-> "bool", v |-> <<>>]>>
Reg(n)  == Mem(Bits(4 * n, 8))
Small(n)  == [neg |-> FALSE, mag |-> Bits(n, 8)]
Below(n) == [neg |-> TRUE, mag |-> Bits(n, 8)]
Call(c, t, s) == [op |-> c, tgts |-> t, srcs |-> s]

\* Every address and every immediate, in every place.
Values ==
  {Call("MOV", <<Mem(a)>>, <<s>>) : a \in Addresses, s \in {Reg(0), Lit(Small(1))}}
    \cup {Call("MOV", <<Reg(1)>>, <<Mem(a)>>) : a \in Addresses}
    \cup {Call("NEG", <<Mem(a)>>, <<Mem(a)>>) : a \in Addresses}
    \cup {Call("MOV", <<Reg(1)>>, <<Lit(v)>>) : v \in Integers32}
    \cup {Call("MOV", <<Reg(1)>>, <<Imm(v)>>) : v \in Integers32}
    \cup {Call("MOV", <<Ind(Bits(8, 8), Imm(v))>>, <<Reg(1)>>) : v \in Integers32}
    \cup {Call("MOV", <<Ind(a, Imm(Small(3)))>>, <<Ind(a, Mem(a))>>) : a \in Addresses}
\* Operands of every shape, the same or not in the first places.
Shapes ==
  {Reg(0), Reg(1), Mem(Bits(6, 8)), Ind(Bits(4, 8), Imm(Small(0))), Ind(Bits(4, 8), Imm(Below(3))),
   Ind(Bits(4, 8), Reg(0)), Ind(Bits(0, 8), Ind(Bits(4, 8), Reg(1)))}
Sources == Shapes \cup {Imm(Small(4)), Lit(Small(4)), Lit(Below(0)), Bool}
Pairs ==
  {Call("ADD", <<t>>, <<a, b>>) : t \in Shapes, a \in Sources, b \in Sources}
    \cup {Call("LONG_MUL", <<t, u>>, <<a, Reg(1)>>) : t \in Shapes, u \in Shapes, a \in Sources}
\* Every class with each number of operands its constructor takes.
Few == 0 .. MaxSrcs + 1
EveryClass ==
  UNION {{Call(x[1], t, s) : t \in {[j \in 1 .. x[2] |-> Reg(j)], [j \in 1 .. x[2] |-> Reg(2 * j)]},
                          s \in {[j \in 1 .. x[3] |-> Reg(j)], [j \in 1 .. x[3] |-> Lit(Small(70 * j))]}} :
         x \in {y \in Classes \X Few \X (0 .. 5) : Accepts(y[1], y[2], y[3])}}
MCCalls == Values \cup Pairs \cup EveryClass
=============================================================================
