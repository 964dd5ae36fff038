---------------------------- MODULE MCCycleGuard ----------------------------
EXTENDS CycleGuard

Op(t, s)     == [is |-> "op", tgts |-> t, srcs |-> s]
IMem(r, o)   == [is |-> "imem", ref |-> r, offset |-> o]
Expr(x, y)   == [is |-> "expr", a |-> x, b |-> y]
Offset(b, t) == [is |-> "offset", base |-> b, tgt |-> t]
Data(o)      == [is |-> "data", obj |-> o]
CodeAt(o, n) == [is |-> "codeat", obj |-> o, addr |-> n]
Mem(n)       == [is |-> "mem", addr |-> n]
Reg(n)       == [is |-> "reg", addr |-> n]
Label        == [is |-> "label"]
Imm          == [is |-> "imm"]

MCRam  == <<0, 8>>
MCCode == <<16, 24>>

MCGraphs == {
  \* a branch and a move
  [br |-> Op(<<>>, <<"off">>), off |-> Offset("br", "lab"), lab |-> Label,
   mov |-> Op(<<"r">>, <<"i">>), i |-> IMem("r", "n"), r |-> Reg(4), n |-> Imm],
  \* two conditional branches to each other, one of which compares a bad register
  [b |-> Op(<<>>, <<"r", "m", "o">>), o |-> Offset("b", "c"), r |-> Reg(4), m |-> Mem(20),
   c |-> Op(<<>>, <<"p", "bad">>), p |-> Offset("c", "b"), bad |-> Reg(12)],
  \* an indirect operand inside itself
  [mov |-> Op(<<"r">>, <<"i">>), i |-> IMem("r", "j"), j |-> IMem("r", "i"), r |-> Reg(4),
   add |-> Op(<<"r">>, <<"r", "r">>)],
  \* an operand used again and again, also as target and source
  [add |-> Op(<<"i">>, <<"i", "j", "i">>), i |-> IMem("r", "j"), j |-> IMem("r", "n"),
   r |-> Reg(4), n |-> Imm],
  \* expressions: one that is good, one that refers to itself
  [mov |-> Op(<<"m">>, <<"k">>), k |-> CodeAt("e", 16), e |-> Expr("lab", "n"), lab |-> Label,
   n |-> Imm, d |-> Data("e"), m |-> Mem(12)],
  [mov |-> Op(<<"r">>, <<"e">>), e |-> Expr("n", "e"), r |-> Reg(0), n |-> Imm,
   ld |-> Op(<<"r">>, <<"i">>), i |-> IMem("k", "i"), k |-> CodeAt("e", 16), d |-> Data("e")],
  \* operands nested too deep
  [mov |-> Op(<<"r">>, <<"i1">>), r |-> Reg(4), n |-> Imm,
   i1 |-> IMem("r", "i2"), i2 |-> IMem("r", "i3"), i3 |-> IMem("r", "i4"),
   i4 |-> IMem("r", "i5"), i5 |-> IMem("r", "n")]}
=============================================================================
