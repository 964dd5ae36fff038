---------------------------- MODULE MCSubroutine ----------------------------
EXTENDS Subroutine

W(r) == [do |-> "write", reg |-> r]
C(s) == [do |-> "call", sub |-> s]
When(n) == [do |-> "maybe", n |-> n]
D(s, save, leaf, body) == [sub |-> s, save |-> save, leaf |-> leaf, body |-> body]
Run(defs, parts, main) == [defs |-> defs, parts |-> parts, main |-> main]

\* Two registers 0 and 1; lr is 2 and sp 3, so the stack is in 4 .. StackTop - 1:
\* four calls with up to three words each, and two words that nothing may touch.
SaveSets == {{}, {0}, {0, 1}, {1, 2}}
Leaf(save) == D("g", save, TRUE, <<W(0), W(1)>>)
\* Calls itself, perhaps twice, and another one.
Outer(save) == D("f", save, FALSE, <<W(1), When(2), C("f"), W(0), C("g")>>)
Mutual(save) == D("f", save, FALSE, <<W(0), When(1), C("g"), W(1)>>)
MCScripts ==
  {Run(<<Outer(s), Leaf(t)>>, <<"f", "g">>, <<W(0), C("f"), W(1), C("g")>>) :
     s \in SaveSets, t \in SaveSets}
  \cup {Run(<<Mutual(s), D("g", t, FALSE, <<When(1), C("f"), W(2), W(0)>>)>>, <<"g", "f">>,
            <<C("f"), C("g")>>) : s \in SaveSets, t \in SaveSets}
  \* Refused: defined twice, not defined, included twice, not included.
  \cup {Run(<<Leaf({}), Leaf({0})>>, <<"g">>, <<C("g")>>), Run(<<>>, <<"g">>, <<C("g")>>),
        Run(<<Leaf({})>>, <<"g", "g">>, <<C("g")>>), Run(<<Leaf({})>>, <<>>, <<C("g")>>)}
=============================================================================
