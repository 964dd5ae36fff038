------------------------------ MODULE MCScript ------------------------------
EXTENDS Script

(* The steps that make a piece of code. *)
Of(t)      == <<[is |-> "leaf", item |-> t]>>
I(id)      == Of([is |-> "inst", id |-> id, refs |-> {}, packed |-> FALSE])
Ref(id, l) == Of([is |-> "inst", id |-> id, refs |-> {l}, packed |-> FALSE])
Nothing    == Of([is |-> "none"])
True       == Of([is |-> "true"])
Stopped    == Of([is |-> "exit", packed |-> FALSE])
L(s)       == <<[is |-> "list"]>> \o FlattenSeq([k \in DOMAIN s |-> s[k] \o <<[is |-> "add"]>>])
Iter(s)    == L(s) \o <<[is |-> "iter"]>>
IfElse(c, a, b) == a \o b \o <<[is |-> "when", cond |-> c]>>
Switch(cs, codes, d) == FlattenSeq(codes) \o d \o <<[is |-> "case", conds |-> cs]>>
Packing(x) == x \o <<[is |-> "pack"]>>
S(code, exit) == [steps |-> L(code), add_exit |-> exit]

MCIds == {"a", "b", "c", "d", "e", "f", "g", "h", "m", "n", "y", "z"}
MCConds == {"p", "q", "r"}
X == <<"user", 0, 0>>

Blocks == {Nothing, L(<<>>), I("a"), L(<<I("a"), Stopped>>), Iter(<<I("a"), I("b")>>)}
Others == {Nothing, True, L(<<>>), I("c"), Stopped, L(<<I("c"), L(<<I("d")>>)>>)}
Switches ==
  {Switch(<<>>, <<>>, d) : d \in Others}
    \cup {Switch(<<"p">>, <<b>>, d) : b \in Blocks, d \in Others}
    \cup {Switch(<<"p", "q", "p">>, <<b, I("e"), I("f")>>, d) : b \in Blocks, d \in Others}
Whens == {IfElse("p", b, d) : b \in Blocks, d \in Others}
Nested ==
  {IfElse("q", s, Nothing) : s \in Switches \cup Whens}
    \cup {IfElse("r", I("g"), s) : s \in Switches \cup Whens}
    \cup {Switch(<<"q", "r">>, <<I("g"), s>>, L(<<I("h")>>)) : s \in Whens}
    \cup {IfElse("r", s, Switch(<<"q">>, <<I("g")>>, I("h"))) : s \in Whens}
Macros == Switches \cup Whens \cup Nested
MCScripts ==
  {S(<<m, I("z")>>, TRUE) : m \in Macros} \cup {S(<<m>>, TRUE) : m \in Macros}
    \cup {S(<<Packing(L(<<m, I("y")>>)), I("z"), Stopped>>, FALSE) : m \in Macros}
    \cup {S(<<m, I("z")>>, FALSE) : m \in Whens}
    \cup {S(<<Ref("m", X), w>>, TRUE) :
            w \in {IfElse("p", b, d) : b \in Blocks, d \in Others}}
    \cup {S(<<>>, TRUE)}
MCExtras == {[is |-> "label", at |-> X], [is |-> "inst", id |-> "n", refs |-> {}, packed |-> FALSE]}

\* The same code with an iterator in it that does not build at first.
RetryScripts == {S(<<Iter(<<I("a")>>), Ref("m", X)>>, TRUE)}
=============================================================================
