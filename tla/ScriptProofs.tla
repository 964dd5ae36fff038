---------------------------- MODULE ScriptProofs ----------------------------
(***************************************************************************)
(* What holds of every script, whatever code, conditions and appended      *)
(* items: of any nesting of when(), case(), pack(), lists and iterators.   *)
(*                                                                         *)
(* Nested code is compared with flat code by plans.  A plan of flat code   *)
(* gives for each place what is still to be done there, such that each     *)
(* item fits what is before and behind it and each branch what is at its   *)
(* label (Plan).  Code means m (Means) if it has a plan from "m and then   *)
(* r" to r for every r, and branches to its own labels only; the macros    *)
(* keep this, code made of pieces has the plans of the pieces joined.  The *)
(* machine keeps to a plan of the whole: what it did and what its plan has *)
(* at the next item are together the meaning of the code (Progress).       *)
(***************************************************************************)
EXTENDS Script, SequenceTheorems, TLAPS

-----------------------------------------------------------------------------
(* Induction, as WordProofs has it: a predicate is the set of the numbers  *)
(* it holds for.                                                           *)

W == INSTANCE WordProofs WITH ByteBits <- 8

LEMMA SetInduction ==
  ASSUME NEW S, 0 \in S, \A n \in Nat : n \in S => n + 1 \in S
  PROVE  \A n \in Nat : n \in S
  BY W!SetInduction

-----------------------------------------------------------------------------
(* Sequences of sequences.                                                 *)

\* What the first j of the sequences s make.
Upto(s, j) == FlattenSeq(SubSeq(s, 1, j))

\* f[j] is what the first j of the sequences s make, for j up to n.
IsCat(f, n, s, X) ==
  /\ f \in [0 .. n -> Seq(X)] /\ f[0] = <<>>
  /\ \A i \in 0 .. n - 1 : f[i + 1] = f[i] \o s[i + 1]

LEMMA CatExists ==
  ASSUME NEW X, NEW s \in Seq(Seq(X))
  PROVE  \E f : IsCat(f, Len(s), s, X)
  <1> DEFINE Good == {n \in Nat : n <= Len(s) => \E f : IsCat(f, n, s, X)}
  <1>1. 0 \in Good
    <2>1. IsCat([i \in 0 .. 0 |-> <<>>], 0, s, X)
      BY DEF IsCat
    <2> QED BY <2>1
  <1>2. ASSUME NEW n \in Nat, n \in Good PROVE n + 1 \in Good
    <2> SUFFICES ASSUME n + 1 <= Len(s) PROVE \E f : IsCat(f, n + 1, s, X)
      OBVIOUS
    <2>1. n <= Len(s) /\ n + 1 \in DOMAIN s
      OBVIOUS
    <2>2. PICK f : IsCat(f, n, s, X)
      BY <1>2, <2>1
    <2>3. f \in [0 .. n -> Seq(X)] /\ s[n + 1] \in Seq(X) /\ n \in 0 .. n
      BY <2>1, <2>2 DEF IsCat
    <2>4. f[n] \o s[n + 1] \in Seq(X)
      BY <2>3
    <2> DEFINE g == [i \in 0 .. n + 1 |-> IF i = n + 1 THEN f[n] \o s[n + 1] ELSE f[i]]
    <2>5. g \in [0 .. n + 1 -> Seq(X)]
      <3>1. ASSUME NEW i \in 0 .. n + 1
            PROVE  (IF i = n + 1 THEN f[n] \o s[n + 1] ELSE f[i]) \in Seq(X)
        <4>1. CASE i = n + 1
          BY <4>1, <2>4
        <4>2. CASE i # n + 1
          <5>1. i \in 0 .. n
            BY <4>2
          <5> QED BY <4>2, <5>1, <2>3
        <4> QED BY <4>1, <4>2
      <3> QED BY <3>1
    <2>6. g[0] = <<>>
      <3>1. 0 \in 0 .. n + 1 /\ 0 # n + 1
        OBVIOUS
      <3> QED BY <2>2, <3>1 DEF IsCat
    <2>7. ASSUME NEW i \in 0 .. (n + 1) - 1 PROVE g[i + 1] = g[i] \o s[i + 1]
      <3>1. g[i] = f[i]
        <4>1. i \in 0 .. n + 1 /\ i # n + 1
          OBVIOUS
        <4> QED BY <4>1
      <3>2. CASE i = n
        <4>0. n + 1 \in 0 .. n + 1
          OBVIOUS
        <4>1. g[n + 1] = f[n] \o s[n + 1]
          BY <4>0, Zenon
        <4> HIDE DEF g
        <4> QED BY <3>1, <3>2, <4>1
      <3>3. CASE i # n
        <4>1. i \in 0 .. n - 1 /\ i + 1 \in 0 .. n + 1 /\ i + 1 # n + 1
          BY <3>3
        <4>2. g[i + 1] = f[i + 1]
          BY <4>1
        <4> HIDE DEF g
        <4> QED BY <3>1, <4>1, <4>2, <2>2 DEF IsCat
      <3> QED BY <3>2, <3>3
    <2>8. IsCat(g, n + 1, s, X)
      <3> HIDE DEF g
      <3> QED BY <2>5, <2>6, <2>7 DEF IsCat
    <2> QED BY <2>8
  <1>3. \A n \in Nat : n \in Good
    <2> HIDE DEF Good
    <2> QED BY <1>1, <1>2, SetInduction
  <1>4. Len(s) \in Nat /\ Len(s) <= Len(s)
    OBVIOUS
  <1> QED BY <1>3, <1>4

\* The function FlattenSeq() is defined with is the same.
FlattensBy(g, s) == g = [i \in 1 .. Len(s) |-> IF i = 1 THEN s[i] ELSE g[i - 1] \o s[i]]
LEMMA CatUnique ==
  ASSUME NEW X, NEW s \in Seq(Seq(X)), NEW f, IsCat(f, Len(s), s, X), NEW g, FlattensBy(g, s)
  PROVE  \A i \in 1 .. Len(s) : g[i] = f[i]
  <1> DEFINE Same == {i \in Nat : i \in 1 .. Len(s) => g[i] = f[i]}
  <1>1. 0 \in Same
    OBVIOUS
  <1>2. ASSUME NEW i \in Nat, i \in Same, i + 1 \in 1 .. Len(s) PROVE g[i + 1] = f[i + 1]
    <2>1. f[i + 1] = f[i] \o s[i + 1] /\ f[0] = <<>>
      <3>1. i \in 0 .. Len(s) - 1
        BY <1>2
      <3> QED BY <3>1 DEF IsCat
    <2>2. CASE i = 0
      <3>1. s[1] \in Seq(X) /\ 1 \in 1 .. Len(s)
        BY <1>2, <2>2
      <3>2. <<>> \o s[1] = s[1]
        BY <3>1
      <3>3. g[1] = s[1]
        BY <3>1, Zenon DEF FlattensBy
      <3>4. i + 1 = 1
        BY <2>2
      <3>5. f[1] = f[0] \o s[1]
        BY <2>1, <2>2, <3>4, Zenon
      <3>6. g[1] = f[1]
        BY <2>1, <3>2, <3>3, <3>5, Zenon
      <3> QED BY <3>4, <3>6, Zenon
    <2>3. CASE i # 0
      <3>1. i \in 1 .. Len(s) /\ (i + 1) - 1 = i /\ i + 1 # 1
        BY <1>2, <2>3
      <3>2. g[i] = f[i]
        BY <1>2, <3>1
      <3>3. g[i + 1] = IF i + 1 = 1 THEN s[i + 1] ELSE g[(i + 1) - 1] \o s[i + 1]
        BY <1>2, Zenon DEF FlattensBy
      <3>4. g[i + 1] = g[i] \o s[i + 1]
        BY <3>1, <3>3, Zenon
      <3> QED BY <2>1, <3>2, <3>4
    <2> QED BY <2>2, <2>3
  <1>3. ASSUME NEW i \in Nat, i \in Same PROVE i + 1 \in Same
    <2>1. i + 1 \in Nat
      OBVIOUS
    <2>2. i + 1 \in 1 .. Len(s) => g[i + 1] = f[i + 1]
      BY <1>2, <1>3, Zenon
    <2> QED BY <2>1, <2>2, Zenon
  <1>4. \A i \in Nat : i \in Same
    <2> HIDE DEF Same
    <2> QED BY <1>1, <1>3, SetInduction
  <1> QED BY <1>4

\* FlattenSeq() is defined by a function of 1 .. Len(s); there is but one.
LEMMA FlattenIsCat ==
  ASSUME NEW X, NEW s \in Seq(Seq(X)), NEW f, IsCat(f, Len(s), s, X), Len(s) # 0
  PROVE  FlattenSeq(s) = f[Len(s)]
  <1> DEFINE n == Len(s)
             Eqn(g) == g = [i \in 1 .. Len(s) |-> IF i = 1 THEN s[i] ELSE g[i - 1] \o s[i]]
             g0 == [i \in 1 .. Len(s) |-> f[i]]
             g1 == CHOOSE g : Eqn(g)
  <1>0. n \in Nat /\ n >= 1
    OBVIOUS
  <1>1. Eqn(g0)
    <2>1. ASSUME NEW i \in 1 .. Len(s)
          PROVE  f[i] = IF i = 1 THEN s[i] ELSE g0[i - 1] \o s[i]
      <3>1. i - 1 \in 0 .. Len(s) - 1 /\ (i - 1) + 1 = i
        OBVIOUS
      <3>2. f[i] = f[i - 1] \o s[i]
        BY <3>1 DEF IsCat
      <3>3. CASE i = 1
        <4>1. f[0] = <<>> /\ s[1] \in Seq(X)
          BY <1>0 DEF IsCat
        <4>2. <<>> \o s[1] = s[1]
          BY <4>1
        <4>3. i - 1 = 0
          BY <3>3
        <4> QED BY <3>2, <3>3, <4>1, <4>2, <4>3
      <3>4. CASE i # 1
        <4>1. i - 1 \in 1 .. Len(s)
          BY <3>4
        <4>2. g0[i - 1] = f[i - 1]
          BY <4>1
        <4> HIDE DEF g0
        <4> QED BY <3>2, <3>4, <4>2
      <3> QED BY <3>3, <3>4
    <2>2. g0 = [i \in 1 .. Len(s) |-> IF i = 1 THEN s[i] ELSE g0[i - 1] \o s[i]]
      BY <2>1
    <2> QED BY <2>2
  <1>2. Eqn(g1)
    <2> HIDE DEF Eqn, g0
    <2> QED BY <1>1
  <1>3. FlattenSeq(s) = g1[Len(s)]
    BY DEF FlattenSeq
  <1> HIDE DEF g1, g0
  <1>4. FlattensBy(g1, s)
    BY <1>2, Zenon DEF FlattensBy
  <1> HIDE DEF Eqn
  <1>5. \A i \in 1 .. Len(s) : g1[i] = f[i]
    BY <1>4, CatUnique
  <1>6. g1[n] = f[n]
    BY <1>0, <1>5
  <1> QED BY <1>3, <1>6

LEMMA UptoIsCat ==
  ASSUME NEW X, NEW s \in Seq(Seq(X)), NEW f, IsCat(f, Len(s), s, X), NEW j \in 0 .. Len(s)
  PROVE  Upto(s, j) = f[j]
  <1> DEFINE t == SubSeq(s, 1, j)
  <1>1. t \in Seq(Seq(X)) /\ Len(t) = j /\ \A i \in 1 .. j : t[i] = s[i]
    OBVIOUS
  <1> HIDE DEF t
  <1>2. CASE j = 0
    <2>1. t = <<>> /\ Len(t) = 0
      BY <1>1, <1>2
    <2>2. FlattenSeq(t) = t
      BY <2>1 DEF FlattenSeq
    <2> QED BY <1>2, <2>1, <2>2 DEF t, Upto, IsCat
  <1>3. CASE j # 0
    <2> DEFINE e == [i \in 0 .. j |-> f[i]]
    <2>1. IsCat(e, Len(t), t, X)
      <3>1. ASSUME NEW i \in 0 .. Len(t) - 1 PROVE e[i + 1] = e[i] \o t[i + 1]
        <4>1. i \in 0 .. Len(s) - 1 /\ i + 1 \in 1 .. j /\ i \in 0 .. j /\ i + 1 \in 0 .. j
          BY <1>1
        <4>2. f[i + 1] = f[i] \o s[i + 1]
          BY <4>1 DEF IsCat
        <4> QED BY <4>1, <4>2, <1>1
      <3>2. e \in [0 .. j -> Seq(X)]
        BY DEF IsCat
      <3>3. e[0] = <<>>
        BY DEF IsCat
      <3> HIDE DEF e
      <3> QED BY <3>1, <3>2, <3>3, <1>1 DEF IsCat
    <2>2. FlattenSeq(t) = e[Len(t)]
      <3> HIDE DEF e
      <3> QED BY <2>1, <1>1, <1>3, FlattenIsCat
    <2> QED BY <2>2, <1>1 DEF Upto, t
  <1> QED BY <1>2, <1>3

\* What FlattenSeq() makes of the first sequences, one after the other.
LEMMA UptoFacts ==
  ASSUME NEW X, NEW s \in Seq(Seq(X))
  PROVE  /\ Upto(s, 0) = <<>>
         /\ \A j \in 0 .. Len(s) : Upto(s, j) \in Seq(X)
         /\ \A j \in 0 .. Len(s) - 1 : Upto(s, j + 1) = Upto(s, j) \o s[j + 1]
         /\ Upto(s, Len(s)) = FlattenSeq(s)
  <1>1. PICK f : IsCat(f, Len(s), s, X)
    BY CatExists
  <1>2. \A j \in 0 .. Len(s) : Upto(s, j) = f[j]
    BY <1>1, UptoIsCat
  <1>3. SubSeq(s, 1, Len(s)) = s
    OBVIOUS
  <1>4. Upto(s, Len(s)) = FlattenSeq(s)
    BY <1>3 DEF Upto
  <1>5. Len(s) \in Nat
    OBVIOUS
  <1>6. \A j \in 0 .. Len(s) - 1 : j \in 0 .. Len(s) /\ j + 1 \in 0 .. Len(s)
    BY <1>5
  <1>7. \A j \in 0 .. Len(s) - 1 : Upto(s, j + 1) = Upto(s, j) \o s[j + 1]
    BY <1>1, <1>2, <1>6 DEF IsCat
  <1>8. Upto(s, 0) = <<>> /\ \A j \in 0 .. Len(s) : Upto(s, j) \in Seq(X)
    BY <1>1, <1>2, <1>5 DEF IsCat
  <1> QED BY <1>4, <1>7, <1>8

-----------------------------------------------------------------------------
(* Types.                                                                  *)

Effects == [does : Seq(Ids), exits : BOOLEAN]
Items ==
  [is : {"inst"}, id : Ids, refs : SUBSET Labels, packed : BOOLEAN]
    \cup [is : {"exit"}, packed : BOOLEAN] \cup [is : {"br"}, to : Labels, packed : BOOLEAN]
    \cup [is : {"brif"}, cond : Conds, on : BOOLEAN, to : Labels, packed : BOOLEAN]
    \cup [is : {"label"}, at : Labels] \cup [is : {"none", "true", "nopad"}]

\* What the code is made of are items.
LEMMA ItemTypes ==
  /\ Leaves \subseteq Items
  /\ \A l \in Labels : Label(l) \in Items /\ Br(l) \in Items
  /\ \A c \in Conds, on \in BOOLEAN, l \in Labels : BrIf(c, on, l) \in Items
  /\ NoPad \in Items
  /\ [is |-> "exit", packed |-> FALSE] \in Items
  <1>1. Leaves \subseteq Items
    BY DEF Leaves, Items
  <1>2. \A l \in Labels : Label(l) \in Items /\ Br(l) \in Items
    BY DEF Label, Br, Items
  <1>3. \A c \in Conds, on \in BOOLEAN, l \in Labels : BrIf(c, on, l) \in Items
    BY DEF BrIf, Items
  <1>4. NoPad \in Items
    BY DEF NoPad, Items
  <1>5. [is |-> "exit", packed |-> FALSE] \in Items
    BY DEF Items
  <1> QED BY <1>1, <1>2, <1>3, <1>4, <1>5

\* The labels of a call are labels.
LEMMA LabelTypes ==
  \A n \in Nat : Else(n) \in Labels /\ End(n) \in Labels /\ \A k \in Nat : <<"case", k, n>> \in Labels
  BY DEF Else, End, Labels

\* What pack() makes of an instruction is the same instruction.
LEMMA GivenItem ==
  ASSUME NEW x \in Items, IsInst(x)
  PROVE  /\ Given(x) \in Items /\ Given(x).is = x.is /\ IsInst(Given(x))
         /\ x.is = "inst" => Given(x).id = x.id
         /\ x.is \in {"br", "brif"} => Given(x).to = x.to
         /\ x.is = "brif" => Given(x).cond = x.cond /\ Given(x).on = x.on
  <1>1. CASE x \in [is : {"inst"}, id : Ids, refs : SUBSET Labels, packed : BOOLEAN]
    BY <1>1 DEF Given, IsInst, Items
  <1>2. CASE x \in [is : {"exit"}, packed : BOOLEAN]
    BY <1>2 DEF Given, IsInst, Items
  <1>3. CASE x \in [is : {"br"}, to : Labels, packed : BOOLEAN]
    BY <1>3 DEF Given, IsInst, Items
  <1>4. CASE x \in [is : {"brif"}, cond : Conds, on : BOOLEAN, to : Labels, packed : BOOLEAN]
    BY <1>4 DEF Given, IsInst, Items
  <1>5. CASE x \in [is : {"label"}, at : Labels]
    BY <1>5 DEF IsInst
  <1>6. CASE x \in [is : {"none", "true", "nopad"}]
    BY <1>6 DEF IsInst
  <1> QED BY <1>1, <1>2, <1>3, <1>4, <1>5, <1>6 DEF Items

\* The fields of each kind of item.
LEMMA ItemFields ==
  ASSUME NEW x \in Items
  PROVE  /\ x.is \in {"inst", "exit", "br", "brif", "label", "none", "true", "nopad"}
         /\ x.is = "inst" => x.id \in Ids
         /\ x.is = "label" => x.at \in Labels /\ x = Label(x.at)
         /\ x.is \in {"br", "brif"} => x.to \in Labels
         /\ x.is = "brif" => x.cond \in Conds
  <1>1. CASE x \in [is : {"inst"}, id : Ids, refs : SUBSET Labels, packed : BOOLEAN]
    BY <1>1
  <1>2. CASE x \in [is : {"exit"}, packed : BOOLEAN]
    BY <1>2
  <1>3. CASE x \in [is : {"br"}, to : Labels, packed : BOOLEAN]
    BY <1>3
  <1>4. CASE x \in [is : {"brif"}, cond : Conds, on : BOOLEAN, to : Labels, packed : BOOLEAN]
    BY <1>4
  <1>5. CASE x \in [is : {"label"}, at : Labels]
    BY <1>5 DEF Label
  <1>6. CASE x \in [is : {"none", "true", "nopad"}]
    BY <1>6
  <1> QED BY <1>1, <1>2, <1>3, <1>4, <1>5, <1>6 DEF Items

\* A function on 1 .. n is a sequence.
LEMMA FunctionIsSeq ==
  ASSUME NEW S, NEW n \in Nat, NEW g \in [1 .. n -> S]
  PROVE  g \in Seq(S) /\ Len(g) = n
  OBVIOUS

\* Sequences of items.
LEMMA ItemSeqs ==
  /\ \A x \in Items : <<x>> \in Seq(Items)
  /\ \A E, F \in Seq(Items) : E \o F \in Seq(Items)
  <1>1. ASSUME NEW S, NEW x \in S PROVE <<x>> \in Seq(S)
    OBVIOUS
  <1>2. ASSUME NEW S, NEW E \in Seq(S), NEW F \in Seq(S) PROVE E \o F \in Seq(S)
    OBVIOUS
  <1> QED BY <1>1, <1>2

LEMMA ItemsAssociative ==
  \A E, F, G \in Seq(Items) : E \o (F \o G) = (E \o F) \o G
  <1>1. ASSUME NEW S, NEW E \in Seq(S), NEW F \in Seq(S), NEW G \in Seq(S)
        PROVE  (E \o F) \o G = E \o (F \o G)
    BY ConcatAssociative
  <1>2. ASSUME NEW E \in Seq(Items), NEW F \in Seq(Items), NEW G \in Seq(Items)
        PROVE  E \o (F \o G) = (E \o F) \o G
    BY <1>1
  <1> QED BY <1>2

LEMMA ItemsAssociative4 ==
  ASSUME NEW a \in Seq(Items), NEW b \in Seq(Items), NEW c \in Seq(Items), NEW d \in Seq(Items)
  PROVE  a \o (b \o (c \o d)) = (a \o (b \o c)) \o d
  <1>1. b \o (c \o d) = (b \o c) \o d
    BY ItemsAssociative
  <1> DEFINE x == b \o c
  <1>2. x \in Seq(Items)
    BY ItemSeqs
  <1>3. b \o (c \o d) = x \o d
    BY <1>1
  <1> HIDE DEF x
  <1>4. a \o (x \o d) = (a \o x) \o d
    BY <1>2, ItemsAssociative
  <1>5. a \o (b \o (c \o d)) = (a \o x) \o d
    BY <1>3, <1>4
  <1> QED BY <1>5 DEF x

-----------------------------------------------------------------------------
(* Effects.                                                                *)

\* Then() makes effects of effects.
LEMMA EffectTypes ==
  /\ Nil \in Effects /\ Stop \in Effects /\ \A t \in Leaves : LeafMeans(t) \in Effects
  /\ \A a, b \in Effects : Then(a, b) \in Effects
  <1>1. Nil \in Effects /\ Stop \in Effects
    BY DEF Nil, Stop, Effects
  <1>2. ASSUME NEW t \in Leaves PROVE LeafMeans(t) \in Effects
    <2>1. t.is = "inst" => t.id \in Ids
      BY ItemTypes, ItemFields
    <2>2. CASE t.is = "inst"
      BY <2>1, <2>2 DEF LeafMeans, Effects
    <2>3. CASE t.is # "inst"
      BY <2>3, <1>1 DEF LeafMeans
    <2> QED BY <2>2, <2>3
  <1>3. ASSUME NEW a \in Effects, NEW b \in Effects PROVE Then(a, b) \in Effects
    <2>1. a.does \in Seq(Ids) /\ b.does \in Seq(Ids) /\ b.exits \in BOOLEAN
      BY DEF Effects
    <2>2. a.does \o b.does \in Seq(Ids)
      BY <2>1
    <2> QED BY <2>1, <2>2 DEF Then, Effects
  <1> QED BY <1>1, <1>2, <1>3

\* Then() is associative, Nil is neutral, and nothing comes after Stop.
LEMMA ThenFacts ==
  ASSUME NEW a \in Effects, NEW b \in Effects, NEW r \in Effects
  PROVE  /\ Then(Then(a, b), r) = Then(a, Then(b, r))
         /\ Then(Nil, r) = r /\ Then(Stop, r) = Stop /\ Then(a, Nil) = a
         /\ Then(a, r).does = IF a.exits THEN a.does ELSE a.does \o r.does
         /\ Then(a, r).exits = (a.exits \/ r.exits)
  <1>1. /\ a.does \in Seq(Ids) /\ b.does \in Seq(Ids) /\ r.does \in Seq(Ids)
        /\ a.exits \in BOOLEAN /\ b.exits \in BOOLEAN /\ r.exits \in BOOLEAN
        /\ a = [does |-> a.does, exits |-> a.exits] /\ r = [does |-> r.does, exits |-> r.exits]
    BY DEF Effects
  <1>2. (a.does \o b.does) \o r.does = a.does \o (b.does \o r.does)
    <2>1. ASSUME NEW x \in Seq(Ids), NEW y \in Seq(Ids), NEW z \in Seq(Ids)
          PROVE  (x \o y) \o z = x \o (y \o z)
      BY ConcatAssociative
    <2> QED BY <1>1, <2>1
  <1>3. <<>> \o r.does = r.does /\ a.does \o <<>> = a.does
    BY <1>1
  <1>4. Then(Then(a, b), r) = Then(a, Then(b, r))
    <2>1. CASE a.exits
      BY <2>1 DEF Then
    <2>2. CASE ~a.exits /\ b.exits
      BY <2>2 DEF Then
    <2>3. CASE ~a.exits /\ ~b.exits
      BY <2>3, <1>2 DEF Then
    <2> QED BY <2>1, <2>2, <2>3
  <1>5. Then(Nil, r) = r /\ Then(Stop, r) = Stop /\ Then(a, Nil) = a
    BY <1>1, <1>3 DEF Then, Nil, Stop
  <1>6. Then(a, r).does = IF a.exits THEN a.does ELSE a.does \o r.does
    BY DEF Then
  <1>7. Then(a, r).exits = (a.exits \/ r.exits)
    BY <1>1 DEF Then
  <1> QED BY <1>4, <1>5, <1>6, <1>7

-----------------------------------------------------------------------------
(* Runs of code.  f[k] is what is still to be done when the first k items  *)
(* are behind: a plan of the run.                                          *)

\* Item x turns what is to be done from a into b; J tells what is to be done at a
\* label that is branched to, v the values of the conditions.
Fits(v, x, a, b, J) ==
  /\ x.is \in {"inst", "exit"} => a = Then(LeafMeans(x), b)
  /\ x.is = "br" => <<x.to, a>> \in J
  /\ x.is = "brif" => IF v[x.cond] = x.on THEN <<x.to, a>> \in J ELSE a = b
  /\ ~IsInst(x) => a = b

\* Y tells of labels in the code E what is to be done at them.
Places(E, Y, f) == \A y \in Y : \E k \in 1 .. Len(E) : E[k] = Label(y[1]) /\ f[k - 1] = y[2]
Plan(v, E, J, Y, f) ==
  /\ f \in [0 .. Len(E) -> Effects]
  /\ \A k \in 1 .. Len(E) : Fits(v, E[k], f[k - 1], f[k], J)
  /\ Places(E, Y, f)
Runs(v, E, J, Y, s, r) == \E f : Plan(v, E, J, Y, f) /\ f[0] = s /\ f[Len(E)] = r

\* More may be known of labels that are branched to, less of labels placed.
LEMMA RunsMore ==
  ASSUME NEW v, NEW E, NEW J, NEW Y, NEW s, NEW r, Runs(v, E, J, Y, s, r),
         NEW K, J \subseteq K, NEW Z, Z \subseteq Y
  PROVE  Runs(v, E, K, Z, s, r)
  <1>1. PICK f : Plan(v, E, J, Y, f) /\ f[0] = s /\ f[Len(E)] = r
    BY DEF Runs
  <1>2. \A x, a, b : Fits(v, x, a, b, J) => Fits(v, x, a, b, K)
    BY DEF Fits
  <1>3. Plan(v, E, K, Z, f)
    <2>1. Places(E, Z, f)
      BY <1>1 DEF Plan, Places
    <2> QED BY <1>1, <1>2, <2>1 DEF Plan
  <1> QED BY <1>1, <1>3 DEF Runs

\* Code without items leaves what is to be done as it is.
LEMMA RunsEmpty ==
  ASSUME NEW v, NEW J, NEW s \in Effects
  PROVE  Runs(v, <<>>, J, {}, s, s)
  <1> DEFINE f == [i \in 0 .. 0 |-> s]
  <1>1. f \in [0 .. Len(<<>>) -> Effects] /\ f[0] = s /\ f[Len(<<>>)] = s
    OBVIOUS
  <1> HIDE DEF f
  <1>2. Plan(v, <<>>, J, {}, f)
    BY <1>1 DEF Plan, Places
  <1> QED BY <1>1, <1>2 DEF Runs

\* Code of one item.
LEMMA RunsOne ==
  ASSUME NEW v, NEW J, NEW s \in Effects, NEW r \in Effects, NEW x, Fits(v, x, s, r, J),
         NEW Y, \A y \in Y : x = Label(y[1]) /\ s = y[2]
  PROVE  Runs(v, <<x>>, J, Y, s, r)
  <1> DEFINE f == [i \in 0 .. 1 |-> IF i = 0 THEN s ELSE r]
             E == <<x>>
  <1>1. f \in [0 .. 1 -> Effects] /\ f[0] = s /\ f[1] = r
    OBVIOUS
  <1>2. Len(E) = 1 /\ E[1] = x
    OBVIOUS
  <1> HIDE DEF f, E
  <1>3. \A k \in 1 .. Len(E) : k = 1 /\ k - 1 = 0
    BY <1>2
  <1>4. \A k \in 1 .. Len(E) : Fits(v, E[k], f[k - 1], f[k], J)
    BY <1>1, <1>2, <1>3
  <1>5. Places(E, Y, f)
    <2> SUFFICES ASSUME NEW y \in Y PROVE \E k \in 1 .. Len(E) : E[k] = Label(y[1]) /\ f[k - 1] = y[2]
      BY DEF Places
    <2>1. 1 \in 1 .. Len(E) /\ 1 - 1 = 0
      BY <1>2
    <2>2. E[1] = Label(y[1]) /\ f[1 - 1] = y[2]
      BY <2>1, <1>1, <1>2
    <2> QED BY <2>1, <2>2
  <1>6. Plan(v, E, J, Y, f)
    BY <1>1, <1>2, <1>4, <1>5 DEF Plan
  <1>7. Runs(v, E, J, Y, s, r)
    BY <1>1, <1>2, <1>6 DEF Runs
  <1> QED BY <1>7 DEF E

\* One run after the other.
LEMMA RunsJoined ==
  ASSUME NEW v, NEW J, NEW E \in Seq(Items), NEW F \in Seq(Items), NEW Y, NEW Z,
         NEW s, NEW t, NEW r, Runs(v, E, J, Y, s, t), Runs(v, F, J, Z, t, r)
  PROVE  Runs(v, E \o F, J, Y \cup Z, s, r)
  <1>1. PICK f : Plan(v, E, J, Y, f) /\ f[0] = s /\ f[Len(E)] = t
    BY DEF Runs
  <1>2. PICK g : Plan(v, F, J, Z, g) /\ g[0] = t /\ g[Len(F)] = r
    BY DEF Runs
  <1> DEFINE m == Len(E)
             n == Len(F)
             G == E \o F
             h == [i \in 0 .. m + n |-> IF i <= m THEN f[i] ELSE g[i - m]]
  <1>3. m \in Nat /\ n \in Nat /\ G \in Seq(Items) /\ Len(G) = m + n
    OBVIOUS
  <1>4. /\ \A k \in 1 .. m : G[k] = E[k] /\ k \in 1 .. m + n
        /\ \A k \in 1 .. n : G[m + k] = F[k] /\ m + k \in 1 .. m + n
    OBVIOUS
  <1>5. /\ f \in [0 .. m -> Effects] /\ g \in [0 .. n -> Effects]
        /\ \A k \in 1 .. m : Fits(v, E[k], f[k - 1], f[k], J)
        /\ \A k \in 1 .. n : Fits(v, F[k], g[k - 1], g[k], J)
    BY <1>1, <1>2 DEF Plan
  <1>6. \A i \in 0 .. m : h[i] = f[i]
    BY <1>3
  <1>7. \A i \in 0 .. n : h[m + i] = g[i]
    <2> SUFFICES ASSUME NEW i \in 0 .. n PROVE h[m + i] = g[i]
      OBVIOUS
    <2>1. CASE i = 0
      <3>1. m + i = m /\ m \in 0 .. m
        BY <1>3, <2>1
      <3> HIDE DEF h, m
      <3> QED BY <1>1, <1>2, <1>6, <2>1, <3>1 DEF m
    <2>2. CASE i # 0
      <3>1. m + i \in 0 .. m + n /\ ~(m + i <= m) /\ (m + i) - m = i
        BY <1>3, <2>2
      <3> QED BY <3>1
    <2> QED BY <2>1, <2>2
  <1>8. h \in [0 .. Len(G) -> Effects]
    <2>1. ASSUME NEW i \in 0 .. m + n PROVE (IF i <= m THEN f[i] ELSE g[i - m]) \in Effects
      <3>1. CASE i <= m
        <4>1. i \in 0 .. m
          BY <3>1, <1>3
        <4> QED BY <3>1, <4>1, <1>5
      <3>2. CASE ~(i <= m)
        <4>1. i - m \in 0 .. n
          BY <3>2, <1>3
        <4> QED BY <3>2, <4>1, <1>5
      <3> QED BY <3>1, <3>2
    <2> QED BY <2>1, <1>3
  <1> HIDE DEF h, G, m, n
  <1>9. ASSUME NEW k \in 1 .. Len(G) PROVE Fits(v, G[k], h[k - 1], h[k], J)
    <2>1. CASE k <= m
      <3>1. k \in 1 .. m /\ k \in 0 .. m /\ k - 1 \in 0 .. m
        BY <2>1, <1>3
      <3> QED BY <3>1, <1>4, <1>5, <1>6
    <2>2. CASE ~(k <= m)
      <3>1. PICK i \in 1 .. n : k = m + i
        <4>1. k - m \in 1 .. n /\ k = m + (k - m)
          BY <2>2, <1>3
        <4> QED BY <4>1
      <3>2. i \in 0 .. n /\ i - 1 \in 0 .. n /\ k - 1 = m + (i - 1)
        BY <3>1, <1>3
      <3> QED BY <3>1, <3>2, <1>4, <1>5, <1>7
    <2> QED BY <2>1, <2>2
  <1>10. Places(G, Y \cup Z, h)
    <2> SUFFICES ASSUME NEW y \in Y \cup Z
                 PROVE  \E k \in 1 .. Len(G) : G[k] = Label(y[1]) /\ h[k - 1] = y[2]
      BY DEF Places
    <2>1. CASE y \in Y
      <3>1. PICK k \in 1 .. m : E[k] = Label(y[1]) /\ f[k - 1] = y[2]
        BY <2>1, <1>1 DEF Plan, Places, m
      <3>2. k - 1 \in 0 .. m
        BY <1>3
      <3> QED BY <3>1, <3>2, <1>3, <1>4, <1>6
    <2>2. CASE y \in Z
      <3>1. PICK k \in 1 .. n : F[k] = Label(y[1]) /\ g[k - 1] = y[2]
        BY <2>2, <1>2 DEF Plan, Places, n
      <3>2. k - 1 \in 0 .. n /\ (m + k) - 1 = m + (k - 1)
        BY <1>3
      <3>3. G[m + k] = Label(y[1]) /\ h[(m + k) - 1] = y[2]
        BY <3>1, <3>2, <1>4, <1>7
      <3> QED BY <3>3, <1>3, <1>4
    <2> QED BY <2>1, <2>2
  <1>11. Plan(v, G, J, Y \cup Z, h)
    BY <1>8, <1>9, <1>10 DEF Plan
  <1>12. h[0] = s /\ h[Len(G)] = r
    <2>1. 0 \in 0 .. m /\ n \in 0 .. n
      BY <1>3
    <2> QED BY <2>1, <1>1, <1>2, <1>3, <1>6, <1>7 DEF n
  <1> QED BY <1>11, <1>12 DEF Runs, G

\* What the first n of the sets Y hold.
Marks(Y, n) == UNION {Y[k] : k \in 1 .. n}

\* The pieces of code between the effects of a chain, flattened.
LEMMA RunsFlattened ==
  ASSUME NEW v, NEW J, NEW s \in Seq(Seq(Items)), NEW Y, NEW f \in [0 .. Len(s) -> Effects],
         \A k \in 1 .. Len(s) : Runs(v, s[k], J, Y[k], f[k - 1], f[k])
  PROVE  \A n \in 0 .. Len(s) : Runs(v, Upto(s, n), J, Marks(Y, n), f[0], f[n])
  <1> DEFINE Z(n) == Marks(Y, n)
             Good == {n \in Nat : n <= Len(s) => Runs(v, Upto(s, n), J, Z(n), f[0], f[n])}
  <1>0. Len(s) \in Nat
    OBVIOUS
  <1>1. 0 \in Good
    <2>1. Z(0) = {} /\ f[0] \in Effects
      BY <1>0 DEF Marks
    <2>2. Upto(s, 0) = <<>>
      BY UptoFacts
    <2>3. Runs(v, Upto(s, 0), J, Z(0), f[0], f[0])
      <3> HIDE DEF Z
      <3> QED BY <2>1, <2>2, RunsEmpty
    <2> QED BY <2>3
  <1>2. ASSUME NEW n \in Nat, n \in Good PROVE n + 1 \in Good
    <2> SUFFICES ASSUME n + 1 <= Len(s) PROVE Runs(v, Upto(s, n + 1), J, Z(n + 1), f[0], f[n + 1])
      OBVIOUS
    <2>1. n \in 0 .. Len(s) - 1 /\ n \in 0 .. Len(s) /\ n + 1 \in 1 .. Len(s) /\ (n + 1) - 1 = n
      BY <1>0
    <2>2. Z(n + 1) = Z(n) \cup Y[n + 1]
      <3>1. 1 .. n + 1 = (1 .. n) \cup {n + 1}
        OBVIOUS
      <3>2. {Y[k] : k \in (1 .. n) \cup {n + 1}} = {Y[k] : k \in 1 .. n} \cup {Y[n + 1]}
        OBVIOUS
      <3> QED BY <3>1, <3>2 DEF Marks
    <2>3. Runs(v, Upto(s, n), J, Z(n), f[0], f[n])
      BY <1>2, <2>1
    <2>4. Upto(s, n + 1) = Upto(s, n) \o s[n + 1] /\ Upto(s, n) \in Seq(Items) /\ s[n + 1] \in Seq(Items)
      BY <2>1, UptoFacts
    <2>5. Runs(v, s[n + 1], J, Y[n + 1], f[n], f[n + 1])
      BY <2>1
    <2> HIDE DEF Z
    <2>6. Runs(v, Upto(s, n) \o s[n + 1], J, Z(n) \cup Y[n + 1], f[0], f[n + 1])
      BY <2>3, <2>4, <2>5, RunsJoined, Zenon
    <2> QED BY <2>2, <2>4, <2>6, Zenon
  <1>3. \A n \in Nat : n \in Good
    <2> HIDE DEF Good
    <2> QED BY <1>1, <1>2, SetInduction
  <1>4. ASSUME NEW n \in 0 .. Len(s) PROVE Runs(v, Upto(s, n), J, Z(n), f[0], f[n])
    <2>1. n \in Nat /\ n <= Len(s)
      BY <1>0
    <2>2. n \in Good
      BY <2>1, <1>3
    <2> HIDE DEF Z
    <2> QED BY <2>1, <2>2
  <1> QED BY <1>4

-----------------------------------------------------------------------------
(* Code that means m: whatever is to be done after it, its items can be    *)
(* planned so that at first m is to be done and then that.  All the labels *)
(* that it branches to are its own.                                        *)

Closed(v, E, s, r) == \E Y \in SUBSET (Labels \X Effects) : Runs(v, E, Y, Y, s, r)
Means(v, E, m) == \A r \in Effects : Closed(v, E, Then(m, r), r)

\* The labels of two pieces of code are those of both.
LEMMA ClosedJoined ==
  ASSUME NEW v, NEW E \in Seq(Items), NEW F \in Seq(Items), NEW s, NEW t, NEW r,
         Closed(v, E, s, t), Closed(v, F, t, r)
  PROVE  Closed(v, E \o F, s, r)
  <1>1. PICK Y \in SUBSET (Labels \X Effects) : Runs(v, E, Y, Y, s, t)
    BY DEF Closed
  <1>2. PICK Z \in SUBSET (Labels \X Effects) : Runs(v, F, Z, Z, t, r)
    BY DEF Closed
  <1>3. Runs(v, E, Y \cup Z, Y, s, t) /\ Runs(v, F, Y \cup Z, Z, t, r)
    <2>1. Y \subseteq Y \cup Z /\ Z \subseteq Y \cup Z /\ Y \subseteq Y /\ Z \subseteq Z
      OBVIOUS
    <2> QED BY <1>1, <1>2, <2>1, RunsMore
  <1>4. Runs(v, E \o F, Y \cup Z, Y \cup Z, s, r)
    BY <1>3, RunsJoined
  <1>5. Y \cup Z \in SUBSET (Labels \X Effects)
    BY <1>1, <1>2
  <1> QED BY <1>4, <1>5 DEF Closed

LEMMA MeansEmpty == \A v : Means(v, <<>>, Nil)
  <1> SUFFICES ASSUME NEW v, NEW r \in Effects PROVE Closed(v, <<>>, Then(Nil, r), r)
    BY DEF Means
  <1>1. Then(Nil, r) = r
    BY EffectTypes, ThenFacts
  <1>2. Runs(v, <<>>, {}, {}, r, r)
    BY RunsEmpty
  <1>3. {} \in SUBSET (Labels \X Effects)
    OBVIOUS
  <1> QED BY <1>1, <1>2, <1>3 DEF Closed

\* A leaf means what LeafMeans() says.
LEMMA MeansLeaf ==
  ASSUME NEW v, NEW t \in Leaves
  PROVE  Means(v, <<t>>, LeafMeans(t))
  <1> SUFFICES ASSUME NEW r \in Effects PROVE Closed(v, <<t>>, Then(LeafMeans(t), r), r)
    BY DEF Means
  <1> DEFINE s == Then(LeafMeans(t), r)
  <1>1. s \in Effects /\ LeafMeans(t) \in Effects
    BY EffectTypes
  <1>2. t.is \in {"inst", "exit", "none", "true", "label"}
    BY DEF Leaves
  <1>3. Fits(v, t, s, r, {})
    <2>1. CASE t.is \in {"inst", "exit"}
      BY <2>1 DEF Fits, IsInst
    <2>2. CASE t.is \in {"none", "true", "label"}
      <3>1. LeafMeans(t) = Nil
        BY <2>2 DEF LeafMeans
      <3>2. s = r
        BY <3>1, EffectTypes, ThenFacts
      <3> HIDE DEF s
      <3> QED BY <2>2, <3>2 DEF Fits, IsInst
    <2> QED BY <1>2, <2>1, <2>2
  <1> HIDE DEF s
  <1>4. \A y \in {} : t = Label(y[1]) /\ s = y[2]
    OBVIOUS
  <1>5. Runs(v, <<t>>, {}, {}, s, r)
    BY <1>1, <1>3, <1>4, RunsOne
  <1>6. {} \in SUBSET (Labels \X Effects)
    OBVIOUS
  <1> QED BY <1>5, <1>6 DEF Closed, s

\* Code after code means one after the other.
LEMMA MeansJoined ==
  ASSUME NEW v, NEW E \in Seq(Items), NEW F \in Seq(Items), NEW m \in Effects, NEW n \in Effects,
         Means(v, E, m), Means(v, F, n)
  PROVE  Means(v, E \o F, Then(m, n))
  <1> SUFFICES ASSUME NEW r \in Effects PROVE Closed(v, E \o F, Then(Then(m, n), r), r)
    BY DEF Means
  <1>1. Then(Then(m, n), r) = Then(m, Then(n, r)) /\ Then(n, r) \in Effects
    BY ThenFacts, EffectTypes
  <1>2. Closed(v, F, Then(n, r), r) /\ Closed(v, E, Then(m, Then(n, r)), Then(n, r))
    BY <1>1 DEF Means
  <1> QED BY <1>1, <1>2, ClosedJoined

\* Code without items means nothing.
LEMMA EmptyMeans ==
  ASSUME NEW v, NEW m \in Effects, Means(v, <<>>, m)
  PROVE  m = Nil
  <1>1. Closed(v, <<>>, Then(m, Nil), Nil)
    BY EffectTypes DEF Means
  <1>2. PICK Y : Runs(v, <<>>, Y, Y, Then(m, Nil), Nil)
    BY <1>1 DEF Closed
  <1>3. PICK f : f[0] = Then(m, Nil) /\ f[Len(<<>>)] = Nil
    BY <1>2 DEF Runs
  <1>4. Len(<<>>) = 0
    OBVIOUS
  <1> QED BY <1>3, <1>4, EffectTypes, ThenFacts

-----------------------------------------------------------------------------
(* The items that the macros add.                                          *)

\* A label places what is to be done at it.
LEMMA RunsLabel ==
  ASSUME NEW v, NEW J, NEW l, NEW s \in Effects
  PROVE  Runs(v, <<Label(l)>>, J, {<<l, s>>}, s, s)
  <1>1. Fits(v, Label(l), s, s, J)
    BY DEF Fits, Label, IsInst
  <1>2. \A y \in {<<l, s>>} : Label(l) = Label(y[1]) /\ s = y[2]
    OBVIOUS
  <1> QED BY <1>1, <1>2, RunsOne

\* Behind a branch anything may be to be done.
LEMMA RunsBr ==
  ASSUME NEW v, NEW J, NEW l, NEW s \in Effects, NEW r \in Effects, <<l, s>> \in J
  PROVE  Runs(v, <<Br(l)>>, J, {}, s, r)
  <1>1. Fits(v, Br(l), s, r, J)
    BY DEF Fits, Br, IsInst
  <1>2. \A y \in {} : Br(l) = Label(y[1]) /\ s = y[2]
    OBVIOUS
  <1> QED BY <1>1, <1>2, RunsOne

\* A conditional branch needs a plan for the way that the conditions choose.
LEMMA FitsBrIf ==
  ASSUME NEW v, NEW J, NEW c, NEW on, NEW l, NEW s, NEW r,
         IF v[c] = on THEN <<l, s>> \in J ELSE s = r
  PROVE  Fits(v, BrIf(c, on, l), s, r, J)
  BY DEF Fits, BrIf, IsInst

LEMMA RunsBrIf ==
  ASSUME NEW v, NEW J, NEW c, NEW on, NEW l, NEW s \in Effects, NEW r \in Effects,
         IF v[c] = on THEN <<l, s>> \in J ELSE s = r
  PROVE  Runs(v, <<BrIf(c, on, l)>>, J, {}, s, r)
  <1>1. Fits(v, BrIf(c, on, l), s, r, J)
    BY FitsBrIf
  <1>2. \A y \in {} : BrIf(c, on, l) = Label(y[1]) /\ s = y[2]
    OBVIOUS
  <1> QED BY <1>1, <1>2, RunsOne

\* when(): the branch, the one block, the branch behind it, the other block.
LEMMA WhenMeaning ==
  ASSUME NEW v \in [Conds -> BOOLEAN], NEW c \in Conds, NEW n \in Nat, NEW falsy \in BOOLEAN,
         NEW E \in Seq(Items), NEW F \in Seq(Items), NEW a \in Effects, NEW b \in Effects,
         Means(v, E, a), Means(v, F, b), falsy => b = Nil
  PROVE  /\ When(c, E, F, falsy, n) \in Seq(Items)
         /\ Means(v, When(c, E, F, falsy, n), IF v[c] THEN a ELSE b)
  <1> DEFINE el == Else(n)
             en == End(n)
             G == When(c, E, F, falsy, n)
             m == IF v[c] THEN a ELSE b
  <1>1. el \in Labels /\ en \in Labels /\ v[c] \in BOOLEAN
    BY LabelTypes
  <1>2. CASE falsy
    <2>1. G = (<<BrIf(c, FALSE, en)>> \o E) \o <<Label(en)>>
      BY <1>2 DEF When
    <2>2. <<BrIf(c, FALSE, en)>> \in Seq(Items) /\ <<Label(en)>> \in Seq(Items)
      <3>1. BrIf(c, FALSE, en) \in Items /\ Label(en) \in Items
        BY <1>1, ItemTypes
      <3> HIDE DEF en
      <3> QED BY <3>1, ItemSeqs
    <2> HIDE DEF el, en, G
    <2>3. <<BrIf(c, FALSE, en)>> \o E \in Seq(Items) /\ G \in Seq(Items)
      BY <2>1, <2>2, ItemSeqs
    <2>4. ASSUME NEW r \in Effects PROVE Closed(v, G, Then(m, r), r)
      <3>1. PICK Y \in SUBSET (Labels \X Effects) : Runs(v, E, Y, Y, Then(a, r), r)
        BY DEF Means, Closed
      <3> DEFINE J == Y \cup {<<en, r>>}
      <3>2. Runs(v, E, J, Y, Then(a, r), r)
        <4>1. Y \subseteq J /\ Y \subseteq Y
          OBVIOUS
        <4> QED BY <3>1, <4>1, RunsMore
      <3>3. Then(m, r) \in Effects /\ Then(a, r) \in Effects
        BY EffectTypes
      <3>4. Runs(v, <<BrIf(c, FALSE, en)>>, J, {}, Then(m, r), Then(a, r))
        <4>1. CASE v[c]
          <5>1. m = a
            BY <4>1
          <5> HIDE DEF J, m
          <5> QED BY <4>1, <5>1, <3>3, RunsBrIf
        <4>2. CASE ~v[c]
          <5>1. Then(m, r) = r
            BY <4>2, <1>2, ThenFacts, EffectTypes
          <5>2. <<en, r>> \in J /\ v[c] = FALSE
            BY <4>2, <1>1
          <5> HIDE DEF J, m
          <5> QED BY <5>1, <5>2, <3>3, RunsBrIf
        <4> QED BY <4>1, <4>2
      <3>5. Runs(v, <<Label(en)>>, J, {<<en, r>>}, r, r)
        BY RunsLabel
      <3> HIDE DEF m
      <3>6. Runs(v, <<BrIf(c, FALSE, en)>> \o E, J, {} \cup Y, Then(m, r), r)
        <4> HIDE DEF J
        <4> QED BY <2>2, <3>2, <3>4, RunsJoined
      <3>7. Runs(v, G, J, ({} \cup Y) \cup {<<en, r>>}, Then(m, r), r)
        <4> HIDE DEF J
        <4> QED BY <2>1, <2>2, <2>3, <3>5, <3>6, RunsJoined
      <3>8. ({} \cup Y) \cup {<<en, r>>} = J /\ J \in SUBSET (Labels \X Effects)
        BY <1>1, <3>1
      <3> HIDE DEF J
      <3> QED BY <3>7, <3>8 DEF Closed
    <2> HIDE DEF m
    <2> QED BY <2>3, <2>4 DEF Means, G, m
  <1>3. CASE ~falsy
    <2> DEFINE A == <<BrIf(c, FALSE, el)>>
               B == <<Br(en)>>
               C == <<Label(el)>>
               D == <<Label(en)>>
    <2>1. A \in Seq(Items) /\ B \in Seq(Items) /\ C \in Seq(Items) /\ D \in Seq(Items)
      <3>1. BrIf(c, FALSE, el) \in Items /\ Br(en) \in Items /\ Label(el) \in Items /\ Label(en) \in Items
        BY <1>1, ItemTypes
      <3> HIDE DEF en, el
      <3> QED BY <3>1, ItemSeqs
    <2>2. G = (((A \o E) \o (B \o C)) \o F) \o D
      <3>1. <<Br(en), Label(el)>> = B \o C
        OBVIOUS
      <3> QED BY <1>3, <3>1 DEF When
    <2> HIDE DEF el, en, G
    <2> HIDE DEF A, B, C, D
    <2>4. /\ A \o E \in Seq(Items) /\ B \o C \in Seq(Items)
          /\ (A \o E) \o (B \o C) \in Seq(Items)
          /\ ((A \o E) \o (B \o C)) \o F \in Seq(Items)
          /\ G \in Seq(Items)
      BY <2>1, <2>2, ItemSeqs
    <2>5. ASSUME NEW r \in Effects PROVE Closed(v, G, Then(m, r), r)
      <3>1. PICK Y \in SUBSET (Labels \X Effects) : Runs(v, E, Y, Y, Then(a, r), r)
        BY DEF Means, Closed
      <3>2. PICK Z \in SUBSET (Labels \X Effects) : Runs(v, F, Z, Z, Then(b, r), r)
        BY DEF Means, Closed
      <3> DEFINE ye == <<el, Then(b, r)>>
                 yn == <<en, r>>
                 J == ((({} \cup Y) \cup ({} \cup {ye})) \cup Z) \cup {yn}
      <3>3. Runs(v, E, J, Y, Then(a, r), r) /\ Runs(v, F, J, Z, Then(b, r), r)
        <4>1. Y \subseteq J /\ Y \subseteq Y /\ Z \subseteq J /\ Z \subseteq Z
          OBVIOUS
        <4> HIDE DEF J
        <4> QED BY <3>1, <3>2, <4>1, RunsMore
      <3>4. Then(m, r) \in Effects /\ Then(a, r) \in Effects /\ Then(b, r) \in Effects
        BY EffectTypes
      <3>5. yn \in J /\ ye \in J
        OBVIOUS
      <3>6. Runs(v, A, J, {}, Then(m, r), Then(a, r))
        <4>1. CASE v[c]
          <5>1. m = a
            BY <4>1
          <5> HIDE DEF J, m
          <5> QED BY <4>1, <5>1, <3>4, RunsBrIf DEF A
        <4>2. CASE ~v[c]
          <5>1. m = b /\ v[c] = FALSE
            BY <4>2, <1>1
          <5> HIDE DEF J, m
          <5> QED BY <5>1, <3>5, <3>4, RunsBrIf DEF A
        <4> QED BY <4>1, <4>2
      <3>7. Runs(v, B, J, {}, r, Then(b, r)) /\ Runs(v, C, J, {ye}, Then(b, r), Then(b, r))
            /\ Runs(v, D, J, {yn}, r, r)
        <4> HIDE DEF J
        <4>1. Runs(v, B, J, {}, r, Then(b, r))
          BY <3>4, <3>5, RunsBr DEF B
        <4>2. Runs(v, C, J, {ye}, Then(b, r), Then(b, r))
          BY <3>4, RunsLabel DEF C
        <4>3. Runs(v, D, J, {yn}, r, r)
          BY RunsLabel DEF D
        <4> QED BY <4>1, <4>2, <4>3
      <3>8. J \in SUBSET (Labels \X Effects)
        BY <1>1, <3>1, <3>2, <3>4
      <3>9. Runs(v, G, J, J, Then(m, r), r)
        <4> DEFINE K == J
        <4>1. J = ((({} \cup Y) \cup ({} \cup {ye})) \cup Z) \cup {yn}
          OBVIOUS
        <4> HIDE DEF J, m, ye, yn
        <4>2. Runs(v, A \o E, J, {} \cup Y, Then(m, r), r)
          BY <2>1, <3>3, <3>6, RunsJoined
        <4>3. Runs(v, B \o C, J, {} \cup {ye}, r, Then(b, r))
          BY <2>1, <3>7, RunsJoined
        <4>4. Runs(v, (A \o E) \o (B \o C), J, ({} \cup Y) \cup ({} \cup {ye}), Then(m, r), Then(b, r))
          BY <2>4, <4>2, <4>3, RunsJoined
        <4>5. Runs(v, ((A \o E) \o (B \o C)) \o F, J, (({} \cup Y) \cup ({} \cup {ye})) \cup Z,
                   Then(m, r), r)
          BY <2>4, <3>3, <4>4, RunsJoined
        <4>6. Runs(v, (((A \o E) \o (B \o C)) \o F) \o D, J,
                   ((({} \cup Y) \cup ({} \cup {ye})) \cup Z) \cup {yn}, Then(m, r), r)
          BY <2>1, <2>4, <3>7, <4>5, RunsJoined
        <4> QED BY <2>2, <4>1, <4>6
      <3> HIDE DEF J
      <3> QED BY <3>8, <3>9 DEF Closed
    <2> HIDE DEF m
    <2> QED BY <2>4, <2>5 DEF Means, G, m
  <1> QED BY <1>2, <1>3

-----------------------------------------------------------------------------
(* Rewriting code item by item.                                            *)

\* The pieces of s do what the items of code do.
Replaces(v, s, code) ==
  \A k \in 1 .. Len(code), a, b \in Effects : \A J, Z :
    (Fits(v, code[k], a, b, J) /\ \A y \in Z : code[k] = Label(y[1]) /\ a = y[2])
      => Runs(v, s[k], J, Z, a, b)

\* Then the pieces, flattened, mean what code means.
LEMMA Rewriting ==
  ASSUME NEW v, NEW code \in Seq(Items), NEW s \in Seq(Seq(Items)), Len(s) = Len(code),
         Replaces(v, s, code), NEW m, Means(v, code, m)
  PROVE  Means(v, FlattenSeq(s), m)
  <1> SUFFICES ASSUME NEW r \in Effects PROVE Closed(v, FlattenSeq(s), Then(m, r), r)
    BY DEF Means
  <1>1. PICK Y \in SUBSET (Labels \X Effects) : Runs(v, code, Y, Y, Then(m, r), r)
    BY DEF Means, Closed
  <1>2. PICK f : Plan(v, code, Y, Y, f) /\ f[0] = Then(m, r) /\ f[Len(code)] = r
    BY <1>1 DEF Runs
  <1> DEFINE Z == [k \in 1 .. Len(s) |-> {y \in Y : code[k] = Label(y[1]) /\ f[k - 1] = y[2]}]
  <1>3. Len(s) \in Nat /\ f \in [0 .. Len(s) -> Effects]
    BY <1>2 DEF Plan
  <1>4. ASSUME NEW k \in 1 .. Len(s) PROVE Runs(v, s[k], Y, Z[k], f[k - 1], f[k])
    <2>1. k \in 1 .. Len(code) /\ k - 1 \in 0 .. Len(s) /\ k \in 0 .. Len(s)
      BY <1>3
    <2>2. Fits(v, code[k], f[k - 1], f[k], Y)
      BY <2>1, <1>2 DEF Plan
    <2>3. \A y \in Z[k] : code[k] = Label(y[1]) /\ f[k - 1] = y[2]
      OBVIOUS
    <2>4. f[k - 1] \in Effects /\ f[k] \in Effects
      BY <2>1, <1>3
    <2> HIDE DEF Z
    <2> QED BY <2>1, <2>2, <2>3, <2>4, Zenon DEF Replaces
  <1>5. Y \subseteq UNION {Z[k] : k \in 1 .. Len(s)}
    <2> SUFFICES ASSUME NEW y \in Y PROVE \E k \in 1 .. Len(s) : y \in Z[k]
      OBVIOUS
    <2>1. PICK k \in 1 .. Len(code) : code[k] = Label(y[1]) /\ f[k - 1] = y[2]
      BY <1>2 DEF Plan, Places
    <2> QED BY <2>1
  <1> HIDE DEF Z
  <1>6. Len(s) \in 0 .. Len(s)
    BY <1>3
  <1>7. Runs(v, Upto(s, Len(s)), Y, UNION {Z[k] : k \in 1 .. Len(s)}, f[0], f[Len(s)])
    <2>1. Runs(v, Upto(s, Len(s)), Y, Marks(Z, Len(s)), f[0], f[Len(s)])
      BY <1>3, <1>4, <1>6, RunsFlattened
    <2> QED BY <2>1 DEF Marks
  <1>8. Upto(s, Len(s)) = FlattenSeq(s)
    BY UptoFacts
  <1>9. Runs(v, FlattenSeq(s), Y, Y, Then(m, r), r)
    <2>1. Y \subseteq Y
      OBVIOUS
    <2>2. f[0] = Then(m, r) /\ f[Len(s)] = r
      BY <1>2
    <2>3. Runs(v, FlattenSeq(s), Y, UNION {Z[k] : k \in 1 .. Len(s)}, Then(m, r), r)
      BY <1>7, <1>8, <2>2
    <2> QED BY <1>5, <2>1, <2>3, RunsMore
  <1> QED BY <1>1, <1>9 DEF Closed

LEMMA FlattenedType ==
  ASSUME NEW s \in Seq(Seq(Items))
  PROVE  FlattenSeq(s) \in Seq(Items)
  <1>1. Len(s) \in 0 .. Len(s)
    OBVIOUS
  <1> QED BY <1>1, UptoFacts

\* The pieces that pack() and _code_as_list() make of the items.
PackPiece(x) == IF IsInst(x) THEN <<NoPad, Given(x)>> ELSE <<x>>
KeptPiece(x) == IF x.is \in {"none", "true"} THEN <<>> ELSE <<x>>
PackPieces(code) == [k \in DOMAIN code |-> PackPiece(code[k])]
KeptPieces(code) == [k \in DOMAIN code |-> KeptPiece(code[k])]

\* Pack() and Kept() flatten these pieces.
LEMMA PieceTypes ==
  ASSUME NEW code \in Seq(Items)
  PROVE  /\ PackPieces(code) \in Seq(Seq(Items)) /\ Len(PackPieces(code)) = Len(code)
         /\ KeptPieces(code) \in Seq(Seq(Items)) /\ Len(KeptPieces(code)) = Len(code)
         /\ \A k \in 1 .. Len(code) : /\ PackPieces(code)[k] = PackPiece(code[k])
                                      /\ KeptPieces(code)[k] = KeptPiece(code[k])
         /\ Pack(code) = FlattenSeq(PackPieces(code)) /\ Kept(code) = FlattenSeq(KeptPieces(code))
  <1>1. ASSUME NEW x \in Items PROVE PackPiece(x) \in Seq(Items) /\ KeptPiece(x) \in Seq(Items)
    <2>1. <<x>> \in Seq(Items) /\ <<>> \in Seq(Items)
      BY ItemSeqs
    <2>2. IsInst(x) => <<NoPad, Given(x)>> \in Seq(Items)
      <3> SUFFICES ASSUME IsInst(x) PROVE <<NoPad, Given(x)>> \in Seq(Items)
        OBVIOUS
      <3>1. NoPad \in Items /\ Given(x) \in Items
        BY ItemTypes, GivenItem
      <3>2. \A a, b \in Items : <<a, b>> \in Seq(Items)
        <4>1. ASSUME NEW S, NEW a \in S, NEW b \in S PROVE <<a, b>> \in Seq(S)
          OBVIOUS
        <4> QED BY <4>1
      <3> QED BY <3>1, <3>2
    <2> QED BY <2>1, <2>2 DEF PackPiece, KeptPiece
  <1>2. DOMAIN code = 1 .. Len(code) /\ Len(code) \in Nat /\ \A k \in 1 .. Len(code) : code[k] \in Items
    OBVIOUS
  <1>3. ASSUME NEW n \in Nat, NEW g, g \in [1 .. n -> Seq(Items)] PROVE g \in Seq(Seq(Items)) /\ Len(g) = n
    BY <1>3
  <1>4. PackPieces(code) \in [1 .. Len(code) -> Seq(Items)] /\ KeptPieces(code) \in [1 .. Len(code) -> Seq(Items)]
    BY <1>1, <1>2 DEF PackPieces, KeptPieces
  <1>5. /\ PackPieces(code) \in Seq(Seq(Items)) /\ Len(PackPieces(code)) = Len(code)
        /\ KeptPieces(code) \in Seq(Seq(Items)) /\ Len(KeptPieces(code)) = Len(code)
    BY <1>2, <1>3, <1>4
  <1>6. \A k \in 1 .. Len(code) : /\ PackPieces(code)[k] = PackPiece(code[k])
                                  /\ KeptPieces(code)[k] = KeptPiece(code[k])
    BY <1>2 DEF PackPieces, KeptPieces
  <1>7. Pack(code) = FlattenSeq(PackPieces(code)) /\ Kept(code) = FlattenSeq(KeptPieces(code))
    BY DEF Pack, Kept, PackPieces, KeptPieces, PackPiece, KeptPiece
  <1> QED BY <1>5, <1>6, <1>7

\* pack() does not change what code means.
LEMMA PackMeaning ==
  ASSUME NEW v, NEW code \in Seq(Items), NEW m, Means(v, code, m)
  PROVE  Pack(code) \in Seq(Items) /\ Means(v, Pack(code), m)
  <1> DEFINE s == PackPieces(code)
  <1>1. ASSUME NEW k \in 1 .. Len(code), NEW a \in Effects, NEW b \in Effects, NEW J, NEW Z,
               Fits(v, code[k], a, b, J), \A y \in Z : code[k] = Label(y[1]) /\ a = y[2]
        PROVE  Runs(v, PackPiece(code[k]), J, Z, a, b)
    <2> DEFINE x == code[k]
    <2>1. x \in Items
      OBVIOUS
    <2> HIDE DEF x
    <2>2. CASE ~IsInst(x)
      <3>1. Runs(v, <<x>>, J, Z, a, b)
        BY <1>1, RunsOne DEF x
      <3> QED BY <2>2, <3>1 DEF PackPiece, x
    <2>3. CASE IsInst(x)
      <3>1. Z = {}
        <4>1. \A y \in Z : x = Label(y[1])
          BY <1>1 DEF x
        <4>2. \A y \in Z : FALSE
          BY <2>3, <4>1 DEF IsInst, Label
        <4> QED BY <4>2
      <3>2. Fits(v, NoPad, a, a, J)
        BY DEF Fits, NoPad, IsInst
      <3>3. Fits(v, Given(x), a, b, J)
        <4>1. LeafMeans(Given(x)) = LeafMeans(x)
          BY <2>1, <2>3, GivenItem DEF LeafMeans
        <4>2. Fits(v, x, a, b, J)
          BY <1>1 DEF x
        <4> QED BY <2>1, <2>3, <4>1, <4>2, GivenItem DEF Fits
      <3>4. \A y \in {} : NoPad = Label(y[1]) /\ a = y[2]
        OBVIOUS
      <3>5. \A y \in {} : Given(x) = Label(y[1]) /\ a = y[2]
        OBVIOUS
      <3>6. Runs(v, <<NoPad>>, J, {}, a, a)
        BY <3>2, <3>4, RunsOne
      <3>7. Runs(v, <<Given(x)>>, J, {}, a, b)
        BY <3>3, <3>5, RunsOne
      <3>8. <<NoPad>> \in Seq(Items) /\ <<Given(x)>> \in Seq(Items)
        BY <2>1, <2>3, ItemTypes, GivenItem, ItemSeqs
      <3>9. Runs(v, <<NoPad>> \o <<Given(x)>>, J, {} \cup {}, a, b)
        BY <3>6, <3>7, <3>8, RunsJoined
      <3>10. PackPiece(x) = <<NoPad>> \o <<Given(x)>>
        <4>1. <<NoPad, Given(x)>> = <<NoPad>> \o <<Given(x)>>
          OBVIOUS
        <4> QED BY <2>3, <4>1 DEF PackPiece
      <3>11. {} \cup {} = Z
        BY <3>1
      <3> QED BY <3>9, <3>10, <3>11 DEF x
    <2> QED BY <2>2, <2>3
  <1>2. Replaces(v, PackPieces(code), code)
    BY <1>1, PieceTypes DEF Replaces
  <1>3. Means(v, FlattenSeq(PackPieces(code)), m)
    BY <1>2, PieceTypes, Rewriting
  <1>4. FlattenSeq(PackPieces(code)) \in Seq(Items)
    BY PieceTypes, FlattenedType
  <1> QED BY <1>3, <1>4, PieceTypes

\* Nor does dropping None and True.
LEMMA KeptMeaning ==
  ASSUME NEW v, NEW code \in Seq(Items), NEW m, Means(v, code, m)
  PROVE  Kept(code) \in Seq(Items) /\ Means(v, Kept(code), m)
  <1>1. ASSUME NEW k \in 1 .. Len(code), NEW a \in Effects, NEW b \in Effects, NEW J, NEW Z,
               Fits(v, code[k], a, b, J), \A y \in Z : code[k] = Label(y[1]) /\ a = y[2]
        PROVE  Runs(v, KeptPiece(code[k]), J, Z, a, b)
    <2> DEFINE x == code[k]
    <2> HIDE DEF x
    <2>1. CASE x.is \notin {"none", "true"}
      <3>1. Runs(v, <<x>>, J, Z, a, b)
        BY <1>1, RunsOne DEF x
      <3> QED BY <2>1, <3>1 DEF KeptPiece, x
    <2>2. CASE x.is \in {"none", "true"}
      <3>1. Z = {}
        <4>1. \A y \in Z : x = Label(y[1])
          BY <1>1 DEF x
        <4>2. \A y \in Z : FALSE
          BY <2>2, <4>1 DEF Label
        <4> QED BY <4>2
      <3>2. a = b
        BY <1>1, <2>2 DEF Fits, IsInst, x
      <3>3. Runs(v, <<>>, J, {}, a, a)
        BY RunsEmpty
      <3> QED BY <2>2, <3>1, <3>2, <3>3 DEF KeptPiece, x
    <2> QED BY <2>1, <2>2
  <1>2. Replaces(v, KeptPieces(code), code)
    BY <1>1, PieceTypes DEF Replaces
  <1>3. Means(v, FlattenSeq(KeptPieces(code)), m)
    BY <1>2, PieceTypes, Rewriting
  <1>4. FlattenSeq(KeptPieces(code)) \in Seq(Items)
    BY PieceTypes, FlattenedType
  <1> QED BY <1>3, <1>4, PieceTypes

-----------------------------------------------------------------------------
(* case(): a chain of tests, then the default, then the blocks.            *)

\* Every set of naturals that is not empty has a smallest element.
LEMMA LeastOf ==
  ASSUME NEW T, T \subseteq Nat, T # {}
  PROVE  \E n \in T : \A k \in T : n <= k
  <1> SUFFICES ASSUME ~ \E n \in T : \A k \in T : n <= k PROVE FALSE
    OBVIOUS
  <1> DEFINE S == {n \in Nat : \A k \in T : n < k}
  <1>1. 0 \in S
    OBVIOUS
  <1>2. ASSUME NEW n \in Nat, n \in S PROVE n + 1 \in S
    <2>1. n + 1 \notin T
      BY <1>2
    <2> QED BY <1>2, <2>1
  <1>3. \A n \in Nat : n \in S
    <2> HIDE DEF S
    <2> QED BY <1>1, <1>2, SetInduction
  <1>4. PICK k \in T : TRUE
    OBVIOUS
  <1>5. k \in S
    BY <1>3
  <1> QED BY <1>5

\* The first condition behind number k that is true.
FirstTrue(v, conds, k) ==
  {j \in k + 1 .. Len(conds) : v[conds[j]] /\ \A i \in k + 1 .. j - 1 : ~v[conds[i]]}
\* What is to be done after k tests: e[j] for case j, or d.
After(v, conds, e, d, k) ==
  IF FirstTrue(v, conds, k) = {} THEN d ELSE e[CHOOSE j : j \in FirstTrue(v, conds, k)]

\* A test decides, or leaves the choice to those behind it.
LEMMA FirstTrueFacts ==
  ASSUME NEW v, NEW conds \in Seq(Conds), NEW k \in 0 .. Len(conds)
  PROVE  /\ \A i, j \in FirstTrue(v, conds, k) : i = j
         /\ FirstTrue(v, conds, Len(conds)) = {}
         /\ k < Len(conds) /\ v[conds[k + 1]] => k + 1 \in FirstTrue(v, conds, k)
         /\ k < Len(conds) /\ ~v[conds[k + 1]] => FirstTrue(v, conds, k) = FirstTrue(v, conds, k + 1)
  <1>0. Len(conds) \in Nat /\ k \in Nat
    OBVIOUS
  <1>1. ASSUME NEW i \in FirstTrue(v, conds, k), NEW j \in FirstTrue(v, conds, k) PROVE i = j
    <2>1. /\ i \in Int /\ j \in Int /\ k + 1 <= i /\ k + 1 <= j
          /\ v[conds[i]] /\ v[conds[j]]
      BY <1>0 DEF FirstTrue
    <2>2. ~ (i < j)
      <3> SUFFICES ASSUME i < j PROVE FALSE
        OBVIOUS
      <3>1. i \in k + 1 .. j - 1
        BY <1>0, <2>1
      <3> QED BY <3>1, <2>1 DEF FirstTrue
    <2>3. ~ (j < i)
      <3> SUFFICES ASSUME j < i PROVE FALSE
        OBVIOUS
      <3>1. j \in k + 1 .. i - 1
        BY <1>0, <2>1
      <3> QED BY <3>1, <2>1 DEF FirstTrue
    <2> QED BY <2>1, <2>2, <2>3
  <1>2. FirstTrue(v, conds, Len(conds)) = {}
    BY <1>0 DEF FirstTrue
  <1>3. ASSUME k < Len(conds), v[conds[k + 1]] PROVE k + 1 \in FirstTrue(v, conds, k)
    <2>1. k + 1 \in k + 1 .. Len(conds) /\ \A i \in k + 1 .. (k + 1) - 1 : FALSE
      BY <1>0, <1>3
    <2> QED BY <1>3, <2>1 DEF FirstTrue
  <1>4. ASSUME k < Len(conds), ~v[conds[k + 1]] PROVE FirstTrue(v, conds, k) = FirstTrue(v, conds, k + 1)
    <2>1. ASSUME NEW j \in FirstTrue(v, conds, k) PROVE j \in FirstTrue(v, conds, k + 1)
      <3>1. j # k + 1 /\ j \in k + 1 .. Len(conds)
        BY <1>4 DEF FirstTrue
      <3>2. j \in (k + 1) + 1 .. Len(conds)
        BY <1>0, <3>1
      <3>3. \A i \in (k + 1) + 1 .. j - 1 : i \in k + 1 .. j - 1
        BY <1>0
      <3> QED BY <3>2, <3>3 DEF FirstTrue
    <2>2. ASSUME NEW j \in FirstTrue(v, conds, k + 1) PROVE j \in FirstTrue(v, conds, k)
      <3>1. j \in (k + 1) + 1 .. Len(conds) /\ j \in k + 1 .. Len(conds)
        BY <1>0 DEF FirstTrue
      <3>2. \A i \in k + 1 .. j - 1 : i = k + 1 \/ i \in (k + 1) + 1 .. j - 1
        BY <1>0
      <3> QED BY <1>4, <3>1, <3>2 DEF FirstTrue
    <2> QED BY <2>1, <2>2
  <1> QED BY <1>1, <1>2, <1>3, <1>4

\* What CaseMeans() chooses is the first condition that is true.
Chosen(v, conds, e, d) ==
  IF \E k \in DOMAIN conds : v[conds[k]]
  THEN e[CHOOSE k \in DOMAIN conds : v[conds[k]] /\ \A j \in 1 .. k - 1 : ~v[conds[j]]]
  ELSE d
\* The tests, in order, choose as CaseMeans() does.
LEMMA ChosenIsFirst ==
  ASSUME NEW v, NEW conds \in Seq(Conds), NEW e, NEW d
  PROVE  Chosen(v, conds, e, d) = After(v, conds, e, d, 0)
  <1>0. Len(conds) \in Nat /\ DOMAIN conds = 1 .. Len(conds) /\ 0 + 1 = 1
    OBVIOUS
  <1>1. \A k : k \in FirstTrue(v, conds, 0)
               <=> k \in DOMAIN conds /\ v[conds[k]] /\ \A j \in 1 .. k - 1 : ~v[conds[j]]
    BY <1>0 DEF FirstTrue
  <1>2. CASE ~ \E k \in DOMAIN conds : v[conds[k]]
    <2>1. FirstTrue(v, conds, 0) = {}
      BY <1>1, <1>2
    <2> QED BY <1>2, <2>1 DEF Chosen, After
  <1>3. CASE \E k \in DOMAIN conds : v[conds[k]]
    <2> DEFINE T == {k \in 1 .. Len(conds) : v[conds[k]]}
    <2>1. T \subseteq Nat /\ T # {}
      BY <1>0, <1>3
    <2>2. PICK n \in T : \A k \in T : n <= k
      <3> HIDE DEF T
      <3> QED BY <2>1, LeastOf
    <2>3. \A j \in 1 .. n - 1 : ~v[conds[j]]
      <3> SUFFICES ASSUME NEW j \in 1 .. n - 1, v[conds[j]] PROVE FALSE
        OBVIOUS
      <3>1. n \in 1 .. Len(conds)
        BY <2>2
      <3>2. j \in 1 .. Len(conds) /\ ~ (n <= j)
        BY <3>1, <1>0
      <3>3. j \in T
        BY <3>2
      <3> QED BY <2>2, <3>2, <3>3
    <2>4. n \in FirstTrue(v, conds, 0)
      BY <1>0, <1>1, <2>2, <2>3
    <2> DEFINE P(k) == v[conds[k]] /\ \A j \in 1 .. k - 1 : ~v[conds[j]]
               c == CHOOSE k \in DOMAIN conds : P(k)
               b == CHOOSE k : k \in FirstTrue(v, conds, 0)
    <2>5. c \in FirstTrue(v, conds, 0)
      <3>1. n \in DOMAIN conds /\ P(n)
        BY <1>1, <2>4
      <3>2. c \in DOMAIN conds /\ P(c)
        <4> HIDE DEF P
        <4> QED BY <3>1
      <3> HIDE DEF c
      <3> QED BY <1>1, <3>2
    <2>6. b \in FirstTrue(v, conds, 0)
      BY <2>4
    <2>7. 0 \in 0 .. Len(conds)
      BY <1>0
    <2> HIDE DEF b, c
    <2>8. c = b
      BY <2>5, <2>6, <2>7, FirstTrueFacts
    <2>9. Chosen(v, conds, e, d) = e[c]
      BY <1>3 DEF Chosen, c
    <2>10. After(v, conds, e, d, 0) = e[b]
      BY <2>4 DEF After, b
    <2> QED BY <2>8, <2>9, <2>10
  <1> QED BY <1>2, <1>3

Tests(conds, n) == [k \in DOMAIN conds |-> BrIf(conds[k], TRUE, <<"case", k, n>>)]

\* The tests branch to the label of the case that is chosen, or come to the default.
LEMMA RunsTests ==
  ASSUME NEW v \in [Conds -> BOOLEAN], NEW conds \in Seq(Conds), NEW n \in Nat,
         NEW e \in [1 .. Len(conds) -> Effects], NEW d \in Effects, NEW J,
         \A k \in 1 .. Len(conds) : <<<<"case", k, n>>, e[k]>> \in J
  PROVE  /\ Tests(conds, n) \in Seq(Items)
         /\ Runs(v, Tests(conds, n), J, {}, After(v, conds, e, d, 0), d)
  <1> DEFINE N == Len(conds)
             E == Tests(conds, n)
             f == [k \in 0 .. N |-> After(v, conds, e, d, k)]
  <1>0. N \in Nat /\ DOMAIN conds = 1 .. N /\ \A k \in 1 .. N : conds[k] \in Conds /\ k \in Nat
    OBVIOUS
  <1>1. E \in Seq(Items) /\ Len(E) = N /\ \A k \in 1 .. N : E[k] = BrIf(conds[k], TRUE, <<"case", k, n>>)
    <2>1. \A k \in 1 .. N : BrIf(conds[k], TRUE, <<"case", k, n>>) \in Items
      BY <1>0, LabelTypes, ItemTypes
    <2>2. E \in [1 .. N -> Items]
      BY <1>0, <2>1 DEF Tests
    <2>3. \A k \in 1 .. N : E[k] = BrIf(conds[k], TRUE, <<"case", k, n>>)
      BY <1>0 DEF Tests
    <2> HIDE DEF E, N
    <2> QED BY <1>0, <2>2, <2>3, FunctionIsSeq
  <1>2. ASSUME NEW k \in 0 .. N PROVE After(v, conds, e, d, k) \in Effects
    <2>1. CASE FirstTrue(v, conds, k) = {}
      BY <2>1 DEF After
    <2>2. CASE FirstTrue(v, conds, k) # {}
      <3> DEFINE j == CHOOSE j : j \in FirstTrue(v, conds, k)
      <3>1. j \in FirstTrue(v, conds, k)
        BY <2>2
      <3>2. j \in 1 .. N
        <4> HIDE DEF j
        <4> QED BY <1>0, <3>1 DEF FirstTrue
      <3>3. After(v, conds, e, d, k) = e[j]
        BY <2>2 DEF After
      <3> HIDE DEF j
      <3> QED BY <3>2, <3>3
    <2> QED BY <2>1, <2>2
  <1>3. f \in [0 .. Len(E) -> Effects] /\ \A k \in 0 .. N : f[k] = After(v, conds, e, d, k)
    BY <1>1, <1>2
  <1> HIDE DEF f, E
  <1>4. ASSUME NEW k \in 1 .. Len(E) PROVE Fits(v, E[k], f[k - 1], f[k], J)
    <2> DEFINE l == <<"case", k, n>>
    <2>1. PICK p \in 0 .. N : k = p + 1 /\ k - 1 = p /\ p < N /\ k \in 1 .. N /\ k \in 0 .. N
      <3>1. k - 1 \in 0 .. N /\ k = (k - 1) + 1 /\ k - 1 < N /\ k \in 1 .. N /\ k \in 0 .. N
        BY <1>0, <1>1
      <3> QED BY <3>1
    <2>2. E[k] = BrIf(conds[k], TRUE, l) /\ <<l, e[k]>> \in J /\ v[conds[k]] \in BOOLEAN
      BY <1>0, <1>1, <2>1
    <2>3. f[p] = After(v, conds, e, d, p) /\ f[k] = After(v, conds, e, d, k)
      BY <1>3, <2>1
    <2> HIDE DEF l
    <2>4. IF v[conds[k]] = TRUE THEN <<l, f[p]>> \in J ELSE f[p] = f[k]
      <3>1. CASE v[conds[k]]
        <4>1. k \in FirstTrue(v, conds, p)
          BY <2>1, <3>1, FirstTrueFacts
        <4> DEFINE b == CHOOSE j : j \in FirstTrue(v, conds, p)
        <4>2. b \in FirstTrue(v, conds, p)
          BY <4>1
        <4>3. After(v, conds, e, d, p) = e[b]
          BY <4>1 DEF After
        <4> HIDE DEF b
        <4>4. \A i, j \in FirstTrue(v, conds, p) : i = j
          BY <2>1, FirstTrueFacts
        <4>5. b = k
          BY <4>1, <4>2, <4>4, Zenon
        <4> QED BY <2>2, <2>3, <3>1, <4>3, <4>5
      <3>2. CASE ~v[conds[k]]
        <4>1. FirstTrue(v, conds, p) = FirstTrue(v, conds, k)
          BY <2>1, <3>2, FirstTrueFacts
        <4>2. After(v, conds, e, d, p) = After(v, conds, e, d, k)
          BY <4>1 DEF After
        <4> QED BY <2>2, <2>3, <3>2, <4>2
      <3> QED BY <3>1, <3>2, <2>2
    <2>5. Fits(v, E[k], f[p], f[k], J)
      BY <2>2, <2>4, FitsBrIf
    <2> QED BY <2>1, <2>5
  <1>5. Places(E, {}, f)
    BY DEF Places
  <1>6. Plan(v, E, J, {}, f)
    BY <1>3, <1>4, <1>5 DEF Plan
  <1>7. f[0] = After(v, conds, e, d, 0) /\ f[Len(E)] = d
    <2>1. 0 \in 0 .. N /\ N \in 0 .. N
      BY <1>0
    <2>2. After(v, conds, e, d, N) = d
      BY <2>1, FirstTrueFacts DEF After
    <2> QED BY <1>1, <1>3, <2>1, <2>2
  <1>8. Runs(v, E, J, {}, After(v, conds, e, d, 0), d)
    BY <1>6, <1>7 DEF Runs
  <1> QED BY <1>1, <1>8 DEF E

LEMMA TestTypes ==
  ASSUME NEW conds \in Seq(Conds), NEW n \in Nat
  PROVE  Tests(conds, n) \in Seq(Items)
  <1>1. Len(conds) \in Nat /\ DOMAIN conds = 1 .. Len(conds)
    OBVIOUS
  <1>2. ASSUME NEW k \in 1 .. Len(conds) PROVE BrIf(conds[k], TRUE, <<"case", k, n>>) \in Items
    <2>1. k \in Nat /\ conds[k] \in Conds /\ TRUE \in BOOLEAN
      BY <1>1
    <2> DEFINE l == <<"case", k, n>>
    <2>2. l \in Labels
      BY <2>1, LabelTypes
    <2> HIDE DEF l
    <2>3. BrIf(conds[k], TRUE, l) \in Items
      BY <2>1, <2>2, ItemTypes
    <2> QED BY <2>3 DEF l
  <1>3. Tests(conds, n) \in [1 .. Len(conds) -> Items]
    BY <1>1, <1>2 DEF Tests
  <1> QED BY <1>1, <1>3, FunctionIsSeq

\* The condition whose block CaseMeans() chooses is one of them.
Picked(v, conds) == CHOOSE k \in DOMAIN conds : v[conds[k]] /\ \A j \in 1 .. k - 1 : ~v[conds[j]]

LEMMA ChosenIsPicked ==
  ASSUME NEW v, NEW conds \in Seq(Conds), \E k \in DOMAIN conds : v[conds[k]]
  PROVE  /\ Picked(v, conds) \in 1 .. Len(conds)
         /\ \A e, d : Chosen(v, conds, e, d) = e[Picked(v, conds)]
  <1> DEFINE P(k) == v[conds[k]] /\ \A j \in 1 .. k - 1 : ~v[conds[j]]
             S == {k \in 1 .. Len(conds) : v[conds[k]]}
  <1>1. S \subseteq Nat /\ S # {}
    OBVIOUS
  <1>2. PICK k \in S : \A j \in S : k <= j
    <2> HIDE DEF S
    <2> QED BY <1>1, LeastOf
  <1>3. k \in 1 .. Len(conds) /\ Len(conds) \in Nat /\ v[conds[k]]
    OBVIOUS
  <1>4. ASSUME NEW j \in 1 .. k - 1 PROVE ~v[conds[j]]
    <2>1. j \in 1 .. Len(conds) /\ ~ (k <= j)
      BY <1>3
    <2> QED BY <1>2, <2>1
  <1>5. k \in DOMAIN conds /\ P(k)
    BY <1>3, <1>4
  <1>6. Picked(v, conds) \in DOMAIN conds
    <2>1. Picked(v, conds) = CHOOSE i \in DOMAIN conds : P(i)
      BY DEF Picked
    <2> HIDE DEF P
    <2> QED BY <1>5, <2>1
  <1> QED BY <1>6 DEF Chosen, Picked

\* The blocks: block k begins with its label and ends with a branch to the end.
Block(codes, k, n) == <<Label(<<"case", k, n>>)>> \o codes[k] \o <<Br(End(n))>>
Blocks(codes, n) == [k \in DOMAIN codes |-> Block(codes, k, n)]

LEMMA BlockTypes ==
  ASSUME NEW codes \in Seq(Seq(Items)), NEW n \in Nat
  PROVE  /\ Blocks(codes, n) \in Seq(Seq(Items)) /\ Len(Blocks(codes, n)) = Len(codes)
         /\ \A k \in 1 .. Len(codes) :
              /\ <<Label(<<"case", k, n>>)>> \o codes[k] \in Seq(Items)
              /\ Blocks(codes, n)[k] = (<<Label(<<"case", k, n>>)>> \o codes[k]) \o <<Br(End(n))>>
         /\ <<Br(End(n))>> \in Seq(Items) /\ <<Label(End(n))>> \in Seq(Items)
         /\ \A k \in 1 .. Len(codes) : <<Label(<<"case", k, n>>)>> \in Seq(Items)
  <1>1. Br(End(n)) \in Items /\ Label(End(n)) \in Items
    BY LabelTypes, ItemTypes
  <1>2. <<Br(End(n))>> \in Seq(Items) /\ <<Label(End(n))>> \in Seq(Items)
    BY <1>1, ItemSeqs
  <1>3. \A k \in 1 .. Len(codes) : codes[k] \in Seq(Items) /\ k \in Nat
    OBVIOUS
  <1>4. ASSUME NEW k \in 1 .. Len(codes)
        PROVE  /\ <<Label(<<"case", k, n>>)>> \in Seq(Items)
               /\ <<Label(<<"case", k, n>>)>> \o codes[k] \in Seq(Items) /\ Block(codes, k, n) \in Seq(Items)
    <2> DEFINE l == <<"case", k, n>>
    <2>1. Label(l) \in Items
      BY <1>3, LabelTypes, ItemTypes
    <2>2. <<Label(l)>> \in Seq(Items)
      BY <2>1, ItemSeqs
    <2>3. <<Label(l)>> \o codes[k] \in Seq(Items)
      BY <1>3, <2>2, ItemSeqs
    <2>4. (<<Label(l)>> \o codes[k]) \o <<Br(End(n))>> \in Seq(Items)
      BY <1>2, <2>3, ItemSeqs
    <2> QED BY <2>2, <2>3, <2>4 DEF Block
  <1>5. Len(codes) \in Nat /\ DOMAIN codes = 1 .. Len(codes)
    OBVIOUS
  <1>6. Blocks(codes, n) \in [1 .. Len(codes) -> Seq(Items)]
    BY <1>4, <1>5 DEF Blocks
  <1>7. Blocks(codes, n) \in Seq(Seq(Items)) /\ Len(Blocks(codes, n)) = Len(codes)
    BY <1>5, <1>6, FunctionIsSeq
  <1>8. \A k \in 1 .. Len(codes) : Blocks(codes, n)[k] = (<<Label(<<"case", k, n>>)>> \o codes[k]) \o <<Br(End(n))>>
    BY <1>5 DEF Blocks, Block
  <1> QED BY <1>2, <1>4, <1>7, <1>8

LEMMA FrontOfJoined ==
  ASSUME NEW S, NEW E \in Seq(S), NEW x \in S
  PROVE  Front(E \o <<x>>) = E
  BY DEF Front

\* case() without its last branch and the label behind it: CaseBody.
CaseBody(conds, codes, F, n) ==
  LET T == Tests(conds, n)
      N == Len(codes)
  IN  IF N = 0 THEN T \o F
      ELSE (T \o (F \o <<Br(End(n))>>))
             \o (Upto(Blocks(codes, n), N - 1) \o (<<Label(<<"case", N, n>>)>> \o codes[N]))

LEMMA FrontOfBlocks ==
  ASSUME NEW P \in Seq(Items), NEW U \in Seq(Items), NEW X \in Seq(Items), NEW y \in Items
  PROVE  Front(P \o (U \o (X \o <<y>>))) = P \o (U \o X) /\ P \o (U \o X) \in Seq(Items)
  <1> DEFINE B == <<y>>
             Q == P \o (U \o X)
  <1>1. B \in Seq(Items) /\ U \o X \in Seq(Items)
    BY ItemSeqs
  <1>2. Q \in Seq(Items)
    <2> DEFINE z == U \o X
    <2>1. z \in Seq(Items)
      BY <1>1
    <2> HIDE DEF z
    <2>2. P \o z \in Seq(Items)
      BY <2>1, ItemSeqs
    <2> QED BY <2>2 DEF z
  <1>3. Front(Q \o B) = Q
    <2> HIDE DEF Q
    <2> QED BY <1>2, FrontOfJoined
  <1> HIDE DEF B
  <1>4. P \o (U \o (X \o B)) = (P \o (U \o X)) \o B
    BY <1>1, ItemsAssociative4
  <1> QED BY <1>2, <1>3, <1>4 DEF B

\* case() is its body and the last label: what Front() drops is the last branch.
LEMMA CaseIsBody ==
  ASSUME NEW conds \in Seq(Conds), NEW codes \in Seq(Seq(Items)), Len(codes) = Len(conds),
         NEW default \in Seq(Items), NEW falsy \in BOOLEAN, NEW n \in Nat,
         Tests(conds, n) \in Seq(Items)
  PROVE  /\ Case(conds, codes, default, falsy, n)
              = CaseBody(conds, codes, IF falsy THEN <<>> ELSE default, n) \o <<Label(End(n))>>
         /\ CaseBody(conds, codes, IF falsy THEN <<>> ELSE default, n) \in Seq(Items)
  <1> DEFINE T == Tests(conds, n)
             F == IF falsy THEN <<>> ELSE default
             B == <<Br(End(n))>>
             s == Blocks(codes, n)
             N == Len(codes)
             X == <<Label(<<"case", N, n>>)>> \o codes[N]
  <1>1. /\ N \in Nat /\ N = Len(s) /\ s \in Seq(Seq(Items)) /\ B \in Seq(Items) /\ Br(End(n)) \in Items
    <2>1. N \in Nat /\ End(n) \in Labels
      BY LabelTypes
    <2>2. N = Len(s) /\ s \in Seq(Seq(Items)) /\ B \in Seq(Items)
      BY BlockTypes
    <2> QED BY <2>1, <2>2, ItemTypes
  <1>2. F \in Seq(Items)
    <2>1. <<>> \in Seq(Items)
      OBVIOUS
    <2> QED BY <2>1
  <1>3. Case(conds, codes, default, falsy, n) = Front((T \o (F \o B)) \o FlattenSeq(s)) \o <<Label(End(n))>>
    BY DEF Case, Tests, Blocks, Block
  <1>4. Upto(s, N) = FlattenSeq(s) /\ Upto(s, 0) = <<>>
    BY <1>1, UptoFacts
  <1> HIDE DEF T, F, s
  <1>5. T \in Seq(Items)
    BY DEF T
  <1>6. CASE N = 0
    <2>1. (T \o (F \o B)) \o FlattenSeq(s) = T \o (F \o B)
      <3>1. T \o (F \o B) \in Seq(Items) /\ FlattenSeq(s) = <<>>
        BY <1>1, <1>2, <1>4, <1>5, <1>6, ItemSeqs
      <3> HIDE DEF B
      <3> QED BY <3>1
    <2>2. T \o (F \o B) = (T \o F) \o B
      <3> HIDE DEF B
      <3> QED BY <1>1, <1>2, <1>5, ItemsAssociative
    <2>3. T \o F \in Seq(Items)
      BY <1>2, <1>5, ItemSeqs
    <2>4. Front((T \o F) \o B) = T \o F
      BY <1>1, <2>3, FrontOfJoined
    <2>5. CaseBody(conds, codes, F, n) = T \o F
      BY <1>6 DEF CaseBody, T
    <2> HIDE DEF B
    <2>6. Case(conds, codes, default, falsy, n) = CaseBody(conds, codes, F, n) \o <<Label(End(n))>>
      BY <1>3, <2>1, <2>2, <2>4, <2>5
    <2> QED BY <2>3, <2>5, <2>6 DEF F
  <1>7. CASE N # 0
    <2> DEFINE M == N - 1
               U == Upto(s, M)
    <2>1. M \in 0 .. Len(s) - 1 /\ M \in 0 .. Len(s) /\ M + 1 = N /\ N \in 1 .. Len(codes) /\ N \in 1 .. N
      BY <1>1, <1>7
    <2>2. Upto(s, M + 1) = Upto(s, M) \o s[M + 1] /\ Upto(s, M) \in Seq(Items)
      BY <1>1, <2>1, UptoFacts
    <2>3. s[N] = X \o B /\ X \in Seq(Items)
      BY <1>1, <2>1, BlockTypes DEF s
    <2> HIDE DEF X
    <2>4. FlattenSeq(s) = U \o (X \o B) /\ U \in Seq(Items)
      BY <1>4, <2>1, <2>2, <2>3
    <2> HIDE DEF U
    <2>5. T \o (F \o B) \in Seq(Items) /\ U \o X \in Seq(Items)
      BY <1>1, <1>2, <1>5, <2>3, <2>4, ItemSeqs
    <2> DEFINE P == T \o (F \o B)
    <2>6. P \in Seq(Items)
      BY <2>5
    <2> HIDE DEF P
    <2>7. Front(P \o (U \o (X \o B))) = P \o (U \o X) /\ P \o (U \o X) \in Seq(Items)
      BY <1>1, <2>3, <2>4, <2>6, FrontOfBlocks
    <2> HIDE DEF B
    <2>9. CaseBody(conds, codes, F, n) = P \o (U \o X)
      BY <1>7 DEF CaseBody, P, T, U, X, B, s
    <2>10. Case(conds, codes, default, falsy, n) = CaseBody(conds, codes, F, n) \o <<Label(End(n))>>
      BY <1>3, <2>4, <2>7, <2>9 DEF P
    <2> QED BY <2>7, <2>9, <2>10 DEF F
  <1> QED BY <1>6, <1>7

\* case() does what its first condition that is true chooses.
LEMMA CaseMeaning ==
  ASSUME NEW v \in [Conds -> BOOLEAN], NEW conds \in Seq(Conds), NEW codes \in Seq(Seq(Items)),
         Len(codes) = Len(conds), NEW ms \in [1 .. Len(conds) -> Effects],
         \A k \in 1 .. Len(conds) : Means(v, codes[k], ms[k]),
         NEW default \in Seq(Items), NEW m \in Effects, Means(v, default, m),
         NEW falsy \in BOOLEAN, falsy => m = Nil, NEW n \in Nat
  PROVE  /\ Case(conds, codes, default, falsy, n) \in Seq(Items)
         /\ Means(v, Case(conds, codes, default, falsy, n), Chosen(v, conds, ms, m))
  <1> DEFINE T == Tests(conds, n)
             F == IF falsy THEN <<>> ELSE default
             B == <<Br(End(n))>>
             D == <<Label(End(n))>>
             s == Blocks(codes, n)
             N == Len(codes)
             L(k) == <<"case", k, n>>
             C == Case(conds, codes, default, falsy, n)
             body == CaseBody(conds, codes, F, n)
  <1>1. /\ N \in Nat /\ N = Len(s) /\ s \in Seq(Seq(Items))
        /\ B \in Seq(Items) /\ D \in Seq(Items) /\ End(n) \in Labels
        /\ \A k \in 1 .. N : codes[k] \in Seq(Items) /\ L(k) \in Labels
    <2>1. N \in Nat /\ End(n) \in Labels /\ \A k \in 1 .. N : codes[k] \in Seq(Items) /\ L(k) \in Labels
      BY LabelTypes
    <2>2. N = Len(s) /\ s \in Seq(Seq(Items)) /\ B \in Seq(Items) /\ D \in Seq(Items)
      BY BlockTypes
    <2> QED BY <2>1, <2>2
  <1>2. F \in Seq(Items) /\ Means(v, F, m)
    <2>1. <<>> \in Seq(Items)
      OBVIOUS
    <2> QED BY <2>1, MeansEmpty
  <1>3. T \in Seq(Items)
    BY TestTypes
  <1>4. C = body \o D /\ body \in Seq(Items)
    BY <1>3, CaseIsBody
  <1>5. C \in Seq(Items)
    BY <1>1, <1>4, ItemSeqs
  <1> HIDE DEF T, F, s, C, body, B, D
  <1>6. ASSUME NEW r \in Effects
        PROVE  Closed(v, C, Then(Chosen(v, conds, ms, m), r), r)
    <2> DEFINE e == [k \in 1 .. N |-> Then(ms[k], r)]
               d == Then(m, r)
    <2>1. e \in [1 .. Len(conds) -> Effects] /\ d \in Effects
      BY EffectTypes
    <2>2. \A k \in 1 .. N : \E Z \in SUBSET (Labels \X Effects) : Runs(v, codes[k], Z, Z, e[k], r)
      BY DEF Means, Closed
    <2>3. PICK Y \in [1 .. N -> SUBSET (Labels \X Effects)] :
               \A k \in 1 .. N : Runs(v, codes[k], Y[k], Y[k], e[k], r)
      <3> DEFINE c == [k \in 1 .. N |-> CHOOSE Z \in SUBSET (Labels \X Effects) :
                                                  Runs(v, codes[k], Z, Z, e[k], r)]
      <3> HIDE DEF e
      <3>1. \A k \in 1 .. N : c[k] \in SUBSET (Labels \X Effects) /\ Runs(v, codes[k], c[k], c[k], e[k], r)
        BY <2>2
      <3>2. c \in [1 .. N -> SUBSET (Labels \X Effects)]
        BY <3>1
      <3> HIDE DEF c
      <3> QED BY <3>1, <3>2
    <2>4. PICK Yd \in SUBSET (Labels \X Effects) : Runs(v, F, Yd, Yd, d, r)
      BY <1>2 DEF Means, Closed
    <2> DEFINE Z == [k \in 1 .. N |-> ({<<L(k), e[k]>>} \cup Y[k]) \cup {}]
               J == (Yd \cup UNION {Z[k] : k \in 1 .. N}) \cup {<<End(n), r>>}
    <2>5. /\ \A k \in 1 .. N : <<L(k), e[k]>> \in J /\ Y[k] \subseteq J
          /\ <<End(n), r>> \in J /\ Yd \subseteq J
    <3>1. ASSUME NEW k \in 1 .. N PROVE <<L(k), e[k]>> \in J /\ Y[k] \subseteq J
      <4>1. Z[k] \subseteq J
        <5> HIDE DEF Z
        <5> QED OBVIOUS
      <4>2. <<L(k), e[k]>> \in Z[k] /\ Y[k] \subseteq Z[k]
        <5>1. Z[k] = ({<<L(k), e[k]>>} \cup Y[k]) \cup {}
          OBVIOUS
        <5> HIDE DEF Z, L, e
        <5> QED BY <5>1
      <4> HIDE DEF J, Z, L, e
      <4> QED BY <4>1, <4>2
    <3>2. <<End(n), r>> \in J /\ Yd \subseteq J
      <4> HIDE DEF Z
      <4> QED OBVIOUS
    <3> HIDE DEF J
    <3> QED BY <3>1, <3>2
    <2>6. J \in SUBSET (Labels \X Effects)
      BY <1>1, <2>1, <2>3, <2>4
    <2> HIDE DEF J, e, d
    <2>7. Runs(v, T, J, {}, After(v, conds, e, d, 0), d)
      BY <2>1, <2>5, RunsTests DEF T
    <2>8. After(v, conds, e, d, 0) = Then(Chosen(v, conds, ms, m), r)
      <3>1. Chosen(v, conds, e, d) = After(v, conds, e, d, 0)
        BY ChosenIsFirst
      <3>2. Chosen(v, conds, e, d) = Then(Chosen(v, conds, ms, m), r)
        <4>1. CASE ~ \E k \in DOMAIN conds : v[conds[k]]
          BY <4>1 DEF Chosen, d
        <4>2. CASE \E k \in DOMAIN conds : v[conds[k]]
          <5>1. /\ Picked(v, conds) \in 1 .. N
                /\ Chosen(v, conds, e, d) = e[Picked(v, conds)]
                /\ Chosen(v, conds, ms, m) = ms[Picked(v, conds)]
            BY <4>2, ChosenIsPicked
          <5>2. e[Picked(v, conds)] = Then(ms[Picked(v, conds)], r)
            BY <5>1 DEF e
          <5> QED BY <5>1, <5>2
        <4> QED BY <4>1, <4>2
      <3> QED BY <3>1, <3>2
    <2>9. Runs(v, F, J, Yd, d, r)
      <3>1. Yd \subseteq Yd
        OBVIOUS
      <3> QED BY <2>4, <2>5, <3>1, RunsMore
    <2>10. ASSUME NEW k \in 1 .. N PROVE Runs(v, <<Label(L(k))>> \o codes[k], J, {<<L(k), e[k]>>} \cup Y[k], e[k], r)
      <3>1. Runs(v, codes[k], J, Y[k], e[k], r)
        <4>1. Y[k] \subseteq Y[k]
          OBVIOUS
        <4> QED BY <2>3, <2>5, <4>1, RunsMore
      <3>2. e[k] \in Effects
        BY <2>1
      <3>3. Runs(v, <<Label(L(k))>>, J, {<<L(k), e[k]>>}, e[k], e[k])
        BY <3>2, RunsLabel
      <3>4. <<Label(L(k))>> \in Seq(Items)
        BY BlockTypes
      <3> HIDE DEF L
      <3> QED BY <1>1, <3>1, <3>3, <3>4, RunsJoined
    <2>11. CASE N = 0
      <3>1. body = T \o F
        BY <2>11 DEF body, CaseBody, T
      <3>2. Runs(v, T \o F, J, {} \cup Yd, Then(Chosen(v, conds, ms, m), r), r)
        BY <1>2, <1>3, <2>7, <2>8, <2>9, RunsJoined
      <3>3. Runs(v, D, J, {<<End(n), r>>}, r, r)
        BY RunsLabel DEF D
      <3>4. Runs(v, C, J, ({} \cup Yd) \cup {<<End(n), r>>}, Then(Chosen(v, conds, ms, m), r), r)
        BY <1>1, <1>4, <3>1, <3>2, <3>3, RunsJoined
      <3>5. ({} \cup Yd) \cup {<<End(n), r>>} = J
        BY <2>11 DEF J
      <3> QED BY <2>6, <3>4, <3>5 DEF Closed
    <2>12. CASE N # 0
      <3> DEFINE M == N - 1
                 U == Upto(s, M)
                 X == <<Label(L(N))>> \o codes[N]
                 f == [k \in 0 .. N |-> IF k < N THEN e[k + 1] ELSE r]
                 G == Then(Chosen(v, conds, ms, m), r)
      <3>1. M \in 0 .. N /\ M + 1 = N /\ N \in 1 .. N /\ M < N
        BY <1>1, <2>12
      <3>2. f \in [0 .. Len(s) -> Effects]
        <4>1. ASSUME NEW k \in 0 .. N PROVE (IF k < N THEN e[k + 1] ELSE r) \in Effects
          <5>1. CASE k < N
            <6>1. k + 1 \in 1 .. Len(conds)
              BY <1>1, <5>1
            <6> QED BY <2>1, <5>1, <6>1
          <5>2. CASE ~(k < N)
            BY <5>2
          <5> QED BY <5>1, <5>2
        <4> QED BY <1>1, <4>1
      <3>3. /\ \A k \in 1 .. N : f[k - 1] = e[k] /\ k \in 0 .. N /\ k - 1 \in 0 .. N
            /\ f[M] = e[N] /\ \A k \in 0 .. N : f[k] \in Effects
        <4>1. ASSUME NEW k \in 1 .. N PROVE f[k - 1] = e[k] /\ k \in 0 .. N /\ k - 1 \in 0 .. N
          <5>1. k - 1 \in 0 .. N /\ k - 1 < N /\ (k - 1) + 1 = k /\ k \in 0 .. N
            BY <1>1
          <5> QED BY <5>1
        <4> HIDE DEF f
        <4> QED BY <4>1, <3>1, <3>2, <1>1
      <3> HIDE DEF f
      <3>4. ASSUME NEW k \in 1 .. Len(s) PROVE Runs(v, s[k], J, Z[k], f[k - 1], f[k])
        <4>1. k \in 1 .. N
          BY <1>1
        <4>2. Runs(v, B, J, {}, r, f[k])
          BY <2>5, <3>3, <4>1, RunsBr DEF B
        <4>3. s[k] = (<<Label(L(k))>> \o codes[k]) \o B /\ <<Label(L(k))>> \o codes[k] \in Seq(Items)
          BY <4>1, BlockTypes DEF s, B
        <4>4. Runs(v, <<Label(L(k))>> \o codes[k], J, {<<L(k), e[k]>>} \cup Y[k], e[k], r)
          BY <4>1, <2>10
        <4> DEFINE P == <<Label(L(k))>> \o codes[k]
                   Q == {<<L(k), e[k]>>} \cup Y[k]
        <4>5. Z[k] = Q \cup {}
          BY <4>1
        <4> HIDE DEF P, Q, L
        <4>6. Runs(v, P \o B, J, Q \cup {}, e[k], f[k])
          BY <1>1, <4>2, <4>3, <4>4, RunsJoined DEF P, Q
        <4> HIDE DEF Z
        <4> QED BY <3>3, <4>1, <4>3, <4>5, <4>6 DEF P
      <3> DEFINE V == UNION {Z[k] : k \in 1 .. M}
      <3>5. Runs(v, U, J, V, f[0], e[N])
        <4> HIDE DEF Z
        <4>1. Runs(v, Upto(s, M), J, UNION {Z[k] : k \in 1 .. M}, f[0], f[M])
          <5>1. \A k \in 1 .. Len(s) : Runs(v, s[k], J, Z[k], f[k - 1], f[k])
            BY <3>4
          <5>2. s \in Seq(Seq(Items)) /\ f \in [0 .. Len(s) -> Effects] /\ M \in 0 .. Len(s)
            BY <1>1, <3>1, <3>2
          <5> HIDE DEF M
          <5>3. Runs(v, Upto(s, M), J, Marks(Z, M), f[0], f[M])
            BY <5>1, <5>2, RunsFlattened
          <5> QED BY <5>3 DEF Marks
        <4> QED BY <3>3, <4>1
      <3>6. Runs(v, X, J, {<<L(N), e[N]>>} \cup Y[N], e[N], r)
        BY <3>1, <2>10
      <3>7. Runs(v, B, J, {}, r, f[0]) /\ Runs(v, D, J, {<<End(n), r>>}, r, r)
        <4>1. f[0] \in Effects
          BY <1>1, <3>3
        <4> QED BY <4>1, <2>5, RunsBr, RunsLabel DEF B, D
      <3>8. U \in Seq(Items) /\ X \in Seq(Items)
        <4>1. U \in Seq(Items)
          BY <1>1, <3>1, UptoFacts
        <4>2. X \in Seq(Items)
          BY <3>1, BlockTypes
        <4> QED BY <4>1, <4>2
      <3>9. body = (T \o (F \o B)) \o (U \o X)
        BY <2>12 DEF body, CaseBody, T, B, s
      <3> DEFINE Q == {<<L(N), e[N]>>} \cup Y[N]
      <3>10. (({} \cup (Yd \cup {})) \cup (V \cup Q)) \cup {<<End(n), r>>} = J
        <4>1. 1 .. N = (1 .. M) \cup {N}
          BY <1>1, <3>1
        <4>2. Z[N] = Q
          BY <3>1
        <4>3. {Z[k] : k \in 1 .. N} = {Z[k] : k \in 1 .. M} \cup {Z[N]}
          <5> HIDE DEF Z, M
          <5> QED BY <4>1
        <4>4. UNION {Z[k] : k \in 1 .. N} = V \cup Q
          <5> HIDE DEF Z, Q, M
          <5> QED BY <4>2, <4>3
        <4> HIDE DEF Z, V, Q
        <4> QED BY <4>4 DEF J
      <3> HIDE DEF U, X, Q, V, M, Z, G
      <3>11. Runs(v, F \o B, J, Yd \cup {}, d, f[0])
        BY <1>1, <1>2, <2>9, <3>7, RunsJoined
      <3>12. F \o B \in Seq(Items) /\ T \o (F \o B) \in Seq(Items) /\ U \o X \in Seq(Items)
        BY <1>1, <1>2, <1>3, <3>8, ItemSeqs
      <3>13. Runs(v, T \o (F \o B), J, {} \cup (Yd \cup {}), G, f[0])
        BY <1>3, <2>7, <2>8, <3>11, <3>12, RunsJoined DEF G
      <3>14. Runs(v, U \o X, J, V \cup Q, f[0], r)
        BY <3>5, <3>6, <3>8, RunsJoined DEF Q
      <3>15. Runs(v, body, J, ({} \cup (Yd \cup {})) \cup (V \cup Q), G, r)
        BY <3>9, <3>12, <3>13, <3>14, RunsJoined
      <3>16. Runs(v, C, J, (({} \cup (Yd \cup {})) \cup (V \cup Q)) \cup {<<End(n), r>>}, G, r)
        BY <1>1, <1>4, <3>7, <3>15, RunsJoined
      <3>17. Runs(v, C, J, J, G, r)
        BY <3>10, <3>16
      <3> QED BY <2>6, <3>17 DEF Closed, G
    <2> QED BY <2>11, <2>12
  <1> QED BY <1>5, <1>6 DEF Means, C

-----------------------------------------------------------------------------
(* Padding: pack() writes NoPad before each instruction, build() obeys it. *)

\* Every instruction that pack() was given comes after NoPad.
Padded(code) ==
  \A k \in 1 .. Len(code) : IsInst(code[k]) /\ code[k].packed => k > 1 /\ code[k - 1] = NoPad

LEMMA PaddedOne ==
  ASSUME NEW x, ~(IsInst(x) /\ x.packed)
  PROVE  Padded(<<x>>)
  <1>1. \A k \in 1 .. Len(<<x>>) : <<x>>[k] = x
    OBVIOUS
  <1> QED BY <1>1 DEF Padded

\* No item the code is made of was given to pack().
LEMMA PaddedLeaves ==
  /\ Padded(<<>>)
  /\ \A t \in Leaves : Padded(<<t>>)
  /\ \A l : Padded(<<Label(l)>>) /\ Padded(<<Br(l)>>)
  /\ \A c, on, l : Padded(<<BrIf(c, on, l)>>)
  <1>1. Padded(<<>>)
    BY DEF Padded
  <1>2. ASSUME NEW t \in Leaves PROVE Padded(<<t>>)
    <2>1. IsInst(t) => t.packed = FALSE
      BY DEF Leaves, IsInst
    <2> QED BY <2>1, PaddedOne
  <1>3. ASSUME NEW l PROVE Padded(<<Label(l)>>) /\ Padded(<<Br(l)>>)
    <2>1. ~IsInst(Label(l)) /\ Br(l).packed = FALSE
      BY DEF IsInst, Label, Br
    <2> QED BY <2>1, PaddedOne
  <1>4. ASSUME NEW c, NEW on, NEW l PROVE Padded(<<BrIf(c, on, l)>>)
    <2>1. BrIf(c, on, l).packed = FALSE
      BY DEF BrIf
    <2> QED BY <2>1, PaddedOne
  <1> QED BY <1>1, <1>2, <1>3, <1>4

\* Joined code stays padded: no piece begins with a packed instruction.
LEMMA PaddedJoined ==
  ASSUME NEW E \in Seq(Items), NEW F \in Seq(Items), Padded(E), Padded(F)
  PROVE  Padded(E \o F)
  <1> DEFINE m == Len(E)
             n == Len(F)
             G == E \o F
  <1>1. m \in Nat /\ n \in Nat /\ Len(G) = m + n
    OBVIOUS
  <1>2. (\A k \in 1 .. m : G[k] = E[k]) /\ (\A k \in 1 .. n : G[m + k] = F[k])
    OBVIOUS
  <1> SUFFICES ASSUME NEW k \in 1 .. Len(G), IsInst(G[k]), G[k].packed
               PROVE  k > 1 /\ G[k - 1] = NoPad
    BY DEF Padded
  <1> HIDE DEF G
  <1>3. CASE k <= m
    <2>1. k \in 1 .. m
      BY <1>1, <1>3
    <2>2. G[k] = E[k]
      BY <1>2, <2>1
    <2>3. k > 1 /\ E[k - 1] = NoPad
      BY <2>1, <2>2 DEF Padded
    <2>4. k - 1 \in 1 .. m
      BY <1>1, <2>1, <2>3
    <2> QED BY <1>2, <2>3, <2>4
  <1>4. CASE ~(k <= m)
    <2>1. PICK i \in 1 .. n : k = m + i
      <3>1. k - m \in 1 .. n /\ k = m + (k - m)
        BY <1>1, <1>4
      <3> QED BY <3>1
    <2>2. G[k] = F[i]
      BY <1>2, <2>1
    <2>3. i > 1 /\ F[i - 1] = NoPad
      BY <2>1, <2>2 DEF Padded
    <2>4. i - 1 \in 1 .. n /\ k - 1 = m + (i - 1) /\ k > 1
      BY <1>1, <2>1, <2>3
    <2>5. G[m + (i - 1)] = F[i - 1]
      BY <1>2, <2>4
    <2> QED BY <2>3, <2>4, <2>5
  <1> QED BY <1>3, <1>4

LEMMA PaddedFlattened ==
  ASSUME NEW s \in Seq(Seq(Items)), \A k \in 1 .. Len(s) : Padded(s[k])
  PROVE  /\ \A n \in 0 .. Len(s) : Padded(Upto(s, n))
         /\ Padded(FlattenSeq(s))
  <1> DEFINE Good == {n \in Nat : n <= Len(s) => Padded(Upto(s, n))}
  <1>0. Len(s) \in Nat
    OBVIOUS
  <1>1. 0 \in Good
    BY UptoFacts, PaddedLeaves
  <1>2. ASSUME NEW n \in Nat, n \in Good PROVE n + 1 \in Good
    <2> SUFFICES ASSUME n + 1 <= Len(s) PROVE Padded(Upto(s, n + 1))
      OBVIOUS
    <2>1. n \in 0 .. Len(s) - 1 /\ n \in 0 .. Len(s) /\ n + 1 \in 1 .. Len(s)
      BY <1>0
    <2>2. Upto(s, n + 1) = Upto(s, n) \o s[n + 1] /\ Upto(s, n) \in Seq(Items) /\ s[n + 1] \in Seq(Items)
      BY <2>1, UptoFacts
    <2>3. Padded(Upto(s, n)) /\ Padded(s[n + 1])
      BY <1>2, <2>1
    <2> QED BY <2>2, <2>3, PaddedJoined
  <1>3. \A n \in Nat : n \in Good
    <2> HIDE DEF Good
    <2> QED BY <1>1, <1>2, SetInduction
  <1>4. \A n \in 0 .. Len(s) : Padded(Upto(s, n))
    <2>1. \A n \in 0 .. Len(s) : n \in Nat /\ n <= Len(s)
      BY <1>0
    <2> QED BY <2>1, <1>3
  <1>5. Len(s) \in 0 .. Len(s) /\ Upto(s, Len(s)) = FlattenSeq(s)
    BY <1>0, UptoFacts
  <1> QED BY <1>4, <1>5

\* The macros split no NoPad from its instruction.
LEMMA WhenPadded ==
  ASSUME NEW c \in Conds, NEW n \in Nat, NEW falsy \in BOOLEAN,
         NEW E \in Seq(Items), NEW F \in Seq(Items), Padded(E), Padded(F)
  PROVE  Padded(When(c, E, F, falsy, n))
  <1> DEFINE el == Else(n)
             en == End(n)
             T(l) == <<BrIf(c, FALSE, l)>>
             B == <<Br(en)>>
             L(l) == <<Label(l)>>
  <1>1. el \in Labels /\ en \in Labels
    BY LabelTypes
  <1>2. \A l \in Labels : T(l) \in Seq(Items) /\ L(l) \in Seq(Items) /\ Padded(T(l)) /\ Padded(L(l))
    <2> SUFFICES ASSUME NEW l \in Labels
                 PROVE  T(l) \in Seq(Items) /\ L(l) \in Seq(Items) /\ Padded(T(l)) /\ Padded(L(l))
      OBVIOUS
    <2>1. BrIf(c, FALSE, l) \in Items /\ Label(l) \in Items
      BY ItemTypes
    <2>2. T(l) \in Seq(Items) /\ L(l) \in Seq(Items)
      BY <2>1, ItemSeqs
    <2> QED BY <2>2, PaddedLeaves
  <1>3. B \in Seq(Items) /\ Padded(B)
    <2>1. Br(en) \in Items
      BY <1>1, ItemTypes
    <2>2. B \in Seq(Items)
      BY <2>1, ItemSeqs
    <2> QED BY <2>2, PaddedLeaves
  <1>4. <<Br(en), Label(el)>> = B \o L(el)
    OBVIOUS
  <1>5. When(c, E, F, falsy, n) =
          IF falsy THEN (T(en) \o E) \o L(en) ELSE (((T(el) \o E) \o (B \o L(el))) \o F) \o L(en)
    BY <1>4 DEF When
  <1> HIDE DEF el, en, T, B, L
  <1> DEFINE Good(G) == G \in Seq(Items) /\ Padded(G)
  <1>6. ASSUME NEW G, NEW H, Good(G), Good(H) PROVE Good(G \o H)
    BY <1>6, PaddedJoined, ItemSeqs
  <1>7. Good(E) /\ Good(F) /\ Good(B) /\ Good(T(en)) /\ Good(T(el)) /\ Good(L(en)) /\ Good(L(el))
    BY <1>1, <1>2, <1>3
  <1> HIDE DEF Good
  <1>8. Good((T(en) \o E) \o L(en))
    <2>1. Good(T(en) \o E)
      BY <1>6, <1>7
    <2> QED BY <2>1, <1>6, <1>7
  <1>9. Good((((T(el) \o E) \o (B \o L(el))) \o F) \o L(en))
    <2>1. Good(T(el) \o E) /\ Good(B \o L(el))
      BY <1>6, <1>7
    <2>2. Good((T(el) \o E) \o (B \o L(el)))
      BY <2>1, <1>6
    <2>3. Good(((T(el) \o E) \o (B \o L(el))) \o F)
      BY <2>2, <1>6, <1>7
    <2> QED BY <2>3, <1>6, <1>7
  <1> QED BY <1>5, <1>8, <1>9 DEF Good

LEMMA CasePadded ==
  ASSUME NEW conds \in Seq(Conds), NEW codes \in Seq(Seq(Items)), Len(codes) = Len(conds),
         \A k \in 1 .. Len(codes) : Padded(codes[k]),
         NEW default \in Seq(Items), Padded(default), NEW falsy \in BOOLEAN, NEW n \in Nat
  PROVE  Padded(Case(conds, codes, default, falsy, n))
  <1> DEFINE T == Tests(conds, n)
             F == IF falsy THEN <<>> ELSE default
             B == <<Br(End(n))>>
             D == <<Label(End(n))>>
             s == Blocks(codes, n)
             N == Len(codes)
             L(k) == <<Label(<<"case", k, n>>)>>
             body == CaseBody(conds, codes, F, n)
             Good(G) == G \in Seq(Items) /\ Padded(G)
  <1>1. ASSUME NEW G, NEW H, Good(G), Good(H) PROVE Good(G \o H)
    BY <1>1, PaddedJoined, ItemSeqs
  <1>2. Good(B) /\ Good(D)
    BY BlockTypes, PaddedLeaves
  <1>3. Good(T)
    <2>1. T \in Seq(Items)
      BY TestTypes
    <2>2. \A k \in 1 .. Len(T) : ~T[k].packed
      BY DEF Tests, BrIf
    <2> QED BY <2>1, <2>2 DEF Padded
  <1>4. Good(F)
    <2>1. <<>> \in Seq(Items)
      OBVIOUS
    <2> QED BY <2>1, PaddedLeaves
  <1>5. ASSUME NEW k \in 1 .. N PROVE Good(L(k) \o codes[k]) /\ Good((L(k) \o codes[k]) \o B)
    <2>1. Good(codes[k])
      OBVIOUS
    <2>2. Good(L(k))
      BY BlockTypes, PaddedLeaves
    <2> HIDE DEF Good, L, B
    <2> QED BY <2>1, <2>2, <1>1, <1>2
  <1>6. N \in Nat /\ N = Len(s) /\ s \in Seq(Seq(Items)) /\ \A k \in 1 .. N : s[k] = (L(k) \o codes[k]) \o B
    <2>1. N \in Nat
      OBVIOUS
    <2>2. N = Len(s) /\ s \in Seq(Seq(Items))
      BY BlockTypes
    <2>3. \A k \in 1 .. N : s[k] = (L(k) \o codes[k]) \o B
      BY BlockTypes
    <2> QED BY <2>1, <2>2, <2>3
  <1>7. Case(conds, codes, default, falsy, n) = body \o D
    BY <1>3, CaseIsBody
  <1> HIDE DEF T, F, B, D, s, L
  <1>8. \A k \in 1 .. Len(s) : Padded(s[k])
    BY <1>5, <1>6
  <1>9. Good(body)
    <2>1. CASE N = 0
      <3>1. body = T \o F
        BY <2>1 DEF CaseBody, T
      <3> HIDE DEF Good, body
      <3> QED BY <3>1, <1>1, <1>3, <1>4
    <2>2. CASE N # 0
      <3> DEFINE M == N - 1
                 U == Upto(s, M)
                 X == L(N) \o codes[N]
      <3>1. M \in 0 .. Len(s) /\ N \in 1 .. N
        BY <1>6, <2>2
      <3>2. Good(U)
        BY <1>6, <1>8, <3>1, PaddedFlattened, UptoFacts
      <3>3. Good(X)
        BY <1>5, <3>1
      <3>4. body = (T \o (F \o B)) \o (U \o X)
        BY <2>2 DEF CaseBody, T, B, s, L
      <3> HIDE DEF Good, body, U, X
      <3>5. Good(F \o B) /\ Good(U \o X)
        BY <1>1, <1>2, <1>4, <3>2, <3>3
      <3>6. Good(T \o (F \o B))
        BY <1>1, <1>3, <3>5
      <3> QED BY <1>1, <3>4, <3>5, <3>6
    <2> QED BY <2>1, <2>2
  <1> HIDE DEF body
  <1>10. Good(body \o D)
    <2> HIDE DEF Good
    <2> QED BY <1>1, <1>2, <1>9
  <1> QED BY <1>7, <1>10

\* pack() puts NoPad before every instruction.
LEMMA PackPadded ==
  ASSUME NEW code \in Seq(Items)
  PROVE  Padded(Pack(code))
  <1>1. ASSUME NEW x \in Items, Padded(<<x>>) \/ IsInst(x) PROVE Padded(PackPiece(x))
    <2>1. CASE IsInst(x)
      <3> DEFINE E == <<NoPad, Given(x)>>
      <3>1. Len(E) = 2 /\ E[1] = NoPad /\ 2 - 1 = 1 /\ ~IsInst(NoPad) /\ 1 .. 2 = {1, 2}
        BY DEF IsInst, NoPad
      <3> HIDE DEF E
      <3>2. Padded(E)
        BY <3>1 DEF Padded
      <3> QED BY <2>1, <3>2 DEF PackPiece, E
    <2>2. CASE ~IsInst(x)
      BY <1>1, <2>2 DEF PackPiece
    <2> QED BY <2>1, <2>2
  <1>2. ASSUME NEW k \in 1 .. Len(code) PROVE Padded(PackPieces(code)[k])
    <2> DEFINE x == code[k]
    <2>1. x \in Items
      OBVIOUS
    <2> HIDE DEF x
    <2>2. Padded(<<x>>) \/ IsInst(x)
      BY PaddedOne
    <2>3. PackPieces(code)[k] = PackPiece(x)
      BY PieceTypes DEF x
    <2> QED BY <1>1, <2>1, <2>2, <2>3
  <1>3. Padded(FlattenSeq(PackPieces(code)))
    BY <1>2, PieceTypes, PaddedFlattened
  <1> QED BY <1>3, PieceTypes

\* What is dropped is never the NoPad of an instruction.
LEMMA KeptPadded ==
  ASSUME NEW code \in Seq(Items), Padded(code)
  PROVE  Padded(Kept(code))
  <1> DEFINE s == KeptPieces(code)
             N == Len(code)
             U(n) == Upto(s, n)
             Good == {n \in Nat : n <= N =>
                        /\ Padded(U(n))
                        /\ n > 0 /\ code[n] = NoPad => U(n) # <<>> /\ U(n)[Len(U(n))] = NoPad}
  <1>0. N \in Nat /\ s \in Seq(Seq(Items)) /\ Len(s) = N /\ \A k \in 1 .. N : s[k] = KeptPiece(code[k])
    BY PieceTypes
  <1> HIDE DEF s
  <1>1. 0 \in Good
    BY <1>0, UptoFacts, PaddedLeaves
  <1>2. ASSUME NEW n \in Nat, n \in Good PROVE n + 1 \in Good
    <2> DEFINE x == code[n + 1]
               E == U(n)
    <2> SUFFICES ASSUME n + 1 <= N
                 PROVE  /\ Padded(U(n + 1))
                        /\ x = NoPad => U(n + 1) # <<>> /\ U(n + 1)[Len(U(n + 1))] = NoPad
      OBVIOUS
    <2>1. n \in 0 .. N - 1 /\ n \in 0 .. N /\ n + 1 \in 1 .. N /\ x \in Items /\ (n + 1) - 1 = n
      BY <1>0
    <2>2. U(n + 1) = E \o KeptPiece(x) /\ E \in Seq(Items)
      BY <1>0, <2>1, UptoFacts
    <2>3. Padded(E) /\ (n > 0 /\ code[n] = NoPad => E # <<>> /\ E[Len(E)] = NoPad)
      BY <1>2, <2>1
    <2>4. IsInst(x) /\ x.packed => n > 0 /\ code[n] = NoPad
      BY <2>1 DEF Padded
    <2> HIDE DEF U, x, E
    <2>5. CASE x.is \in {"none", "true"}
      <3>1. KeptPiece(x) = <<>>
        BY <2>5 DEF KeptPiece
      <3>2. U(n + 1) = E
        BY <2>2, <3>1
      <3>3. x # NoPad
        BY <2>5 DEF NoPad
      <3> QED BY <2>3, <3>2, <3>3
    <2>6. CASE x.is \notin {"none", "true"}
      <3> DEFINE G == E \o <<x>>
      <3>1. U(n + 1) = G
        BY <2>2, <2>6 DEF KeptPiece
      <3>2. Len(G) = Len(E) + 1 /\ Len(E) \in Nat /\ G[Len(G)] = x /\ \A k \in 1 .. Len(E) : G[k] = E[k]
        BY <2>1, <2>2
      <3> HIDE DEF G
      <3>3. Padded(G)
        <4> SUFFICES ASSUME NEW k \in 1 .. Len(G), IsInst(G[k]), G[k].packed
                     PROVE  k > 1 /\ G[k - 1] = NoPad
          BY DEF Padded
        <4>1. CASE k <= Len(E)
          <5>1. k \in 1 .. Len(E)
            BY <3>2, <4>1
          <5>2. k > 1 /\ E[k - 1] = NoPad
            BY <2>3, <3>2, <5>1 DEF Padded
          <5>3. k - 1 \in 1 .. Len(E)
            BY <5>1, <5>2, <3>2
          <5> QED BY <3>2, <5>2, <5>3
        <4>2. CASE ~(k <= Len(E))
          <5>1. k = Len(G) /\ k - 1 = Len(E)
            BY <3>2, <4>2
          <5>2. E # <<>> /\ E[Len(E)] = NoPad
            BY <2>3, <2>4, <3>2, <5>1
          <5>3. Len(E) \in 1 .. Len(E)
            BY <2>2, <5>2
          <5> QED BY <3>2, <5>1, <5>2, <5>3
        <4> QED BY <4>1, <4>2
      <3>4. x = NoPad => G # <<>> /\ G[Len(G)] = NoPad
        BY <3>2
      <3> QED BY <3>1, <3>3, <3>4
    <2> QED BY <2>5, <2>6
  <1>3. \A n \in Nat : n \in Good
    <2> HIDE DEF Good
    <2> QED BY <1>1, <1>2, SetInduction
  <1>4. Padded(U(N)) /\ U(N) = FlattenSeq(s)
    <2>1. U(N) = FlattenSeq(s)
      BY <1>0, UptoFacts
    <2>2. N \in Good
      BY <1>0, <1>3
    <2> HIDE DEF U
    <2> QED BY <1>0, <2>1, <2>2
  <1> HIDE DEF U
  <1>5. Kept(code) = FlattenSeq(s)
    BY PieceTypes DEF s
  <1> QED BY <1>4, <1>5

-----------------------------------------------------------------------------
(* What Python makes: objects whose items do what their meaning says.      *)

Texts(v) ==
  {t \in [code : Seq(Items), means : Effects] : Means(v, t.code, t.means) /\ Padded(t.code)}
Objects(v) ==
  {x \in [falsy : BOOLEAN, first : Texts(v), again : Texts(v)] :
     x.falsy => x.first.means = Nil /\ x.again.means = Nil}

LEMMA TextFields ==
  ASSUME NEW v, NEW t \in Texts(v)
  PROVE  /\ t.code \in Seq(Items) /\ t.means \in Effects
         /\ Means(v, t.code, t.means) /\ Padded(t.code)
  BY DEF Texts

LEMMA TextMade ==
  ASSUME NEW v, NEW code \in Seq(Items), NEW m \in Effects, Means(v, code, m), Padded(code)
  PROVE  [code |-> code, means |-> m] \in Texts(v)
  BY DEF Texts

LEMMA ObjectFields ==
  ASSUME NEW v, NEW x \in Objects(v)
  PROVE  /\ x.falsy \in BOOLEAN /\ x.first \in Texts(v) /\ x.again \in Texts(v)
         /\ x.falsy => x.first.means = Nil /\ x.again.means = Nil
  BY DEF Objects

LEMMA ObjectMade ==
  ASSUME NEW v, NEW falsy \in BOOLEAN, NEW a \in Texts(v), NEW b \in Texts(v),
         falsy => a.means = Nil /\ b.means = Nil
  PROVE  Object(falsy, a, b) \in Objects(v)
  BY DEF Object, Objects

LEMMA EmptyIsText == \A v : Empty \in Texts(v) /\ Empty.means = Nil
  <1>1. <<>> \in Seq(Items)
    OBVIOUS
  <1>2. \A v : Means(v, <<>>, Nil) /\ Nil \in Effects /\ Padded(<<>>)
    BY MeansEmpty, EffectTypes, PaddedLeaves
  <1> QED BY <1>1, <1>2, TextMade DEF Empty

\* What the steps of Python make are such objects again.
LEMMA LeafIsObject ==
  ASSUME NEW v, NEW t \in Leaves
  PROVE  Leaf(t) \in Objects(v)
  <1>1. t \in Items
    BY ItemTypes
  <1>2. <<t>> \in Seq(Items) /\ LeafMeans(t) \in Effects /\ Means(v, <<t>>, LeafMeans(t)) /\ Padded(<<t>>)
    BY <1>1, ItemSeqs, EffectTypes, MeansLeaf, PaddedLeaves
  <1>3. LeafText(t) \in Texts(v)
    BY <1>2, TextMade DEF LeafText
  <1>4. t.is = "none" => LeafText(t).means = Nil
    BY DEF LeafText, LeafMeans
  <1>5. (t.is = "none") \in BOOLEAN
    OBVIOUS
  <1> QED BY <1>3, <1>4, <1>5, ObjectMade DEF Leaf

LEMMA JoinedIsText ==
  ASSUME NEW v, NEW a \in Texts(v), NEW b \in Texts(v)
  PROVE  Joined(a, b) \in Texts(v)
  <1>1. /\ a.code \in Seq(Items) /\ a.means \in Effects /\ Means(v, a.code, a.means) /\ Padded(a.code)
        /\ b.code \in Seq(Items) /\ b.means \in Effects /\ Means(v, b.code, b.means) /\ Padded(b.code)
    BY TextFields
  <1> DEFINE E == a.code
             F == b.code
             m == a.means
             n == b.means
  <1> HIDE DEF E, F, m, n
  <1>2. E \o F \in Seq(Items) /\ Then(m, n) \in Effects
    BY <1>1, ItemSeqs, EffectTypes DEF E, F, m, n
  <1>3. Means(v, E \o F, Then(m, n)) /\ Padded(E \o F)
    BY <1>1, MeansJoined, PaddedJoined DEF E, F, m, n
  <1>4. [code |-> E \o F, means |-> Then(m, n)] \in Texts(v)
    BY <1>2, <1>3, TextMade
  <1> QED BY <1>4 DEF Joined, E, F, m, n

LEMMA AddedIsObject ==
  ASSUME NEW v, NEW x \in Objects(v), NEW y \in Objects(v)
  PROVE  Added(x, y) \in Objects(v)
  <1>1. Joined(x.first, y.first) \in Texts(v) /\ Joined(x.again, y.again) \in Texts(v)
    BY ObjectFields, JoinedIsText
  <1> QED BY <1>1, ObjectMade DEF Added

LEMMA WhenIsText ==
  ASSUME NEW v \in [Conds -> BOOLEAN], NEW c \in Conds, NEW a \in Texts(v), NEW b \in Texts(v),
         NEW falsy \in BOOLEAN, falsy => b.means = Nil, NEW n \in Nat
  PROVE  [code  |-> When(c, a.code, b.code, falsy, n),
          means |-> IF v[c] THEN a.means ELSE b.means] \in Texts(v)
  <1> DEFINE E == a.code
             F == b.code
             p == a.means
             q == b.means
  <1>1. /\ E \in Seq(Items) /\ p \in Effects /\ Means(v, E, p) /\ Padded(E)
        /\ F \in Seq(Items) /\ q \in Effects /\ Means(v, F, q) /\ Padded(F)
        /\ falsy => q = Nil
    BY TextFields
  <1> HIDE DEF E, F, p, q
  <1>2. When(c, E, F, falsy, n) \in Seq(Items) /\ Means(v, When(c, E, F, falsy, n), IF v[c] THEN p ELSE q)
    BY <1>1, WhenMeaning
  <1>3. Padded(When(c, E, F, falsy, n)) /\ (IF v[c] THEN p ELSE q) \in Effects
    BY <1>1, WhenPadded
  <1>4. [code |-> When(c, E, F, falsy, n), means |-> IF v[c] THEN p ELSE q] \in Texts(v)
    BY <1>2, <1>3, TextMade
  <1> QED BY <1>4 DEF E, F, p, q

Codes(texts)    == [k \in DOMAIN texts |-> texts[k].code]
Meanings(texts) == [k \in DOMAIN texts |-> texts[k].means]

LEMMA CaseIsText ==
  ASSUME NEW v \in [Conds -> BOOLEAN], NEW conds \in Seq(Conds),
         NEW texts \in [1 .. Len(conds) -> Texts(v)], NEW b \in Texts(v),
         NEW falsy \in BOOLEAN, falsy => b.means = Nil, NEW n \in Nat
  PROVE  [code  |-> Case(conds, Codes(texts), b.code, falsy, n),
          means |-> Chosen(v, conds, Meanings(texts), b.means)] \in Texts(v)
  <1> DEFINE codes == Codes(texts)
             ms == Meanings(texts)
             F == b.code
             q == b.means
  <1>0. Len(conds) \in Nat /\ DOMAIN texts = 1 .. Len(conds)
    OBVIOUS
  <1>1. \A k \in 1 .. Len(conds) :
          /\ texts[k].code \in Seq(Items) /\ texts[k].means \in Effects
          /\ Means(v, texts[k].code, texts[k].means) /\ Padded(texts[k].code)
    <2>1. \A k \in 1 .. Len(conds) : texts[k] \in Texts(v)
      OBVIOUS
    <2> QED BY <2>1, TextFields
  <1>2. /\ F \in Seq(Items) /\ q \in Effects /\ Means(v, F, q) /\ Padded(F) /\ (falsy => q = Nil)
    BY TextFields
  <1>3. codes \in [1 .. Len(conds) -> Seq(Items)] /\ ms \in [1 .. Len(conds) -> Effects]
    BY <1>0, <1>1 DEF Codes, Meanings
  <1>4. /\ \A k \in 1 .. Len(conds) : Means(v, codes[k], ms[k]) /\ Padded(codes[k])
    BY <1>0, <1>1 DEF Codes, Meanings
  <1> HIDE DEF codes, ms, F, q
  <1>5. codes \in Seq(Seq(Items)) /\ Len(codes) = Len(conds)
    BY <1>0, <1>3, FunctionIsSeq
  <1>6. /\ Case(conds, codes, F, falsy, n) \in Seq(Items)
        /\ Means(v, Case(conds, codes, F, falsy, n), Chosen(v, conds, ms, q))
    BY <1>2, <1>3, <1>4, <1>5, CaseMeaning
  <1>7. Padded(Case(conds, codes, F, falsy, n))
    BY <1>2, <1>4, <1>5, CasePadded
  <1>8. Chosen(v, conds, ms, q) \in Effects
    <2>1. Chosen(v, conds, ms, q) = q \/ \E k \in 1 .. Len(conds) : Chosen(v, conds, ms, q) = ms[k]
      <3>1. CASE ~ \E k \in DOMAIN conds : v[conds[k]]
        BY <3>1 DEF Chosen
      <3>2. CASE \E k \in DOMAIN conds : v[conds[k]]
        BY <3>2, ChosenIsPicked
      <3> QED BY <3>1, <3>2
    <2> QED BY <1>2, <1>3, <2>1
  <1>9. [code |-> Case(conds, codes, F, falsy, n), means |-> Chosen(v, conds, ms, q)] \in Texts(v)
    BY <1>6, <1>7, <1>8, TextMade
  <1> QED BY <1>9 DEF codes, ms, F, q

LEMMA PackIsObject ==
  ASSUME NEW v, NEW t \in Texts(v)
  PROVE  LET text == [code |-> Pack(t.code), means |-> t.means]
         IN  Object(t.code = <<>>, text, text) \in Objects(v)
  <1> DEFINE E == t.code
             m == t.means
             text == [code |-> Pack(E), means |-> m]
  <1>1. E \in Seq(Items) /\ m \in Effects /\ Means(v, E, m)
    BY TextFields
  <1>2. Pack(E) \in Seq(Items) /\ Means(v, Pack(E), m) /\ Padded(Pack(E))
    BY <1>1, PackMeaning, PackPadded
  <1>3. text \in Texts(v)
    BY <1>1, <1>2, TextMade
  <1>4. E = <<>> => text.means = Nil
    <2> SUFFICES ASSUME E = <<>> PROVE m = Nil
      OBVIOUS
    <2>1. Means(v, <<>>, m)
      BY <1>1
    <2> HIDE DEF m
    <2> QED BY <1>1, <2>1, EmptyMeans
  <1>5. (E = <<>>) \in BOOLEAN
    OBVIOUS
  <1> HIDE DEF text
  <1>6. Object(E = <<>>, text, text) \in Objects(v)
    BY <1>3, <1>4, <1>5, ObjectMade
  <1> QED BY <1>6 DEF text

-----------------------------------------------------------------------------
(* The layout, and a run of it.                                            *)

\* A layout of code that means m: before the end, all of m is done, and perhaps
\* the Exit of the script.
Ending(v, flat, m, e, add_exit) ==
  e \in {Nil, Stop} /\ Closed(v, flat, Then(m, e), Nil) /\ (e = Stop => add_exit)
Sound(v, flat, m, add_exit) ==
  /\ flat \in Seq(Items) /\ m \in Effects /\ Buildable(flat) /\ Padded(flat)
  /\ \E e : Ending(v, flat, m, e, add_exit)
  /\ add_exit => Last(flat).is = "exit"

\* What _code_as_list() makes of good code is a sound layout, if it is buildable.
LEMMA WithExitSound ==
  ASSUME NEW v, NEW t \in Texts(v), NEW add_exit \in BOOLEAN, Buildable(WithExit(Kept(t.code), add_exit))
  PROVE  Sound(v, WithExit(Kept(t.code), add_exit), t.means, add_exit)
  <1> DEFINE K == Kept(t.code)
             m == t.means
             x == [is |-> "exit", packed |-> FALSE]
             flat == WithExit(K, add_exit)
  <1>1. K \in Seq(Items) /\ Means(v, K, m) /\ Padded(K) /\ m \in Effects
    <2>1. t.code \in Seq(Items) /\ m \in Effects /\ Means(v, t.code, m) /\ Padded(t.code)
      BY TextFields
    <2> HIDE DEF m
    <2> QED BY <2>1, KeptMeaning, KeptPadded
  <1> HIDE DEF K, m
  <1>2. Nil \in Effects /\ Stop \in Effects /\ Then(Stop, Nil) = Stop
    BY EffectTypes, ThenFacts
  <1>3. x \in Leaves /\ x \in Items /\ LeafMeans(x) = Stop
    BY ItemTypes DEF Leaves, LeafMeans
  <1>4. CASE add_exit /\ (K = <<>> \/ Last(K).is # "exit")
    <2>1. flat = Append(K, x)
      BY <1>4 DEF WithExit
    <2>2. Append(K, x) = K \o <<x>> /\ Last(Append(K, x)) = x /\ Append(K, x) \in Seq(Items)
      <3>1. ASSUME NEW S, NEW E \in Seq(S), NEW y \in S
            PROVE  Append(E, y) = E \o <<y>> /\ Append(E, y) \in Seq(S) /\ Last(Append(E, y)) = y
        BY DEF Last
      <3> QED BY <1>1, <1>3, <3>1
    <2> HIDE DEF x
    <2>3. Closed(v, <<x>>, Stop, Nil)
      BY <1>2, <1>3, MeansLeaf DEF Means
    <2>4. Closed(v, K, Then(m, Stop), Stop) /\ <<x>> \in Seq(Items) /\ Padded(<<x>>)
      BY <1>1, <1>2, <1>3, ItemSeqs, PaddedLeaves DEF Means
    <2>5. Closed(v, K \o <<x>>, Then(m, Stop), Nil) /\ Padded(K \o <<x>>)
      BY <1>1, <2>3, <2>4, ClosedJoined, PaddedJoined
    <2>6. Ending(v, flat, m, Stop, add_exit)
      BY <1>4, <2>1, <2>2, <2>5 DEF Ending
    <2>7. Last(flat).is = "exit"
      BY <2>1, <2>2 DEF x
    <2> QED BY <1>1, <2>1, <2>2, <2>5, <2>6, <2>7 DEF Sound, K, m
  <1>5. CASE ~(add_exit /\ (K = <<>> \/ Last(K).is # "exit"))
    <2>1. flat = K
      BY <1>5 DEF WithExit
    <2>2. Closed(v, K, Then(m, Nil), Nil)
      BY <1>1, <1>2 DEF Means
    <2>3. Nil # Stop
      BY DEF Nil, Stop
    <2>4. Ending(v, flat, m, Nil, add_exit)
      BY <2>1, <2>2, <2>3 DEF Ending
    <2>5. add_exit => Last(flat).is = "exit"
      BY <1>5, <2>1
    <2> QED BY <1>1, <2>1, <2>4, <2>5 DEF Sound, K, m
  <1> QED BY <1>4, <1>5

\* After the instructions in done, item p is next: by some plan of the whole run,
\* what is still to be done there completes them.
Progress(v, flat, total, done, p) ==
  /\ done \in Seq(Ids) /\ p \in 1 .. Len(flat) + 1
  /\ p = Len(flat) + 1 => Last(flat).is # "exit"
  /\ \E Y, f : /\ Plan(v, flat, Y, Y, f) /\ f[Len(flat)] = Nil
               /\ total.does = done \o f[p - 1].does /\ total.exits = f[p - 1].exits

\* A step to item p that does what more says.
LEMMA ProgressStep ==
  ASSUME NEW v, NEW flat \in Seq(Items), NEW Y, NEW f, NEW total, NEW done \in Seq(Ids),
         Plan(v, flat, Y, Y, f), f[Len(flat)] = Nil,
         NEW q \in 1 .. Len(flat), NEW p \in 1 .. Len(flat) + 1,
         p = Len(flat) + 1 => Last(flat).is # "exit",
         total.does = done \o f[q - 1].does, total.exits = f[q - 1].exits,
         f[q - 1] = f[p - 1]
  PROVE  Progress(v, flat, total, done, p)
  BY DEF Progress

\* The item in front of p is flat[p - 1].
LEMMA LastItem ==
  ASSUME NEW flat \in Seq(Items), NEW p \in 1 .. Len(flat), flat[p].is # "exit"
  PROVE  p + 1 = Len(flat) + 1 => Last(flat).is # "exit"
  BY DEF Last

\* The place of label l, as Target() finds it.
Place(flat, l) == CHOOSE j \in DOMAIN flat : flat[j] = Label(l)

LEMMA LabelsAreUnique ==
  ASSUME NEW flat \in Seq(Items), Buildable(flat), NEW l, NEW k \in 1 .. Len(flat), flat[k] = Label(l)
  PROVE  Place(flat, l) = k
  <1>1. DOMAIN flat = 1 .. Len(flat)
    OBVIOUS
  <1>2. \A j \in DOMAIN flat : flat[j] = Label(l) => j = k
    <2> SUFFICES ASSUME NEW j \in DOMAIN flat, flat[j] = Label(l) PROVE j = k
      OBVIOUS
    <2>1. /\ flat[j].is = "label" /\ flat[k].is = "label" /\ flat[j].at = flat[k].at
      BY DEF Label
    <2> QED BY <1>1, <2>1 DEF Buildable
  <1>3. k \in DOMAIN flat
    BY <1>1
  <1> QED BY <1>2, <1>3 DEF Place

\* Branching keeps what is to be done.
LEMMA ProgressBranch ==
  ASSUME NEW v, NEW flat \in Seq(Items), Buildable(flat), NEW Y, NEW f, Plan(v, flat, Y, Y, f),
         NEW y \in Y
  PROVE  Place(flat, y[1]) \in 1 .. Len(flat) /\ f[Place(flat, y[1]) - 1] = y[2]
  <1>1. PICK k \in 1 .. Len(flat) : flat[k] = Label(y[1]) /\ f[k - 1] = y[2]
    BY DEF Plan, Places
  <1> QED BY <1>1, LabelsAreUnique

\* At the start everything is to be done.
LEMMA ProgressStart ==
  ASSUME NEW v, NEW flat \in Seq(Items), Buildable(flat), NEW total \in Effects,
         Closed(v, flat, total, Nil)
  PROVE  Progress(v, flat, total, <<>>, 1)
  <1>1. PICK Y : Runs(v, flat, Y, Y, total, Nil)
    BY DEF Closed
  <1>2. PICK f : Plan(v, flat, Y, Y, f) /\ f[0] = total /\ f[Len(flat)] = Nil
    BY <1>1 DEF Runs
  <1>3. 1 \in 1 .. Len(flat) + 1 /\ 1 # Len(flat) + 1
    <2>1. PICK j \in DOMAIN flat : TRUE
      BY DEF Buildable
    <2> QED BY <2>1
  <1>4. <<>> \in Seq(Ids) /\ total.does = <<>> \o total.does
    <2>1. total.does \in Seq(Ids)
      BY DEF Effects
    <2> QED BY <2>1
  <1>5. 1 - 1 = 0
    OBVIOUS
  <1> QED BY <1>2, <1>3, <1>4, <1>5 DEF Progress

-----------------------------------------------------------------------------
(* The inductive invariant.                                                *)

Typed ==
  /\ script \in Scripts /\ value \in [Conds -> BOOLEAN] /\ extras \subseteq Extras
  /\ st \in {"making", "python", "running", "stopped", "ran off"}
  /\ pc \in Nat /\ pc >= 1 /\ trace \in Seq(Ids)
Made == stack \in Seq(Objects(value)) /\ (st # "making" => Len(stack) = 1)
LaidOut == layout # None => Sound(value, layout.items, built.means, script.add_exit)
Imaged == images # {} => layout # None /\ images = {layout.items}
Running ==
  /\ st \in {"making", "python"} => trace = <<>>
  /\ st = "running" =>
       /\ layout # None
       /\ \E e : /\ Ending(value, layout.items, built.means, e, script.add_exit)
                 /\ Progress(value, layout.items, Then(built.means, e), trace, pc)
Ended == MacrosMean /\ (st = "ran off" => ~script.add_exit)
IInv == Typed /\ Made /\ LaidOut /\ Imaged /\ Running /\ Ended

LEMMA InitInv == Init => IInv
  <1> SUFFICES ASSUME Init PROVE IInv
    OBVIOUS
  <1>1. Typed
    BY DEF Init, Typed
  <1>2. Made
    <2>1. <<>> \in Seq(Objects(value))
      OBVIOUS
    <2> QED BY <2>1 DEF Init, Made
  <1>3. LaidOut /\ Imaged /\ Running /\ Ended
    BY DEF Init, LaidOut, Imaged, Running, Ended, MacrosMean
  <1> QED BY <1>1, <1>2, <1>3 DEF IInv

\* A step of Python that leaves a good object on the stack.
LEMMA PushKeeps ==
  ASSUME IInv, st = "making", NEW args \in Nat, args <= Len(stack), NEW x \in Objects(value), Push(args, x)
  PROVE  IInv'
  <1>1. /\ stack' = Append(SubSeq(stack, 1, Len(stack) - args), x) /\ pc' = pc + 1
        /\ UNCHANGED <<script, extras, read, layout, built, images, value, st, trace>>
    BY DEF Push, python
  <1>2. Typed'
    BY <1>1 DEF IInv, Typed
  <1>3. Made'
    <2>1. stack \in Seq(Objects(value))
      BY DEF IInv, Made
    <2>2. ASSUME NEW S, NEW E \in Seq(S), NEW i \in Nat, i <= Len(E), NEW y \in S
          PROVE  Append(SubSeq(E, 1, Len(E) - i), y) \in Seq(S)
      <3>1. SubSeq(E, 1, Len(E) - i) \in Seq(S)
        <4>1. \A j \in 1 .. Len(E) - i : j \in 1 .. Len(E)
          BY <2>2
        <4> QED BY <4>1, <2>2
      <3> QED BY <3>1
    <2>3. stack' \in Seq(Objects(value))
      BY <1>1, <2>1, <2>2
    <2> QED BY <1>1, <2>3 DEF Made
  <1>4. LaidOut' /\ Imaged' /\ Running' /\ Ended'
    BY <1>1 DEF IInv, LaidOut, Imaged, Running, Ended, MacrosMean
  <1> QED BY <1>2, <1>3, <1>4 DEF IInv

\* What the steps name, and what they find on the stack.
LEMMA StepTypes ==
  ASSUME IInv, NEW kind, NEW args \in Nat, Evaluates(kind, args)
  PROVE  /\ st = "making" /\ Step \in Steps /\ args <= Len(stack) /\ Step.is = kind
         /\ kind = "leaf" => Step.item \in Leaves
         /\ kind = "when" => Step.cond \in Conds
         /\ kind = "case" => Step.conds \in Seq(Conds)
         /\ \A k \in 1 .. args : Arg(k, args) \in Objects(value)
         /\ args > 0 => Last(stack) \in Objects(value)
  <1>1. st = "making" /\ pc <= Len(script.steps) /\ Step.is = kind /\ Len(stack) >= args
    BY DEF Evaluates
  <1>2. Step \in Steps
    <2>1. script.steps \in Seq(Steps) /\ pc \in Nat /\ pc >= 1
      BY ScriptAssumption DEF IInv, Typed
    <2>2. pc \in 1 .. Len(script.steps)
      BY <1>1, <2>1
    <2> QED BY <2>1, <2>2 DEF Step
  <1>3. /\ kind = "leaf" => Step.item \in Leaves
        /\ kind = "when" => Step.cond \in Conds
        /\ kind = "case" => Step.conds \in Seq(Conds)
    <2> DEFINE x == Step
    <2> HIDE DEF x
    <2>1. x \in Steps /\ x.is = kind
      BY <1>1, <1>2 DEF x
    <2>2. /\ x.is = "leaf" => x.item \in Leaves
          /\ x.is = "when" => x.cond \in Conds
          /\ x.is = "case" => x.conds \in Seq(Conds)
      BY <2>1 DEF Steps
    <2> QED BY <2>1, <2>2 DEF x
  <1>4. stack \in Seq(Objects(value)) /\ Len(stack) \in Nat
    BY DEF IInv, Made
  <1>5. ASSUME NEW k \in 1 .. args PROVE Arg(k, args) \in Objects(value)
    <2>1. Len(stack) - args + k \in 1 .. Len(stack)
      BY <1>1, <1>4
    <2> QED BY <1>4, <2>1 DEF Arg
  <1>6. args > 0 => Last(stack) \in Objects(value)
    <2>1. args > 0 => Len(stack) \in 1 .. Len(stack)
      BY <1>1, <1>4
    <2> QED BY <1>4, <2>1 DEF Last
  <1> QED BY <1>1, <1>2, <1>3, <1>4, <1>5, <1>6

LEMMA MakeLeafInv == IInv /\ MakeLeaf => IInv'
  <1> SUFFICES ASSUME IInv, MakeLeaf PROVE IInv'
    OBVIOUS
  <1>1. Evaluates("leaf", 0) /\ Push(0, Leaf(Step.item)) /\ 0 \in Nat
    BY DEF MakeLeaf
  <1>2. st = "making" /\ 0 <= Len(stack) /\ Step.item \in Leaves
    BY <1>1, StepTypes
  <1>3. Leaf(Step.item) \in Objects(value)
    BY <1>2, LeafIsObject
  <1> QED BY <1>1, <1>2, <1>3, PushKeeps

LEMMA MakeListInv == IInv /\ MakeList => IInv'
  <1> SUFFICES ASSUME IInv, MakeList PROVE IInv'
    OBVIOUS
  <1>1. Evaluates("list", 0) /\ Push(0, Object(TRUE, Empty, Empty)) /\ 0 \in Nat
    BY DEF MakeList
  <1>2. st = "making" /\ 0 <= Len(stack)
    BY <1>1, StepTypes
  <1>3. Object(TRUE, Empty, Empty) \in Objects(value)
    BY EmptyIsText, ObjectMade
  <1> QED BY <1>1, <1>2, <1>3, PushKeeps

LEMMA AddToListInv == IInv /\ AddToList => IInv'
  <1> SUFFICES ASSUME IInv, AddToList PROVE IInv'
    OBVIOUS
  <1>1. Evaluates("add", 2) /\ Push(2, Added(Arg(1, 2), Arg(2, 2))) /\ 2 \in Nat /\ 1 \in 1 .. 2 /\ 2 \in 1 .. 2
    BY DEF AddToList
  <1>2. st = "making" /\ 2 <= Len(stack) /\ Arg(1, 2) \in Objects(value) /\ Arg(2, 2) \in Objects(value)
    BY <1>1, StepTypes
  <1>3. Added(Arg(1, 2), Arg(2, 2)) \in Objects(value)
    BY <1>2, AddedIsObject
  <1> QED BY <1>1, <1>2, <1>3, PushKeeps

LEMMA MakeIteratorInv == IInv /\ MakeIterator => IInv'
  <1> SUFFICES ASSUME IInv, MakeIterator PROVE IInv'
    OBVIOUS
  <1>1. Evaluates("iter", 1) /\ Push(1, Object(FALSE, Arg(1, 1).first, Empty)) /\ 1 \in Nat /\ 1 \in 1 .. 1
    <2>1. Evaluates("iter", 1) /\ Push(1, Object(FALSE, Arg(1, 1).first, Empty))
      BY Zenon DEF MakeIterator
    <2>2. 1 \in Nat /\ 1 \in 1 .. 1
      OBVIOUS
    <2> QED BY <2>1, <2>2, Zenon
  <1>2. st = "making" /\ 1 <= Len(stack) /\ Arg(1, 1) \in Objects(value)
    BY <1>1, StepTypes
  <1>3. Arg(1, 1).first \in Texts(value) /\ Empty \in Texts(value)
    BY <1>2, ObjectFields, EmptyIsText
  <1>4. Object(FALSE, Arg(1, 1).first, Empty) \in Objects(value)
    BY <1>3, ObjectMade
  <1> QED BY <1>1, <1>2, <1>4, PushKeeps

LEMMA CallWhenInv == IInv /\ CallWhen => IInv'
  <1> SUFFICES ASSUME IInv, CallWhen PROVE IInv'
    OBVIOUS
  <1> DEFINE a == Arg(1, 2)
             b == Last(stack)
             x == Object(FALSE, WhenYields(a.first, b.first), WhenYields(a.again, b.again))
  <1>1. Evaluates("when", 2) /\ Push(2, x) /\ 2 \in Nat /\ 1 \in 1 .. 2
    <2>1. Evaluates("when", 2) /\ Push(2, x)
      BY Zenon DEF CallWhen
    <2>2. 2 \in Nat /\ 1 \in 1 .. 2
      OBVIOUS
    <2> QED BY <2>1, <2>2, Zenon
  <1>2. st = "making" /\ 2 <= Len(stack) /\ a \in Objects(value) /\ b \in Objects(value) /\ Step.cond \in Conds
    BY <1>1, StepTypes
  <1>3. value \in [Conds -> BOOLEAN] /\ pc \in Nat
    BY DEF IInv, Typed
  <1>4. /\ a.first \in Texts(value) /\ a.again \in Texts(value)
        /\ b.first \in Texts(value) /\ b.again \in Texts(value) /\ b.falsy \in BOOLEAN
        /\ b.falsy => b.first.means = Nil /\ b.again.means = Nil
    BY <1>2, ObjectFields
  <1>5. \A p, q \in Texts(value) : (b.falsy => q.means = Nil) => WhenYields(p, q) \in Texts(value)
    <2> SUFFICES ASSUME NEW p \in Texts(value), NEW q \in Texts(value), b.falsy => q.means = Nil
                 PROVE  WhenYields(p, q) \in Texts(value)
      OBVIOUS
    <2> DEFINE falsy == b.falsy
               c == Step.cond
    <2>1. falsy \in BOOLEAN /\ c \in Conds /\ (falsy => q.means = Nil)
      BY <1>2, <1>4
    <2>2. WhenYields(p, q) = [code  |-> When(c, p.code, q.code, falsy, pc),
                              means |-> IF value[c] THEN p.means ELSE q.means]
      BY DEF WhenYields, WhenMeans
    <2> HIDE DEF falsy, c
    <2> QED BY <1>3, <2>1, <2>2, WhenIsText
  <1> HIDE DEF a, b
  <1>6. x \in Objects(value)
    <2>1. WhenYields(a.first, b.first) \in Texts(value) /\ WhenYields(a.again, b.again) \in Texts(value)
      BY <1>4, <1>5
    <2> QED BY <2>1, ObjectMade
  <1> HIDE DEF x
  <1> QED BY <1>1, <1>2, <1>6, PushKeeps

LEMMA CallCaseInv == IInv /\ CallCase => IInv'
  <1> SUFFICES ASSUME IInv, CallCase PROVE IInv'
    OBVIOUS
  <1> DEFINE conds == Step.conds
             n == Len(conds)
             b == Last(stack)
             A == [k \in 1 .. n |-> Arg(k, n + 1).first]
             B == [k \in 1 .. n |-> Arg(k, n + 1).again]
             x == Object(FALSE, CaseYields(A, b.first), CaseYields(B, b.again))
  <1>1. Evaluates("case", n + 1) /\ Push(n + 1, x)
    BY DEF CallCase
  <1>2. conds \in Seq(Conds) /\ n \in Nat /\ n + 1 \in Nat /\ n + 1 > 0
    <2>1. st = "making" /\ pc <= Len(script.steps) /\ Step.is = "case"
      BY <1>1 DEF Evaluates
    <2>2. script.steps \in Seq(Steps) /\ pc \in Nat /\ pc >= 1
      BY ScriptAssumption DEF IInv, Typed
    <2>3. pc \in 1 .. Len(script.steps)
      BY <2>1, <2>2
    <2>4. Step \in Steps
      BY <2>2, <2>3 DEF Step
    <2>5. conds \in Seq(Conds)
      <3> DEFINE y == Step
      <3> HIDE DEF y
      <3>1. y \in Steps /\ y.is = "case"
        BY <2>1, <2>4 DEF y
      <3>2. y.conds \in Seq(Conds)
        BY <3>1 DEF Steps
      <3> QED BY <3>2 DEF y
    <2> QED BY <2>5
  <1> HIDE DEF conds, n
  <1>3. /\ st = "making" /\ n + 1 <= Len(stack) /\ b \in Objects(value)
        /\ \A k \in 1 .. n + 1 : Arg(k, n + 1) \in Objects(value)
    BY <1>1, <1>2, StepTypes
  <1>4. value \in [Conds -> BOOLEAN] /\ pc \in Nat
    BY DEF IInv, Typed
  <1>5. /\ b.first \in Texts(value) /\ b.again \in Texts(value) /\ b.falsy \in BOOLEAN
        /\ b.falsy => b.first.means = Nil /\ b.again.means = Nil
    BY <1>3, ObjectFields
  <1>6. A \in [1 .. n -> Texts(value)] /\ B \in [1 .. n -> Texts(value)]
    <2>1. \A k \in 1 .. n : Arg(k, n + 1).first \in Texts(value) /\ Arg(k, n + 1).again \in Texts(value)
      <3> SUFFICES ASSUME NEW k \in 1 .. n
                   PROVE  Arg(k, n + 1).first \in Texts(value) /\ Arg(k, n + 1).again \in Texts(value)
        OBVIOUS
      <3>1. k \in 1 .. n + 1
        BY <1>2
      <3>2. Arg(k, n + 1) \in Objects(value)
        BY <1>3, <3>1
      <3> QED BY <3>2, ObjectFields
    <2> QED BY <2>1
  <1>7. \A p \in [1 .. n -> Texts(value)], q \in Texts(value) :
          (b.falsy => q.means = Nil) => CaseYields(p, q) \in Texts(value)
    <2> SUFFICES ASSUME NEW p \in [1 .. n -> Texts(value)], NEW q \in Texts(value), b.falsy => q.means = Nil
                 PROVE  CaseYields(p, q) \in Texts(value)
      OBVIOUS
    <2> DEFINE falsy == b.falsy
    <2>1. falsy \in BOOLEAN /\ (falsy => q.means = Nil)
      BY <1>5
    <2>2. CaseYields(p, q) = [code  |-> Case(conds, Codes(p), q.code, falsy, pc),
                              means |-> Chosen(value, conds, Meanings(p), q.means)]
      BY DEF CaseYields, CaseMeans, Chosen, Codes, Meanings, conds
    <2> HIDE DEF falsy
    <2> QED BY <1>2, <1>4, <2>1, <2>2, CaseIsText DEF n
  <1> HIDE DEF b, A, B
  <1>8. x \in Objects(value)
    <2>1. CaseYields(A, b.first) \in Texts(value) /\ CaseYields(B, b.again) \in Texts(value)
      BY <1>5, <1>6, <1>7
    <2> QED BY <2>1, ObjectMade
  <1> HIDE DEF x
  <1> QED BY <1>1, <1>2, <1>3, <1>8, PushKeeps

LEMMA CallPackInv == IInv /\ CallPack => IInv'
  <1> SUFFICES ASSUME IInv, CallPack PROVE IInv'
    OBVIOUS
  <1> DEFINE t == Arg(1, 1).first
             text == [code |-> Pack(t.code), means |-> t.means]
             x == Object(t.code = <<>>, text, text)
  <1>1. Evaluates("pack", 1) /\ Push(1, x) /\ 1 \in Nat /\ 1 \in 1 .. 1
    BY DEF CallPack
  <1>2. st = "making" /\ 1 <= Len(stack) /\ Arg(1, 1) \in Objects(value)
    BY <1>1, StepTypes
  <1>3. t \in Texts(value)
    BY <1>2, ObjectFields
  <1>4. x \in Objects(value)
    <2> HIDE DEF t
    <2> QED BY <1>3, PackIsObject
  <1> HIDE DEF x
  <1> QED BY <1>1, <1>2, <1>4, PushKeeps

LEMMA MakeScriptInv == IInv /\ MakeScript => IInv'
  <1> SUFFICES ASSUME IInv, MakeScript PROVE IInv'
    OBVIOUS
  <1>1. /\ st = "making" /\ Len(stack) = 1 /\ st' = "python"
        /\ UNCHANGED <<script, extras, read, layout, built, images, value, stack, pc, trace>>
    BY DEF MakeScript, python
  <1>2. Typed' /\ Made'
    BY <1>1 DEF IInv, Typed, Made
  <1>3. LaidOut' /\ Imaged' /\ Running' /\ Ended'
    BY <1>1 DEF IInv, LaidOut, Imaged, Running, Ended, MacrosMean
  <1> QED BY <1>2, <1>3 DEF IInv

\* Behind the making, the code of the script is the only object.
LEMMA TheCode ==
  ASSUME IInv, st # "making"
  PROVE  stack[1] \in Objects(value) /\ Text \in Texts(value)
  <1>1. stack \in Seq(Objects(value)) /\ Len(stack) = 1
    BY DEF IInv, Made
  <1>2. stack[1] \in Objects(value)
    BY <1>1
  <1>3. stack[1].first \in Texts(value) /\ stack[1].again \in Texts(value)
    BY <1>2, ObjectFields
  <1> QED BY <1>2, <1>3 DEF Text

LEMMA ExtendInv == IInv /\ Extend => IInv'
  <1> SUFFICES ASSUME IInv, Extend PROVE IInv'
    OBVIOUS
  <1>1. PICK t \in extras : stack' = <<Added(stack[1], Leaf(t))>> /\ extras' = extras \ {t}
    BY DEF Extend
  <1>2. st = "python" /\ UNCHANGED <<script, read, layout, built, images, value, st, pc, trace>>
    BY DEF Extend
  <1>3. Typed'
    BY <1>1, <1>2 DEF IInv, Typed
  <1>4. Made'
    <2>1. t \in Leaves
      BY <1>1, ScriptAssumption DEF IInv, Typed
    <2>2. stack[1] \in Objects(value) /\ Leaf(t) \in Objects(value)
      BY <1>2, <2>1, TheCode, LeafIsObject
    <2> DEFINE x == Added(stack[1], Leaf(t))
    <2>3. x \in Objects(value)
      BY <2>2, AddedIsObject
    <2> HIDE DEF x
    <2>4. <<x>> \in Seq(Objects(value)) /\ Len(<<x>>) = 1
      BY <2>3
    <2>5. stack' = <<x>> /\ value' = value
      BY <1>1, <1>2 DEF x
    <2> QED BY <2>4, <2>5 DEF Made
  <1>5. LaidOut' /\ Imaged' /\ Running' /\ Ended'
    BY <1>2 DEF IInv, LaidOut, Imaged, Running, Ended, MacrosMean
  <1> QED BY <1>3, <1>4, <1>5 DEF IInv

LEMMA BuildLayoutInv == IInv /\ BuildLayout => IInv'
  <1> SUFFICES ASSUME IInv, BuildLayout PROVE IInv'
    OBVIOUS
  <1> DEFINE flat == CodeAsList(Text.code)
  <1>1. /\ st = "python" /\ layout = None
        /\ UNCHANGED <<script, stack, extras, images, value, st, pc, trace>>
    BY DEF BuildLayout
  <1>2. \/ /\ Buildable(flat) /\ layout' = [is |-> "layout", items |-> flat]
           /\ built' = [code |-> stack[1].first.code, means |-> Text.means]
        \/ UNCHANGED <<layout, built>>
    BY DEF BuildLayout
  <1>3. Typed' /\ Made'
    BY <1>1 DEF IInv, Typed, Made
  <1>4. LaidOut'
    <2>1. CASE UNCHANGED <<layout, built>>
      BY <1>1, <2>1 DEF LaidOut
    <2>2. CASE /\ Buildable(flat) /\ layout' = [is |-> "layout", items |-> flat]
               /\ built' = [code |-> stack[1].first.code, means |-> Text.means]
      <3> DEFINE t == Text
                 add == script.add_exit
      <3>1. t \in Texts(value)
        BY <1>1, TheCode
      <3>2. add \in BOOLEAN
        BY ScriptAssumption DEF IInv, Typed
      <3>3. flat = WithExit(Kept(t.code), add)
        BY DEF CodeAsList
      <3> HIDE DEF t, flat
      <3>4. Sound(value, flat, t.means, add)
        BY <2>2, <3>1, <3>2, <3>3, WithExitSound
      <3>5. layout'.items = flat /\ built'.means = t.means
        BY <2>2 DEF t
      <3> QED BY <1>1, <3>4, <3>5 DEF LaidOut
    <2> QED BY <1>2, <2>1, <2>2
  <1>5. Imaged' /\ Running'
    BY <1>1 DEF IInv, Imaged, Running
  <1>6. Ended'
    BY <1>1 DEF IInv, Ended, MacrosMean
  <1> QED BY <1>3, <1>4, <1>5, <1>6 DEF IInv

LEMMA EncodeInv == IInv /\ Encode => IInv'
  <1> SUFFICES ASSUME IInv, Encode PROVE IInv'
    OBVIOUS
  <1>1. /\ st = "python" /\ layout # None /\ images' = images \cup {layout.items}
        /\ UNCHANGED <<script, stack, extras, read, layout, built, value, st, pc, trace>>
    BY DEF Encode, Encoded
  <1>2. Typed' /\ Made'
    BY <1>1 DEF IInv, Typed, Made
  <1>3. LaidOut' /\ Running' /\ Ended'
    BY <1>1 DEF IInv, LaidOut, Running, Ended, MacrosMean
  <1>4. Imaged'
    <2>1. images = {} \/ images = {layout.items}
      BY DEF IInv, Imaged
    <2>2. images' = {layout.items}
      BY <1>1, <2>1
    <2> QED BY <1>1, <2>2 DEF Imaged
  <1> QED BY <1>2, <1>3, <1>4 DEF IInv

LEMMA StartInv == IInv /\ Start => IInv'
  <1> SUFFICES ASSUME IInv, Start PROVE IInv'
    OBVIOUS
  <1>1. /\ st = "python" /\ images # {} /\ st' = "running" /\ pc' = 1
        /\ UNCHANGED <<script, extras, read, layout, built, images, value, stack, trace>>
    BY DEF Start, python
  <1>2. Typed' /\ Made'
    BY <1>1 DEF IInv, Typed, Made
  <1>3. LaidOut' /\ Imaged' /\ Ended'
    BY <1>1 DEF IInv, LaidOut, Imaged, Ended, MacrosMean
  <1>4. Running'
    <2> DEFINE flat == layout.items
               m == built.means
    <2>1. layout # None /\ trace = <<>>
      BY <1>1 DEF IInv, Imaged, Running
    <2>2. Sound(value, flat, m, script.add_exit)
      BY <2>1 DEF IInv, LaidOut
    <2>3. PICK e : Ending(value, flat, m, e, script.add_exit)
      BY <2>2 DEF Sound
    <2>4. Progress(value, flat, Then(m, e), <<>>, 1)
      <3>1. flat \in Seq(Items) /\ Buildable(flat) /\ m \in Effects
        BY <2>2 DEF Sound
      <3>2. e \in Effects /\ Closed(value, flat, Then(m, e), Nil)
        BY <2>3, EffectTypes DEF Ending
      <3> HIDE DEF flat, m
      <3>3. Then(m, e) \in Effects
        BY <3>1, <3>2, EffectTypes
      <3> QED BY <3>1, <3>2, <3>3, ProgressStart
    <2> QED BY <1>1, <2>1, <2>3, <2>4 DEF Running
  <1> QED BY <1>2, <1>3, <1>4 DEF IInv

\* A running script, and what its items are.
LEMMA RunFacts ==
  ASSUME IInv, st = "running"
  PROVE  /\ layout # None /\ layout.items \in Seq(Items) /\ Buildable(layout.items)
         /\ script.add_exit => Last(layout.items).is = "exit"
         /\ built.means \in Effects /\ value \in [Conds -> BOOLEAN]
         /\ trace \in Seq(Ids) /\ pc \in 1 .. Len(layout.items) + 1
         /\ pc = Len(layout.items) + 1 => Last(layout.items).is # "exit"
         /\ \E e : /\ Ending(value, layout.items, built.means, e, script.add_exit)
                   /\ Progress(value, layout.items, Then(built.means, e), trace, pc)
  <1>1. layout # None
    BY DEF IInv, Running
  <1>2. PICK e : /\ Ending(value, layout.items, built.means, e, script.add_exit)
                 /\ Progress(value, layout.items, Then(built.means, e), trace, pc)
    BY DEF IInv, Running
  <1>3. Sound(value, layout.items, built.means, script.add_exit)
    BY <1>1 DEF IInv, LaidOut
  <1>4. value \in [Conds -> BOOLEAN]
    BY DEF IInv, Typed
  <1>5. /\ layout.items \in Seq(Items) /\ Buildable(layout.items) /\ built.means \in Effects
        /\ script.add_exit => Last(layout.items).is = "exit"
    BY <1>3 DEF Sound
  <1>6. /\ trace \in Seq(Ids) /\ pc \in 1 .. Len(layout.items) + 1
        /\ pc = Len(layout.items) + 1 => Last(layout.items).is # "exit"
    BY <1>2 DEF Progress
  <1> QED BY <1>1, <1>2, <1>4, <1>5, <1>6

\* A step of the machine that keeps the progress keeps the invariant.
LEMMA MachineKeeps ==
  ASSUME IInv, st = "running", Ran, st' = st, pc' \in Nat, pc' >= 1, trace' \in Seq(Ids),
         \A e : (/\ Ending(value, layout.items, built.means, e, script.add_exit)
                 /\ Progress(value, layout.items, Then(built.means, e), trace, pc))
                  => Progress(value, layout.items, Then(built.means, e), trace', pc')
  PROVE  IInv'
  <1>1. UNCHANGED <<script, extras, read, layout, built, images, value, stack, st>>
    BY DEF Ran, python
  <1>2. Typed' /\ Made'
    BY <1>1 DEF IInv, Typed, Made
  <1>3. LaidOut' /\ Imaged' /\ Ended'
    BY <1>1 DEF IInv, LaidOut, Imaged, Ended, MacrosMean
  <1>4. Running'
    <2>1. PICK e : /\ Ending(value, layout.items, built.means, e, script.add_exit)
                   /\ Progress(value, layout.items, Then(built.means, e), trace, pc)
      BY RunFacts
    <2>2. Progress(value, layout.items, Then(built.means, e), trace', pc')
      BY <2>1
    <2>3. layout # None
      BY RunFacts
    <2> QED BY <1>1, <2>1, <2>2, <2>3 DEF Running
  <1> QED BY <1>2, <1>3, <1>4 DEF IInv

\* The item that is next.
LEMMA ItemFacts ==
  ASSUME IInv, NEW kinds, At(kinds)
  PROVE  /\ st = "running" /\ pc \in 1 .. Len(layout.items) /\ pc \in Nat
         /\ Item = layout.items[pc] /\ Item \in Items /\ Item.is \in kinds
         /\ pc + 1 \in 1 .. Len(layout.items) + 1 /\ (pc + 1) - 1 = pc
         /\ Item.is # "exit" => (pc + 1 = Len(layout.items) + 1 => Last(layout.items).is # "exit")
  <1>1. st = "running" /\ pc <= Len(layout.items) /\ layout.items[pc].is \in kinds
    BY DEF At
  <1>2. layout.items \in Seq(Items) /\ pc \in 1 .. Len(layout.items) + 1
    BY <1>1, RunFacts
  <1>3. pc \in 1 .. Len(layout.items) /\ pc \in Nat /\ (pc + 1) - 1 = pc /\ pc + 1 \in 1 .. Len(layout.items) + 1
    BY <1>1, <1>2
  <1>4. Item = layout.items[pc] /\ Item \in Items
    BY <1>2, <1>3 DEF Item
  <1>5. Item.is # "exit" => (pc + 1 = Len(layout.items) + 1 => Last(layout.items).is # "exit")
    BY <1>2, <1>3, <1>4, LastItem
  <1> QED BY <1>1, <1>3, <1>4, <1>5

\* By any plan of the run, what is to be done at the item that is next.
LEMMA PlanAtItem ==
  ASSUME NEW v, NEW flat \in Seq(Items), NEW Y, NEW f, Plan(v, flat, Y, Y, f), NEW p \in 1 .. Len(flat)
  PROVE  Fits(v, flat[p], f[p - 1], f[p], Y) /\ f[p - 1] \in Effects /\ f[p] \in Effects
  <1>1. f \in [0 .. Len(flat) -> Effects] /\ p - 1 \in 0 .. Len(flat) /\ p \in 0 .. Len(flat)
    BY DEF Plan
  <1> QED BY <1>1 DEF Plan

LEMMA SkipInv == IInv /\ Skip => IInv'
  <1> SUFFICES ASSUME IInv, Skip PROVE IInv'
    OBVIOUS
  <1> DEFINE flat == layout.items
             kinds == {"label", "nopad"}
  <1>1. At(kinds) /\ pc' = pc + 1 /\ Ran /\ st' = st /\ trace' = trace
    BY DEF Skip
  <1>2. /\ st = "running" /\ pc \in 1 .. Len(flat) /\ pc \in Nat
        /\ Item = flat[pc] /\ Item.is \in kinds
        /\ pc + 1 \in 1 .. Len(flat) + 1 /\ (pc + 1) - 1 = pc
        /\ Item.is # "exit" => (pc + 1 = Len(flat) + 1 => Last(flat).is # "exit")
    BY <1>1, ItemFacts
  <1>3. flat \in Seq(Items) /\ trace \in Seq(Ids)
    BY <1>2, RunFacts
  <1> HIDE DEF flat
  <1>4. ASSUME NEW total, Progress(value, flat, total, trace, pc)
        PROVE  Progress(value, flat, total, trace, pc + 1)
    <2>1. PICK Y, f : /\ Plan(value, flat, Y, Y, f) /\ f[Len(flat)] = Nil
                      /\ total.does = trace \o f[pc - 1].does /\ total.exits = f[pc - 1].exits
      BY <1>4 DEF Progress
    <2>2. Fits(value, Item, f[pc - 1], f[pc], Y)
      BY <1>2, <1>3, <2>1, PlanAtItem
    <2>3. f[pc - 1] = f[pc]
      BY <1>2, <2>2 DEF Fits, IsInst
    <2>4. pc + 1 = Len(flat) + 1 => Last(flat).is # "exit"
      BY <1>2
    <2> QED BY <1>2, <1>3, <2>1, <2>3, <2>4, ProgressStep
  <1> QED BY <1>1, <1>2, <1>3, <1>4, MachineKeeps DEF flat

LEMMA ExecuteInv == IInv /\ Execute => IInv'
  <1> SUFFICES ASSUME IInv, Execute PROVE IInv'
    OBVIOUS
  <1> DEFINE flat == layout.items
             kinds == {"inst"}
             id == Item.id
  <1>1. At(kinds) /\ pc' = pc + 1 /\ Ran /\ st' = st /\ trace' = Append(trace, id)
    BY DEF Execute
  <1>2. /\ st = "running" /\ pc \in 1 .. Len(flat) /\ pc \in Nat
        /\ Item = flat[pc] /\ Item \in Items /\ Item.is \in kinds
        /\ pc + 1 \in 1 .. Len(flat) + 1 /\ (pc + 1) - 1 = pc
        /\ Item.is # "exit" => (pc + 1 = Len(flat) + 1 => Last(flat).is # "exit")
    BY <1>1, ItemFacts
  <1>3. flat \in Seq(Items) /\ trace \in Seq(Ids)
    BY <1>2, RunFacts
  <1>4. id \in Ids /\ LeafMeans(Item) = [does |-> <<id>>, exits |-> FALSE]
    <2>1. Item.is = "inst"
      BY <1>2
    <2> QED BY <1>2, <2>1, ItemFields DEF LeafMeans
  <1> HIDE DEF flat, id
  <1>5. Append(trace, id) \in Seq(Ids)
    BY <1>3, <1>4
  <1>6. ASSUME NEW total, Progress(value, flat, total, trace, pc)
        PROVE  Progress(value, flat, total, Append(trace, id), pc + 1)
    <2>1. PICK Y, f : /\ Plan(value, flat, Y, Y, f) /\ f[Len(flat)] = Nil
                      /\ total.does = trace \o f[pc - 1].does /\ total.exits = f[pc - 1].exits
      BY <1>6 DEF Progress
    <2>2. Fits(value, Item, f[pc - 1], f[pc], Y) /\ f[pc] \in Effects
      BY <1>2, <1>3, <2>1, PlanAtItem
    <2>3. f[pc - 1] = Then(LeafMeans(Item), f[pc])
      BY <1>2, <2>2 DEF Fits
    <2>4. f[pc - 1] = [does |-> <<id>> \o f[pc].does, exits |-> f[pc].exits]
      BY <1>4, <2>3 DEF Then
    <2>5. trace \o (<<id>> \o f[pc].does) = Append(trace, id) \o f[pc].does
      <3>1. f[pc].does \in Seq(Ids)
        BY <2>2 DEF Effects
      <3>2. ASSUME NEW E \in Seq(Ids), NEW F \in Seq(Ids), NEW x \in Ids
            PROVE  E \o (<<x>> \o F) = Append(E, x) \o F
        OBVIOUS
      <3> QED BY <1>3, <1>4, <3>1, <3>2
    <2>6. total.does = Append(trace, id) \o f[(pc + 1) - 1].does /\ total.exits = f[(pc + 1) - 1].exits
      <3>1. f[(pc + 1) - 1] = f[pc]
        BY <1>2
      <3>2. f[pc - 1].does = <<id>> \o f[pc].does /\ f[pc - 1].exits = f[pc].exits
        BY <2>4
      <3>3. total.does = trace \o (<<id>> \o f[pc].does) /\ total.exits = f[pc].exits
        BY <2>1, <3>2
      <3> QED BY <2>5, <3>1, <3>3
    <2>7. pc + 1 = Len(flat) + 1 => Last(flat).is # "exit"
      BY <1>2
    <2> QED BY <1>2, <1>5, <2>1, <2>6, <2>7 DEF Progress
  <1> QED BY <1>1, <1>2, <1>5, <1>6, MachineKeeps DEF flat

\* A branch that is taken.
LEMMA BranchKeeps ==
  ASSUME IInv, NEW kinds, At(kinds), Ran, st' = st, trace' = trace, pc' = Target(Item.to),
         \A Y, a, b : Fits(value, Item, a, b, Y) => <<Item.to, a>> \in Y
  PROVE  IInv'
  <1> DEFINE flat == layout.items
             l == Item.to
             p == Place(flat, l)
  <1>1. st = "running" /\ pc \in 1 .. Len(flat) /\ Item = flat[pc]
    BY ItemFacts
  <1>2. flat \in Seq(Items) /\ trace \in Seq(Ids) /\ Buildable(flat)
    BY <1>1, RunFacts
  <1>3. pc' = p
    BY DEF Target, Place
  <1>4. \A Y, a, b : Fits(value, Item, a, b, Y) => <<l, a>> \in Y
    OBVIOUS
  <1>5. ASSUME NEW total, Progress(value, flat, total, trace, pc)
        PROVE  p \in 1 .. Len(flat) /\ Progress(value, flat, total, trace, p)
    <2> HIDE DEF flat, l
    <2>1. PICK Y, f : /\ Plan(value, flat, Y, Y, f) /\ f[Len(flat)] = Nil
                      /\ total.does = trace \o f[pc - 1].does /\ total.exits = f[pc - 1].exits
      BY <1>5 DEF Progress
    <2>2. Fits(value, Item, f[pc - 1], f[pc], Y)
      BY <1>1, <1>2, <2>1, PlanAtItem
    <2>3. <<l, f[pc - 1]>> \in Y
      BY <1>4, <2>2
    <2>4. p \in 1 .. Len(flat) /\ f[p - 1] = f[pc - 1]
      <3> DEFINE y == <<l, f[pc - 1]>>
      <3>1. Plan(value, flat, Y, Y, f) /\ y \in Y /\ y[1] = l /\ y[2] = f[pc - 1]
        BY <2>1, <2>3
      <3> HIDE DEF y
      <3>2. Place(flat, y[1]) \in 1 .. Len(flat) /\ f[Place(flat, y[1]) - 1] = y[2]
        BY <1>2, <3>1, ProgressBranch
      <3> QED BY <3>1, <3>2
    <2> HIDE DEF p
    <2>5. p \in 1 .. Len(flat) + 1 /\ p # Len(flat) + 1
      BY <1>2, <2>4
    <2> QED BY <1>1, <1>2, <2>1, <2>4, <2>5, ProgressStep
  <1>6. \E e : Progress(value, flat, Then(built.means, e), trace, pc)
    BY <1>1, RunFacts
  <1>7. pc' \in Nat /\ pc' >= 1
    <2>1. p \in 1 .. Len(flat)
      BY <1>5, <1>6
    <2> HIDE DEF p
    <2> QED BY <1>3, <2>1
  <1>8. \A total : Progress(value, flat, total, trace, pc) => Progress(value, flat, total, trace', pc')
    <2> HIDE DEF p, flat
    <2> QED BY <1>3, <1>5
  <1>9. trace' \in Seq(Ids)
    BY <1>2
  <1> HIDE DEF p
  <1> QED BY <1>1, <1>7, <1>8, <1>9, MachineKeeps

LEMMA BranchInv == IInv /\ Branch => IInv'
  <1> SUFFICES ASSUME IInv, Branch PROVE IInv'
    OBVIOUS
  <1> DEFINE kinds == {"br"}
  <1>1. At(kinds) /\ pc' = Target(Item.to) /\ Ran /\ st' = st /\ trace' = trace
    BY DEF Branch
  <1>2. Item.is = "br"
    <2>1. Item.is \in kinds
      BY <1>1, ItemFacts
    <2> QED BY <2>1
  <1>3. \A Y, a, b : Fits(value, Item, a, b, Y) => <<Item.to, a>> \in Y
    BY <1>2 DEF Fits
  <1> QED BY <1>1, <1>3, BranchKeeps

LEMMA BranchIfInv == IInv /\ BranchIf => IInv'
  <1> SUFFICES ASSUME IInv, BranchIf PROVE IInv'
    OBVIOUS
  <1> DEFINE flat == layout.items
             kinds == {"brif"}
  <1>1. /\ At(kinds) /\ Ran /\ st' = st /\ trace' = trace
        /\ pc' = IF value[Item.cond] = Item.on THEN Target(Item.to) ELSE pc + 1
    BY DEF BranchIf
  <1>2. /\ st = "running" /\ pc \in 1 .. Len(flat) /\ pc \in Nat
        /\ Item = flat[pc] /\ Item.is \in kinds
        /\ pc + 1 \in 1 .. Len(flat) + 1 /\ (pc + 1) - 1 = pc
        /\ Item.is # "exit" => (pc + 1 = Len(flat) + 1 => Last(flat).is # "exit")
    BY <1>1, ItemFacts
  <1>3. flat \in Seq(Items) /\ trace \in Seq(Ids)
    BY <1>2, RunFacts
  <1>4. CASE value[Item.cond] = Item.on
    <2>1. \A Y, a, b : Fits(value, Item, a, b, Y) => <<Item.to, a>> \in Y
      BY <1>2, <1>4 DEF Fits
    <2>2. pc' = Target(Item.to)
      BY <1>1, <1>4
    <2> QED BY <1>1, <2>1, <2>2, BranchKeeps
  <1>5. CASE value[Item.cond] # Item.on
    <2> HIDE DEF flat
    <2>1. ASSUME NEW total, Progress(value, flat, total, trace, pc)
          PROVE  Progress(value, flat, total, trace, pc + 1)
      <3>1. PICK Y, f : /\ Plan(value, flat, Y, Y, f) /\ f[Len(flat)] = Nil
                        /\ total.does = trace \o f[pc - 1].does /\ total.exits = f[pc - 1].exits
        BY <2>1 DEF Progress
      <3>2. Fits(value, Item, f[pc - 1], f[pc], Y)
        BY <1>2, <1>3, <3>1, PlanAtItem
      <3>3. f[pc - 1] = f[pc]
        BY <1>2, <1>5, <3>2 DEF Fits
      <3>4. pc + 1 = Len(flat) + 1 => Last(flat).is # "exit"
        BY <1>2
      <3> QED BY <1>2, <1>3, <3>1, <3>3, <3>4, ProgressStep
    <2>2. pc' = pc + 1
      BY <1>1, <1>5
    <2> QED BY <1>1, <1>2, <1>3, <2>1, <2>2, MachineKeeps DEF flat
  <1> QED BY <1>4, <1>5

\* The end of the whole, with or without the Exit of the script.
LEMMA TotalFields ==
  ASSUME NEW v, NEW flat, NEW m \in Effects, NEW e, NEW add_exit, Ending(v, flat, m, e, add_exit)
  PROVE  Then(m, e).does = m.does /\ (Then(m, e).exits => m.exits \/ add_exit) /\ (m.exits => Then(m, e).exits)
  <1>1. e \in {Nil, Stop} /\ (e = Stop => add_exit)
    BY DEF Ending
  <1>2. e \in Effects /\ e.does = <<>> /\ (e.exits => e = Stop)
    <2>1. CASE e = Nil
      BY <2>1, EffectTypes DEF Nil
    <2>2. CASE e = Stop
      BY <2>2, EffectTypes DEF Stop
    <2> QED BY <1>1, <2>1, <2>2
  <1>3. /\ Then(m, e).does = IF m.exits THEN m.does ELSE m.does \o e.does
        /\ Then(m, e).exits = (m.exits \/ e.exits)
    BY <1>2, ThenFacts
  <1>4. m.does \in Seq(Ids)
    BY DEF Effects
  <1>5. m.does \o <<>> = m.does
    BY <1>4
  <1> QED BY <1>1, <1>2, <1>3, <1>5

LEMMA ExitInv == IInv /\ Exit => IInv'
  <1> SUFFICES ASSUME IInv, Exit PROVE IInv'
    OBVIOUS
  <1> DEFINE flat == layout.items
             kinds == {"exit"}
             m == built.means
  <1>1. /\ At(kinds) /\ st' = "stopped"
        /\ UNCHANGED <<script, extras, read, layout, built, images, value, stack, pc, trace>>
    BY DEF Exit, Ran, python
  <1>2. st = "running" /\ pc \in 1 .. Len(flat) /\ Item = flat[pc] /\ Item.is \in kinds
    BY <1>1, ItemFacts
  <1>3. flat \in Seq(Items) /\ trace \in Seq(Ids) /\ m \in Effects
    BY <1>2, RunFacts
  <1>4. PICK e : Ending(value, flat, m, e, script.add_exit) /\ Progress(value, flat, Then(m, e), trace, pc)
    BY <1>2, RunFacts
  <1> HIDE DEF flat, m
  <1>5. trace = m.does /\ (m.exits \/ script.add_exit)
    <2> DEFINE total == Then(m, e)
    <2> HIDE DEF total
    <2>1. PICK Y, f : /\ Plan(value, flat, Y, Y, f) /\ f[Len(flat)] = Nil
                      /\ total.does = trace \o f[pc - 1].does /\ total.exits = f[pc - 1].exits
      BY <1>4 DEF Progress, total
    <2>2. Fits(value, Item, f[pc - 1], f[pc], Y) /\ f[pc] \in Effects
      BY <1>2, <1>3, <2>1, PlanAtItem
    <2>3. f[pc - 1] = Then(LeafMeans(Item), f[pc]) /\ LeafMeans(Item) = Stop
      BY <1>2, <2>2 DEF Fits, LeafMeans
    <2>4. f[pc - 1] = Stop
      BY <2>2, <2>3, ThenFacts, EffectTypes
    <2>5. total.does = trace \o <<>> /\ total.exits
      BY <2>1, <2>4 DEF Stop
    <2>6. trace \o <<>> = trace
      BY <1>3
    <2>7. total.does = m.does /\ (total.exits => m.exits \/ script.add_exit)
      BY <1>3, <1>4, TotalFields DEF total
    <2> QED BY <2>5, <2>6, <2>7
  <1>6. Typed' /\ Made'
    BY <1>1, <1>2 DEF IInv, Typed, Made
  <1>7. LaidOut' /\ Imaged' /\ Running'
    BY <1>1 DEF IInv, LaidOut, Imaged, Running
  <1>8. Ended'
    BY <1>1, <1>5 DEF Ended, MacrosMean, m
  <1> QED BY <1>6, <1>7, <1>8 DEF IInv

LEMMA RunOffInv == IInv /\ RunOff => IInv'
  <1> SUFFICES ASSUME IInv, RunOff PROVE IInv'
    OBVIOUS
  <1> DEFINE flat == layout.items
             m == built.means
  <1>1. /\ st = "running" /\ pc > Len(flat) /\ st' = "ran off"
        /\ UNCHANGED <<script, extras, read, layout, built, images, value, stack, pc, trace>>
    BY DEF RunOff, Ran, python
  <1>2. /\ flat \in Seq(Items) /\ trace \in Seq(Ids) /\ m \in Effects
        /\ script.add_exit => Last(flat).is = "exit"
        /\ pc \in 1 .. Len(flat) + 1 /\ (pc = Len(flat) + 1 => Last(flat).is # "exit")
    BY <1>1, RunFacts
  <1>3. pc = Len(flat) + 1 /\ pc - 1 = Len(flat) /\ ~script.add_exit
    <2>1. pc = Len(flat) + 1 /\ pc - 1 = Len(flat)
      <3> HIDE DEF flat
      <3>1. Len(flat) \in Nat
        BY <1>2
      <3>2. pc > Len(flat) /\ pc \in 1 .. Len(flat) + 1
        BY <1>1, <1>2, Zenon
      <3> QED BY <3>1, <3>2
    <2> QED BY <1>2, <2>1
  <1>4. PICK e : Ending(value, flat, m, e, script.add_exit) /\ Progress(value, flat, Then(m, e), trace, pc)
    BY <1>1, RunFacts
  <1> HIDE DEF flat, m
  <1>5. trace = m.does /\ ~m.exits
    <2> DEFINE total == Then(m, e)
    <2> HIDE DEF total
    <2>1. PICK Y, f : /\ Plan(value, flat, Y, Y, f) /\ f[Len(flat)] = Nil
                      /\ total.does = trace \o f[pc - 1].does /\ total.exits = f[pc - 1].exits
      BY <1>4 DEF Progress, total
    <2>2. total.does = trace \o <<>> /\ ~total.exits
      <3>1. f[pc - 1] = Nil
        BY <1>3, <2>1
      <3>2. Nil.does = <<>> /\ Nil.exits = FALSE
        BY DEF Nil
      <3> QED BY <2>1, <3>1, <3>2
    <2>3. trace \o <<>> = trace
      BY <1>2
    <2>4. total.does = m.does /\ (m.exits => total.exits)
      BY <1>2, <1>4, TotalFields DEF total
    <2> QED BY <2>2, <2>3, <2>4
  <1>6. Typed' /\ Made'
    BY <1>1 DEF IInv, Typed, Made
  <1>7. LaidOut' /\ Imaged' /\ Running'
    BY <1>1 DEF IInv, LaidOut, Imaged, Running
  <1>8. Ended'
    BY <1>1, <1>3, <1>5 DEF Ended, MacrosMean, m
  <1> QED BY <1>6, <1>7, <1>8 DEF IInv

LEMMA StutterInv == IInv /\ UNCHANGED vars => IInv'
  <1> SUFFICES ASSUME IInv, UNCHANGED vars PROVE IInv'
    OBVIOUS
  <1>1. Typed' /\ Made'
    BY DEF IInv, Typed, Made, vars
  <1>2. LaidOut' /\ Imaged' /\ Running' /\ Ended'
    BY DEF IInv, LaidOut, Imaged, Running, Ended, MacrosMean, vars
  <1> QED BY <1>1, <1>2 DEF IInv

\* The invariant is inductive.
LEMMA Inductive == Spec => []IInv
  <1>1. IInv /\ [Next]_vars => IInv'
    BY MakeLeafInv, MakeListInv, AddToListInv, MakeIteratorInv, CallWhenInv, CallCaseInv,
       CallPackInv, MakeScriptInv, ExtendInv, BuildLayoutInv, EncodeInv, StartInv, SkipInv,
       ExecuteInv, BranchInv, BranchIfInv, ExitInv, RunOffInv, StutterInv, Zenon
    DEF Next, Making
  <1> QED BY InitInv, <1>1, PTL DEF Spec

-----------------------------------------------------------------------------
(* Theorems.                                                               *)

\* The pc of a run stays in the image or right behind it, and a script with an Exit
\* never runs off its end.
THEOREM TypeCorrect == Spec => []TypeOK
  <1>1. IInv => TypeOK
    <2> SUFFICES ASSUME IInv PROVE TypeOK
      OBVIOUS
    <2>1. st = "running" => pc \in 1 .. Len(layout.items) + 1
      BY RunFacts
    <2> QED BY <2>1 DEF IInv, Typed, Ended, TypeOK
  <1> QED BY Inductive, <1>1, PTL

\* For every nested code: a run of the flat code executes the instructions of its
\* meaning, in order and no more, up to its first Exit or the one of the script.
THEOREM MacrosProved == Spec => []MacrosMean
  <1>1. IInv => MacrosMean
    BY DEF IInv, Ended
  <1> QED BY Inductive, <1>1, PTL

\* No collection, macro or call of _code_as_list() separates an instruction that
\* pack() was given from its NoPad.
THEOREM PackedProved == Spec => []PackedUnpadded
  <1>1. IInv => PackedUnpadded
    <2> SUFFICES ASSUME IInv, layout # None PROVE PackedUnpadded
      BY DEF PackedUnpadded
    <2>1. layout.items \in Seq(Items) /\ Padded(layout.items)
      BY DEF IInv, LaidOut, Sound
    <2>2. DOMAIN layout.items = 1 .. Len(layout.items)
      BY <2>1
    <2> QED BY <2>1, <2>2 DEF Padded, PackedUnpadded
  <1> QED BY Inductive, <1>1, PTL

\* However often it is encoded and whatever is appended meanwhile, a script has one
\* image.
THEOREM ImagesProved == Spec => []OneImage
  <1>1. IInv => OneImage
    BY DEF IInv, Imaged, OneImage
  <1> QED BY Inductive, <1>1, PTL
=============================================================================
