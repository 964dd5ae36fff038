---------------------------- MODULE CodecProofs ----------------------------
(***************************************************************************)
(* What holds of the encoder and the decoder for every instruction class,  *)
(* every value, every shape and number of operands.  A number is known by  *)
(* its bits (BitOf), a sequence made of others by where each of them       *)
(* begins (Upto), the decoder's place by the parts it is behind (Place).   *)
(* The last two sections compare the bytes with the sizes of Varint.       *)
(***************************************************************************)
EXTENDS Codec, SequenceTheorems, TLAPS

-----------------------------------------------------------------------------
(* Induction, as WordProofs has it: a predicate is the set of the numbers  *)
(* it holds for.                                                           *)

W == INSTANCE WordProofs WITH ByteBits <- 8

LEMMA SetInduction ==
  ASSUME NEW S, 0 \in S, \A n \in Nat : n \in S => n + 1 \in S
  PROVE  \A n \in Nat : n \in S
  BY W!SetInduction

LEMMA LeastOf ==
  ASSUME NEW T, T \subseteq Nat, T # {}
  PROVE  \E n \in T : \A k \in T : n <= k
  <1> SUFFICES ASSUME ~ \E n \in T : \A k \in T : n <= k PROVE FALSE
    OBVIOUS
  <1> DEFINE S == {n \in Nat : \A k \in T : n < k}
  <1>1. 0 \in S
    OBVIOUS
  <1>2. ASSUME NEW n \in Nat, n \in S PROVE n + 1 \in S
    <2>1. n + 1 \notin T
      BY <1>2
    <2> QED BY <1>2, <2>1
  <1>3. \A n \in Nat : n \in S
    <2> HIDE DEF S
    <2> QED BY <1>1, <1>2, SetInduction
  <1>4. PICK k \in T : TRUE
    OBVIOUS
  <1>5. k \in S
    BY <1>3
  <1> QED BY <1>5

-----------------------------------------------------------------------------
(* Sequences of sequences.                                                 *)

\* What the first j of the sequences s make.
Upto(s, j) == FlattenSeq(SubSeq(s, 1, j))

\* f[j] is what the first j of the sequences s make, for j up to n.
IsCat(f, n, s, X) ==
  /\ f \in [0 .. n -> Seq(X)] /\ f[0] = <<>>
  /\ \A i \in 0 .. n - 1 : f[i + 1] = f[i] \o s[i + 1]

LEMMA CatExists ==
  ASSUME NEW X, NEW s \in Seq(Seq(X))
  PROVE  \E f : IsCat(f, Len(s), s, X)
  <1> DEFINE Good == {n \in Nat : n <= Len(s) => \E f : IsCat(f, n, s, X)}
  <1>1. 0 \in Good
    <2>1. IsCat([i \in 0 .. 0 |-> <<>>], 0, s, X)
      BY DEF IsCat
    <2> QED BY <2>1
  <1>2. ASSUME NEW n \in Nat, n \in Good PROVE n + 1 \in Good
    <2> SUFFICES ASSUME n + 1 <= Len(s) PROVE \E f : IsCat(f, n + 1, s, X)
      OBVIOUS
    <2>1. n <= Len(s) /\ n + 1 \in DOMAIN s
      OBVIOUS
    <2>2. PICK f : IsCat(f, n, s, X)
      BY <1>2, <2>1
    <2>3. f \in [0 .. n -> Seq(X)] /\ s[n + 1] \in Seq(X) /\ n \in 0 .. n
      BY <2>1, <2>2 DEF IsCat
    <2>4. f[n] \o s[n + 1] \in Seq(X)
      BY <2>3
    <2> DEFINE g == [i \in 0 .. n + 1 |-> IF i = n + 1 THEN f[n] \o s[n + 1] ELSE f[i]]
    <2>5. g \in [0 .. n + 1 -> Seq(X)]
      <3>1. ASSUME NEW i \in 0 .. n + 1
            PROVE  (IF i = n + 1 THEN f[n] \o s[n + 1] ELSE f[i]) \in Seq(X)
        <4>1. CASE i = n + 1
          BY <4>1, <2>4
        <4>2. CASE i # n + 1
          <5>1. i \in 0 .. n
            BY <4>2
          <5> QED BY <4>2, <5>1, <2>3
        <4> QED BY <4>1, <4>2
      <3> QED BY <3>1
    <2>6. g[0] = <<>>
      <3>1. 0 \in 0 .. n + 1 /\ 0 # n + 1
        OBVIOUS
      <3> QED BY <2>2, <3>1 DEF IsCat
    <2>7. ASSUME NEW i \in 0 .. (n + 1) - 1 PROVE g[i + 1] = g[i] \o s[i + 1]
      <3>1. g[i] = f[i]
        <4>1. i \in 0 .. n + 1 /\ i # n + 1
          OBVIOUS
        <4> QED BY <4>1
      <3>2. CASE i = n
        <4>0. n + 1 \in 0 .. n + 1
          OBVIOUS
        <4>1. g[n + 1] = f[n] \o s[n + 1]
          BY <4>0, Zenon
        <4> HIDE DEF g
        <4> QED BY <3>1, <3>2, <4>1
      <3>3. CASE i # n
        <4>1. i \in 0 .. n - 1 /\ i + 1 \in 0 .. n + 1 /\ i + 1 # n + 1
          BY <3>3
        <4>2. g[i + 1] = f[i + 1]
          BY <4>1
        <4> HIDE DEF g
        <4> QED BY <3>1, <4>1, <4>2, <2>2 DEF IsCat
      <3> QED BY <3>2, <3>3
    <2>8. IsCat(g, n + 1, s, X)
      <3> HIDE DEF g
      <3> QED BY <2>5, <2>6, <2>7 DEF IsCat
    <2> QED BY <2>8
  <1>3. \A n \in Nat : n \in Good
    <2> HIDE DEF Good
    <2> QED BY <1>1, <1>2, SetInduction
  <1>4. Len(s) \in Nat /\ Len(s) <= Len(s)
    OBVIOUS
  <1> QED BY <1>3, <1>4

\* The function FlattenSeq() is defined with is the same.
FlattensBy(g, s) == g = [i \in 1 .. Len(s) |-> IF i = 1 THEN s[i] ELSE g[i - 1] \o s[i]]
LEMMA CatUnique ==
  ASSUME NEW X, NEW s \in Seq(Seq(X)), NEW f, IsCat(f, Len(s), s, X), NEW g, FlattensBy(g, s)
  PROVE  \A i \in 1 .. Len(s) : g[i] = f[i]
  <1> DEFINE Same == {i \in Nat : i \in 1 .. Len(s) => g[i] = f[i]}
  <1>1. 0 \in Same
    OBVIOUS
  <1>2. ASSUME NEW i \in Nat, i \in Same, i + 1 \in 1 .. Len(s) PROVE g[i + 1] = f[i + 1]
    <2>1. f[i + 1] = f[i] \o s[i + 1] /\ f[0] = <<>>
      <3>1. i \in 0 .. Len(s) - 1
        BY <1>2
      <3> QED BY <3>1 DEF IsCat
    <2>2. CASE i = 0
      <3>1. s[1] \in Seq(X) /\ 1 \in 1 .. Len(s)
        BY <1>2, <2>2
      <3>2. <<>> \o s[1] = s[1]
        BY <3>1
      <3>3. g[1] = s[1]
        BY <3>1, Zenon DEF FlattensBy
      <3>4. i + 1 = 1
        BY <2>2
      <3>5. f[1] = f[0] \o s[1]
        BY <2>1, <2>2, <3>4, Zenon
      <3>6. g[1] = f[1]
        BY <2>1, <3>2, <3>3, <3>5, Zenon
      <3> QED BY <3>4, <3>6, Zenon
    <2>3. CASE i # 0
      <3>1. i \in 1 .. Len(s) /\ (i + 1) - 1 = i /\ i + 1 # 1
        BY <1>2, <2>3
      <3>2. g[i] = f[i]
        BY <1>2, <3>1
      <3>3. g[i + 1] = IF i + 1 = 1 THEN s[i + 1] ELSE g[(i + 1) - 1] \o s[i + 1]
        BY <1>2, Zenon DEF FlattensBy
      <3>4. g[i + 1] = g[i] \o s[i + 1]
        BY <3>1, <3>3, Zenon
      <3> QED BY <2>1, <3>2, <3>4
    <2> QED BY <2>2, <2>3
  <1>3. ASSUME NEW i \in Nat, i \in Same PROVE i + 1 \in Same
    <2>1. i + 1 \in Nat
      OBVIOUS
    <2>2. i + 1 \in 1 .. Len(s) => g[i + 1] = f[i + 1]
      BY <1>2, <1>3, Zenon
    <2> QED BY <2>1, <2>2, Zenon
  <1>4. \A i \in Nat : i \in Same
    <2> HIDE DEF Same
    <2> QED BY <1>1, <1>3, SetInduction
  <1> QED BY <1>4

\* FlattenSeq() is defined by a function of 1 .. Len(s); there is but one.
LEMMA FlattenIsCat ==
  ASSUME NEW X, NEW s \in Seq(Seq(X)), NEW f, IsCat(f, Len(s), s, X), Len(s) # 0
  PROVE  FlattenSeq(s) = f[Len(s)]
  <1> DEFINE n == Len(s)
             Eqn(g) == g = [i \in 1 .. Len(s) |-> IF i = 1 THEN s[i] ELSE g[i - 1] \o s[i]]
             g0 == [i \in 1 .. Len(s) |-> f[i]]
             g1 == CHOOSE g : Eqn(g)
  <1>0. n \in Nat /\ n >= 1
    OBVIOUS
  <1>1. Eqn(g0)
    <2>1. ASSUME NEW i \in 1 .. Len(s)
          PROVE  f[i] = IF i = 1 THEN s[i] ELSE g0[i - 1] \o s[i]
      <3>1. i - 1 \in 0 .. Len(s) - 1 /\ (i - 1) + 1 = i
        OBVIOUS
      <3>2. f[i] = f[i - 1] \o s[i]
        BY <3>1 DEF IsCat
      <3>3. CASE i = 1
        <4>1. f[0] = <<>> /\ s[1] \in Seq(X)
          BY <1>0 DEF IsCat
        <4>2. <<>> \o s[1] = s[1]
          BY <4>1
        <4>3. i - 1 = 0
          BY <3>3
        <4> QED BY <3>2, <3>3, <4>1, <4>2, <4>3
      <3>4. CASE i # 1
        <4>1. i - 1 \in 1 .. Len(s)
          BY <3>4
        <4>2. g0[i - 1] = f[i - 1]
          BY <4>1
        <4> HIDE DEF g0
        <4> QED BY <3>2, <3>4, <4>2
      <3> QED BY <3>3, <3>4
    <2>2. g0 = [i \in 1 .. Len(s) |-> IF i = 1 THEN s[i] ELSE g0[i - 1] \o s[i]]
      BY <2>1
    <2> QED BY <2>2
  <1>2. Eqn(g1)
    <2> HIDE DEF Eqn, g0
    <2> QED BY <1>1
  <1>3. FlattenSeq(s) = g1[Len(s)]
    BY DEF FlattenSeq
  <1> HIDE DEF g1, g0
  <1>4. FlattensBy(g1, s)
    BY <1>2, Zenon DEF FlattensBy
  <1> HIDE DEF Eqn
  <1>5. \A i \in 1 .. Len(s) : g1[i] = f[i]
    BY <1>4, CatUnique
  <1>6. g1[n] = f[n]
    BY <1>0, <1>5
  <1> QED BY <1>3, <1>6

LEMMA UptoIsCat ==
  ASSUME NEW X, NEW s \in Seq(Seq(X)), NEW f, IsCat(f, Len(s), s, X), NEW j \in 0 .. Len(s)
  PROVE  Upto(s, j) = f[j]
  <1> DEFINE t == SubSeq(s, 1, j)
  <1>1. t \in Seq(Seq(X)) /\ Len(t) = j /\ \A i \in 1 .. j : t[i] = s[i]
    OBVIOUS
  <1> HIDE DEF t
  <1>2. CASE j = 0
    <2>1. t = <<>> /\ Len(t) = 0
      BY <1>1, <1>2
    <2>2. FlattenSeq(t) = t
      BY <2>1 DEF FlattenSeq
    <2> QED BY <1>2, <2>1, <2>2 DEF t, Upto, IsCat
  <1>3. CASE j # 0
    <2> DEFINE e == [i \in 0 .. j |-> f[i]]
    <2>1. IsCat(e, Len(t), t, X)
      <3>1. ASSUME NEW i \in 0 .. Len(t) - 1 PROVE e[i + 1] = e[i] \o t[i + 1]
        <4>1. i \in 0 .. Len(s) - 1 /\ i + 1 \in 1 .. j /\ i \in 0 .. j /\ i + 1 \in 0 .. j
          BY <1>1
        <4>2. f[i + 1] = f[i] \o s[i + 1]
          BY <4>1 DEF IsCat
        <4> QED BY <4>1, <4>2, <1>1
      <3>2. e \in [0 .. j -> Seq(X)]
        BY DEF IsCat
      <3>3. e[0] = <<>>
        BY DEF IsCat
      <3> HIDE DEF e
      <3> QED BY <3>1, <3>2, <3>3, <1>1 DEF IsCat
    <2>2. FlattenSeq(t) = e[Len(t)]
      <3> HIDE DEF e
      <3> QED BY <2>1, <1>1, <1>3, FlattenIsCat
    <2> QED BY <2>2, <1>1 DEF Upto, t
  <1> QED BY <1>2, <1>3

\* What FlattenSeq() makes of the first sequences, one after the other.
LEMMA UptoFacts ==
  ASSUME NEW X, NEW s \in Seq(Seq(X))
  PROVE  /\ Upto(s, 0) = <<>>
         /\ \A j \in 0 .. Len(s) : Upto(s, j) \in Seq(X)
         /\ \A j \in 0 .. Len(s) - 1 : Upto(s, j + 1) = Upto(s, j) \o s[j + 1]
         /\ Upto(s, Len(s)) = FlattenSeq(s)
  <1>1. PICK f : IsCat(f, Len(s), s, X)
    BY CatExists
  <1>2. \A j \in 0 .. Len(s) : Upto(s, j) = f[j]
    BY <1>1, UptoIsCat
  <1>3. SubSeq(s, 1, Len(s)) = s
    OBVIOUS
  <1>4. Upto(s, Len(s)) = FlattenSeq(s)
    BY <1>3 DEF Upto
  <1>5. Len(s) \in Nat
    OBVIOUS
  <1>6. \A j \in 0 .. Len(s) - 1 : j \in 0 .. Len(s) /\ j + 1 \in 0 .. Len(s)
    BY <1>5
  <1>7. \A j \in 0 .. Len(s) - 1 : Upto(s, j + 1) = Upto(s, j) \o s[j + 1]
    BY <1>1, <1>2, <1>6 DEF IsCat
  <1>8. Upto(s, 0) = <<>> /\ \A j \in 0 .. Len(s) : Upto(s, j) \in Seq(X)
    BY <1>1, <1>2, <1>5 DEF IsCat
  <1> QED BY <1>4, <1>7, <1>8


-----------------------------------------------------------------------------
(* Sums.                                                                   *)

\* f[j] is what the first j of the numbers of s add up to.
Adds(f, s, n) ==
  /\ f \in [0 .. n -> Int] /\ f[0] = 0
  /\ \A i \in 0 .. n - 1 : f[i + 1] = f[i] + s[i + 1]

SumsUp(g, s) == g = [k \in 0 .. Len(s) |-> IF k = 0 THEN 0 ELSE g[k - 1] + s[k]]

LEMMA TotalChosen ==
  ASSUME NEW s
  PROVE  Total(s) = (CHOOSE g : SumsUp(g, s))[Len(s)]
  BY DEF Total, SumsUp

LEMMA AddsSumUp ==
  ASSUME NEW s, Len(s) \in Nat, NEW f, Adds(f, s, Len(s))
  PROVE  SumsUp(f, s)
  <1>1. ASSUME NEW k \in 0 .. Len(s)
        PROVE  f[k] = IF k = 0 THEN 0 ELSE f[k - 1] + s[k]
    <2>1. CASE k = 0
      BY <2>1 DEF Adds
    <2>2. CASE k # 0
      <3>1. k - 1 \in 0 .. Len(s) - 1 /\ (k - 1) + 1 = k
        BY <2>2
      <3> QED BY <2>2, <3>1 DEF Adds
    <2> QED BY <2>1, <2>2
  <1>2. f = [k \in 0 .. Len(s) |-> f[k]]
    BY DEF Adds
  <1> QED BY <1>1, <1>2 DEF SumsUp

LEMMA TotalIs ==
  ASSUME NEW s, Len(s) \in Nat, NEW f, Adds(f, s, Len(s))
  PROVE  Total(s) = f[Len(s)]
  <1> DEFINE g == CHOOSE h : SumsUp(h, s)
  <1>1. SumsUp(g, s)
    BY AddsSumUp
  <1>2. Total(s) = g[Len(s)]
    BY TotalChosen
  <1> HIDE DEF g
  <1> DEFINE Good == {k \in Nat : k <= Len(s) => g[k] = f[k]}
  <1>3. 0 \in Good
    <2>1. 0 \in 0 .. Len(s)
      OBVIOUS
    <2>2. g[0] = 0
      BY <1>1, <2>1 DEF SumsUp
    <2> QED BY <2>2 DEF Adds
  <1>4. ASSUME NEW k \in Nat, k \in Good PROVE k + 1 \in Good
    <2> SUFFICES ASSUME k + 1 <= Len(s) PROVE g[k + 1] = f[k + 1]
      OBVIOUS
    <2>1. k + 1 \in 0 .. Len(s) /\ k + 1 # 0 /\ (k + 1) - 1 = k /\ k \in 0 .. Len(s) - 1
      OBVIOUS
    <2>2. g[k + 1] = g[k] + s[k + 1]
      BY <1>1, <2>1, Zenon DEF SumsUp
    <2>3. f[k + 1] = f[k] + s[k + 1]
      BY <2>1 DEF Adds
    <2> QED BY <1>4, <2>2, <2>3
  <1>5. \A k \in Nat : k \in Good
    <2> HIDE DEF Good
    <2> QED BY <1>3, <1>4, SetInduction
  <1> QED BY <1>2, <1>5

LEMMA AddsExist ==
  ASSUME NEW s, Len(s) \in Nat, \A i \in 1 .. Len(s) : s[i] \in Int
  PROVE  \E f : Adds(f, s, Len(s))
  <1> DEFINE Good == {n \in Nat : n <= Len(s) => \E f : Adds(f, s, n)}
  <1>1. 0 \in Good
    <2>1. Adds([i \in 0 .. 0 |-> 0], s, 0)
      BY DEF Adds
    <2> QED BY <2>1
  <1>2. ASSUME NEW n \in Nat, n \in Good PROVE n + 1 \in Good
    <2> SUFFICES ASSUME n + 1 <= Len(s) PROVE \E f : Adds(f, s, n + 1)
      OBVIOUS
    <2>1. n <= Len(s) /\ n + 1 \in 1 .. Len(s)
      OBVIOUS
    <2>2. PICK f : Adds(f, s, n)
      BY <1>2, <2>1
    <2>3. f \in [0 .. n -> Int] /\ s[n + 1] \in Int /\ n \in 0 .. n
      BY <2>1, <2>2 DEF Adds
    <2>4. f[n] + s[n + 1] \in Int
      BY <2>3
    <2> DEFINE g == [i \in 0 .. n + 1 |-> IF i = n + 1 THEN f[n] + s[n + 1] ELSE f[i]]
    <2>5. g \in [0 .. n + 1 -> Int]
      <3>1. ASSUME NEW i \in 0 .. n + 1
            PROVE  (IF i = n + 1 THEN f[n] + s[n + 1] ELSE f[i]) \in Int
        <4>1. CASE i = n + 1
          BY <4>1, <2>4
        <4>2. CASE i # n + 1
          <5>1. i \in 0 .. n
            BY <4>2
          <5> QED BY <4>2, <5>1, <2>3
        <4> QED BY <4>1, <4>2
      <3> QED BY <3>1
    <2>6. g[0] = 0
      <3>1. 0 \in 0 .. n + 1 /\ 0 # n + 1
        OBVIOUS
      <3> QED BY <2>2, <3>1 DEF Adds
    <2>7. ASSUME NEW i \in 0 .. (n + 1) - 1 PROVE g[i + 1] = g[i] + s[i + 1]
      <3>1. g[i] = f[i]
        <4>1. i \in 0 .. n + 1 /\ i # n + 1
          OBVIOUS
        <4> QED BY <4>1
      <3>2. CASE i = n
        BY <3>1, <3>2
      <3>3. CASE i # n
        <4>1. i \in 0 .. n - 1 /\ i + 1 \in 0 .. n + 1 /\ i + 1 # n + 1
          BY <3>3
        <4>2. g[i + 1] = f[i + 1]
          BY <4>1
        <4>3. f[i + 1] = f[i] + s[i + 1]
          BY <2>2, <4>1 DEF Adds
        <4> QED BY <3>1, <4>2, <4>3
      <3> QED BY <3>2, <3>3
    <2> HIDE DEF g
    <2>8. Adds(g, s, n + 1)
      BY <2>5, <2>6, <2>7 DEF Adds
    <2> QED BY <2>8
  <1>3. \A n \in Nat : n \in Good
    <2> HIDE DEF Good
    <2> QED BY <1>1, <1>2, SetInduction
  <1> QED BY <1>3
LEMMA UptoLen ==
  ASSUME NEW X, NEW s \in Seq(Seq(X))
  PROVE  /\ Len(Upto(s, 0)) = 0
         /\ \A j \in 0 .. Len(s) : Len(Upto(s, j)) \in Nat
         /\ \A j \in 0 .. Len(s) - 1 : Len(Upto(s, j + 1)) = Len(Upto(s, j)) + Len(s[j + 1])
         /\ Len(Upto(s, Len(s))) = Len(FlattenSeq(s))
  <1>1. \A j \in 0 .. Len(s) : Len(Upto(s, j)) \in Nat
    BY UptoFacts
  <1>2. ASSUME NEW j \in 0 .. Len(s) - 1
        PROVE  Len(Upto(s, j + 1)) = Len(Upto(s, j)) + Len(s[j + 1])
    <2>1. Upto(s, j + 1) = Upto(s, j) \o s[j + 1] /\ Upto(s, j) \in Seq(X) /\ s[j + 1] \in Seq(X)
      <3>1. j \in 0 .. Len(s) /\ j + 1 \in DOMAIN s
        OBVIOUS
      <3> QED BY <3>1, UptoFacts
    <2> QED BY <2>1
  <1>3. Upto(s, 0) = <<>> /\ Len(Upto(s, 0)) = 0
    BY UptoFacts
  <1>4. Upto(s, Len(s)) = FlattenSeq(s)
    BY UptoFacts
  <1> QED BY <1>1, <1>2, <1>3, <1>4

LEMMA UptoMonotone ==
  ASSUME NEW X, NEW s \in Seq(Seq(X)), NEW i \in 0 .. Len(s), NEW j \in i .. Len(s)
  PROVE  Len(Upto(s, i)) <= Len(Upto(s, j))
  <1> DEFINE Good == {n \in Nat : i + n <= Len(s) => Len(Upto(s, i)) <= Len(Upto(s, i + n))}
  <1>0. ASSUME NEW p \in 0 .. Len(s) - 1, Len(Upto(s, i)) <= Len(Upto(s, p))
        PROVE  Len(Upto(s, i)) <= Len(Upto(s, p + 1))
    <2>1. p \in 0 .. Len(s) /\ p + 1 \in DOMAIN s
      OBVIOUS
    <2>2. s[p + 1] \in Seq(X)
      BY <2>1
    <2>3. Len(Upto(s, p + 1)) = Len(Upto(s, p)) + Len(s[p + 1])
      BY UptoLen
    <2>4. Len(Upto(s, p)) \in Nat /\ Len(Upto(s, i)) \in Nat /\ Len(s[p + 1]) \in Nat
      BY <2>1, <2>2, UptoLen
    <2> HIDE DEF Good
    <2> QED BY <1>0, <2>3, <2>4
  <1>1. 0 \in Good
    <2>1. i + 0 = i /\ Len(Upto(s, i)) \in Nat
      BY UptoLen
    <2> QED BY <2>1
  <1>2. ASSUME NEW n \in Nat, n \in Good PROVE n + 1 \in Good
    <2> SUFFICES ASSUME i + (n + 1) <= Len(s) PROVE Len(Upto(s, i)) <= Len(Upto(s, i + (n + 1)))
      OBVIOUS
    <2>1. i + n \in 0 .. Len(s) - 1 /\ i + (n + 1) = (i + n) + 1 /\ i + n <= Len(s)
      OBVIOUS
    <2>2. Len(Upto(s, i)) <= Len(Upto(s, i + n))
      BY <1>2, <2>1
    <2>3. Len(Upto(s, i)) <= Len(Upto(s, (i + n) + 1))
      <3> HIDE DEF Good
      <3> QED BY <1>0, <2>1, <2>2
    <2> QED BY <2>1, <2>3, Zenon
  <1>3. \A n \in Nat : n \in Good
    <2> HIDE DEF Good
    <2> QED BY <1>1, <1>2, SetInduction
  <1>4. j - i \in Nat /\ i + (j - i) = j /\ j <= Len(s)
    OBVIOUS
  <1>5. j - i \in Good
    BY <1>3, <1>4
  <1> QED BY <1>4, <1>5

\* An element of the whole is one of a part.
LEMMA UptoElement ==
  ASSUME NEW X, NEW s \in Seq(Seq(X)), NEW i \in 0 .. Len(s) - 1, NEW k \in 1 .. Len(s[i + 1]),
         NEW j \in i + 1 .. Len(s)
  PROVE  /\ Len(Upto(s, i)) + k \in 1 .. Len(Upto(s, j))
         /\ Upto(s, j)[Len(Upto(s, i)) + k] = s[i + 1][k]
  <1> DEFINE x == Len(Upto(s, i)) + k
             Holds(n) == x \in 1 .. Len(Upto(s, n)) /\ Upto(s, n)[x] = s[i + 1][k]
             Good == {n \in Nat : (i + 1) + n <= Len(s) => Holds((i + 1) + n)}
  <1>0. /\ i \in Nat /\ i \in 0 .. Len(s) /\ i + 1 \in DOMAIN s /\ i + 1 \in Nat
        /\ s[i + 1] \in Seq(X) /\ Len(Upto(s, i)) \in Nat
    <2>1. i \in Nat /\ i \in 0 .. Len(s) /\ i + 1 \in DOMAIN s /\ i + 1 \in Nat
      OBVIOUS
    <2>2. s[i + 1] \in Seq(X)
      BY <2>1
    <2> QED BY <2>1, <2>2, UptoLen
  <1>1. Holds(i + 1)
    <2>1. Upto(s, i + 1) = Upto(s, i) \o s[i + 1] /\ Upto(s, i) \in Seq(X)
      BY <1>0, UptoFacts
    <2> QED BY <1>0, <2>1
  <1>2. ASSUME NEW n \in i + 1 .. Len(s) - 1, Holds(n) PROVE Holds(n + 1)
    <2>1. n \in 0 .. Len(s) - 1 /\ n \in 0 .. Len(s) /\ n + 1 \in DOMAIN s
      BY <1>0
    <2>2. Upto(s, n + 1) = Upto(s, n) \o s[n + 1] /\ Upto(s, n) \in Seq(X)
      BY <2>1, UptoFacts
    <2>3. s[n + 1] \in Seq(X)
      BY <2>1
    <2> HIDE DEF x
    <2> QED BY <1>2, <2>2, <2>3
  <1> HIDE DEF Holds
  <1>3. 0 \in Good
    <2>1. (i + 1) + 0 = i + 1
      BY <1>0
    <2> QED BY <1>1, <2>1
  <1>4. ASSUME NEW n \in Nat, n \in Good PROVE n + 1 \in Good
    <2> SUFFICES ASSUME (i + 1) + (n + 1) <= Len(s) PROVE Holds((i + 1) + (n + 1))
      OBVIOUS
    <2>1. /\ (i + 1) + n \in i + 1 .. Len(s) - 1 /\ (i + 1) + n <= Len(s)
          /\ ((i + 1) + n) + 1 = (i + 1) + (n + 1)
      BY <1>0
    <2>2. Holds((i + 1) + n)
      BY <1>4, <2>1
    <2>3. Holds(((i + 1) + n) + 1)
      BY <1>2, <2>1, <2>2
    <2> QED BY <2>1, <2>3
  <1>5. \A n \in Nat : n \in Good
    <2> HIDE DEF Good
    <2> QED BY <1>3, <1>4, SetInduction
  <1>6. j - (i + 1) \in Nat /\ (i + 1) + (j - (i + 1)) = j /\ j <= Len(s)
    BY <1>0
  <1>7. j - (i + 1) \in Good
    BY <1>5, <1>6
  <1>8. Holds(j)
    BY <1>6, <1>7
  <1> QED BY <1>8 DEF Holds

LEMMA FlattenElement ==
  ASSUME NEW X, NEW s \in Seq(Seq(X)), NEW i \in 0 .. Len(s) - 1, NEW k \in 1 .. Len(s[i + 1])
  PROVE  /\ Len(Upto(s, i)) + k \in 1 .. Len(FlattenSeq(s))
         /\ FlattenSeq(s)[Len(Upto(s, i)) + k] = s[i + 1][k]
  <1>1. Len(s) \in i + 1 .. Len(s)
    OBVIOUS
  <1>2. Upto(s, Len(s)) = FlattenSeq(s)
    BY UptoFacts
  <1> QED BY <1>1, <1>2, UptoElement

\* Where the parts end depends on their lengths only.
LEMMA UptoSameLen ==
  ASSUME NEW X, NEW s \in Seq(Seq(X)), NEW Y, NEW t \in Seq(Seq(Y)),
         Len(s) = Len(t), \A i \in 1 .. Len(s) : Len(s[i]) = Len(t[i])
  PROVE  \A j \in 0 .. Len(s) : Len(Upto(s, j)) = Len(Upto(t, j))
  <1> DEFINE Good == {n \in Nat : n <= Len(s) => Len(Upto(s, n)) = Len(Upto(t, n))}
  <1>1. 0 \in Good
    <2>1. Len(Upto(s, 0)) = Len(Upto(t, 0))
      BY UptoLen
    <2> QED BY <2>1
  <1>2. ASSUME NEW n \in Nat, n \in Good PROVE n + 1 \in Good
    <2> SUFFICES ASSUME n + 1 <= Len(s) PROVE Len(Upto(s, n + 1)) = Len(Upto(t, n + 1))
      OBVIOUS
    <2>1. n \in 0 .. Len(s) - 1 /\ n \in 0 .. Len(t) - 1 /\ n + 1 \in 1 .. Len(s) /\ n <= Len(s)
      OBVIOUS
    <2>2. Len(Upto(s, n + 1)) = Len(Upto(s, n)) + Len(s[n + 1])
      BY <2>1, UptoLen
    <2>3. Len(Upto(t, n + 1)) = Len(Upto(t, n)) + Len(t[n + 1])
      BY <2>1, UptoLen
    <2> QED BY <1>2, <2>1, <2>2, <2>3
  <1>3. \A n \in Nat : n \in Good
    <2> HIDE DEF Good
    <2> QED BY <1>1, <1>2, SetInduction
  <1> QED BY <1>3

LEMMA UptoBytes ==
  ASSUME NEW X, NEW s \in Seq(Seq(X)), \A i \in 1 .. Len(s) : Len(s[i]) = 8
  PROVE  \A j \in 0 .. Len(s) : Len(Upto(s, j)) = 8 * j
  <1> DEFINE Good == {n \in Nat : n <= Len(s) => Len(Upto(s, n)) = 8 * n}
  <1>1. 0 \in Good
    <2>1. Len(Upto(s, 0)) = 0
      BY UptoLen
    <2> QED BY <2>1
  <1>2. ASSUME NEW n \in Nat, n \in Good PROVE n + 1 \in Good
    <2> SUFFICES ASSUME n + 1 <= Len(s) PROVE Len(Upto(s, n + 1)) = 8 * (n + 1)
      OBVIOUS
    <2>1. n \in 0 .. Len(s) - 1 /\ n + 1 \in 1 .. Len(s) /\ n <= Len(s)
      OBVIOUS
    <2>2. Len(Upto(s, n + 1)) = Len(Upto(s, n)) + Len(s[n + 1])
      BY <2>1, UptoLen
    <2>3. Len(Upto(s, n)) = 8 * n /\ Len(s[n + 1]) = 8
      BY <1>2, <2>1
    <2> HIDE DEF Good
    <2> QED BY <2>2, <2>3
  <1>3. \A n \in Nat : n \in Good
    <2> HIDE DEF Good
    <2> QED BY <1>1, <1>2, SetInduction
  <1> QED BY <1>3

-----------------------------------------------------------------------------
(* Numbers as sequences of bits.                                           *)

LEMMA LowFacts ==
  ASSUME NEW b \in Seq(Bit), NEW n \in Nat
  PROVE  /\ Low(b, n) \in [1 .. n -> Bit] /\ Low(b, n) \in Seq(Bit) /\ Len(Low(b, n)) = n
         /\ \A k \in 1 .. n : Low(b, n)[k] = IF k <= Len(b) THEN b[k] ELSE 0
  <1>1. \A k \in 1 .. n : (IF k <= Len(b) THEN b[k] ELSE 0) \in Bit
    BY DEF Bit
  <1>2. Low(b, n) \in [1 .. n -> Bit]
    BY <1>1 DEF Low
  <1>3. \A k \in 1 .. n : Low(b, n)[k] = IF k <= Len(b) THEN b[k] ELSE 0
    BY DEF Low
  <1> HIDE DEF Bit
  <1> QED BY <1>2, <1>3

\* Two numbers of n bits with the same bits are the same.
LEMMA LowEqual ==
  ASSUME NEW b \in Seq(Bit), NEW c \in Seq(Bit), NEW n \in Nat,
         \A k \in 1 .. n : (IF k <= Len(b) THEN b[k] ELSE 0) = (IF k <= Len(c) THEN c[k] ELSE 0)
  PROVE  Low(b, n) = Low(c, n)
  BY DEF Low

LEMMA DropFacts ==
  ASSUME NEW X, NEW b \in Seq(X), NEW n \in 0 .. Len(b)
  PROVE  /\ Drop(b, n) \in Seq(X) /\ Len(Drop(b, n)) = Len(b) - n
         /\ \A k \in 1 .. Len(b) - n : Drop(b, n)[k] = b[n + k]
  BY DEF Drop

LEMMA ComplementFacts ==
  ASSUME NEW b \in Seq(Bit)
  PROVE  /\ Complement(b) \in Seq(Bit) /\ Len(Complement(b)) = Len(b)
         /\ \A k \in 1 .. Len(b) : Complement(b)[k] = 1 - b[k]
         /\ Complement(Complement(b)) = b
  <1>1. \A k \in 1 .. Len(b) : 1 - b[k] \in Bit /\ b[k] \in Int
    BY DEF Bit
  <1>2. Complement(b) \in [1 .. Len(b) -> Bit] /\ \A k \in 1 .. Len(b) : Complement(b)[k] = 1 - b[k]
    BY <1>1 DEF Complement
  <1>3. Complement(b) \in Seq(Bit) /\ Len(Complement(b)) = Len(b)
    BY <1>2
  <1>4. DOMAIN Complement(b) = 1 .. Len(b)
    BY <1>2
  <1>5. Complement(Complement(b)) = [k \in 1 .. Len(b) |-> 1 - Complement(b)[k]]
    BY <1>4 DEF Complement
  <1>6. \A k \in 1 .. Len(b) : 1 - Complement(b)[k] = b[k]
    BY <1>1, <1>2
  <1>7. [k \in 1 .. Len(b) |-> 1 - Complement(b)[k]] = [k \in 1 .. Len(b) |-> b[k]]
    BY <1>6
  <1>8. [k \in 1 .. Len(b) |-> b[k]] = b
    OBVIOUS
  <1> QED BY <1>2, <1>3, <1>5, <1>7, <1>8

\* BitLength() is the place of the highest one.
LEMMA BitLengthFacts ==
  ASSUME NEW b \in Seq(Bit)
  PROVE  /\ BitLength(b) \in 0 .. Len(b)
         /\ \A k \in 1 .. Len(b) : k > BitLength(b) => b[k] = 0
         /\ BitLength(b) # 0 => b[BitLength(b)] = 1
  <1>1. CASE \A k \in DOMAIN b : b[k] = 0
    BY <1>1 DEF BitLength
  <1>2. CASE ~ \A k \in DOMAIN b : b[k] = 0
    <2> DEFINE T == {x \in Nat : \E k \in 1 .. Len(b) : x = Len(b) - k /\ b[k] = 1}
               Top(k) == b[k] = 1 /\ \A j \in DOMAIN b : j > k => b[j] = 0
    <2>1. PICK k \in 1 .. Len(b) : b[k] = 1
      BY <1>2 DEF Bit
    <2>2. Len(b) - k \in T
      BY <2>1
    <2>3. T \subseteq Nat /\ T # {}
      BY <2>2
    <2>4. PICK x \in T : \A y \in T : x <= y
      <3> HIDE DEF T
      <3> QED BY <2>3, LeastOf
    <2>5. PICK p \in 1 .. Len(b) : x = Len(b) - p /\ b[p] = 1
      BY <2>4
    <2>6. ASSUME NEW j \in 1 .. Len(b), j > p PROVE b[j] = 0
      <3> SUFFICES ASSUME b[j] # 0 PROVE FALSE
        OBVIOUS
      <3>1. b[j] = 1
        BY DEF Bit
      <3>2. Len(b) - j \in T
        BY <3>1
      <3>3. x <= Len(b) - j
        BY <2>4, <3>2
      <3> QED BY <2>5, <2>6, <3>3
    <2>7. p \in DOMAIN b /\ Top(p)
      BY <2>5, <2>6
    <2>8. BitLength(b) = CHOOSE q \in DOMAIN b : Top(q)
      BY <1>2 DEF BitLength
    <2>9. BitLength(b) \in DOMAIN b /\ Top(BitLength(b))
      <3> HIDE DEF Top
      <3> QED BY <2>7, <2>8
    <2> QED BY <2>9
  <1> QED BY <1>1, <1>2

LEMMA BitLengthMost ==
  ASSUME NEW b \in Seq(Bit), NEW n \in Nat, \A k \in 1 .. Len(b) : k > n => b[k] = 0
  PROVE  BitLength(b) <= n
  <1> SUFFICES ASSUME BitLength(b) > n PROVE FALSE
    BY BitLengthFacts
  <1>1. BitLength(b) \in 1 .. Len(b) /\ b[BitLength(b)] = 1
    BY BitLengthFacts
  <1>2. b[BitLength(b)] = 0
    BY <1>1
  <1> QED BY <1>1, <1>2

\* Numbers with the same bits, but for zeros at the end, have the same length.
LEMMA BitLengthSame ==
  ASSUME NEW b \in Seq(Bit), NEW c \in Seq(Bit),
         \A k \in Nat \ {0} : (IF k <= Len(b) THEN b[k] ELSE 0) = (IF k <= Len(c) THEN c[k] ELSE 0)
  PROVE  BitLength(b) = BitLength(c)
  <1>1. BitLength(b) \in 0 .. Len(b) /\ BitLength(c) \in 0 .. Len(c)
    BY BitLengthFacts
  <1>2. BitLength(b) <= BitLength(c)
    <2>1. \A k \in 1 .. Len(b) : k > BitLength(c) => b[k] = 0
      <3> TAKE k \in 1 .. Len(b)
      <3> HAVE k > BitLength(c)
      <3>1. k \in Nat \ {0}
        OBVIOUS
      <3>2. CASE k <= Len(c)
        <4>1. c[k] = 0
          BY <3>2, <3>1, BitLengthFacts
        <4> QED BY <3>1, <3>2, <4>1
      <3>3. CASE ~(k <= Len(c))
        BY <3>1, <3>3
      <3> QED BY <3>2, <3>3
    <2> QED BY <1>1, <2>1, BitLengthMost
  <1>3. BitLength(c) <= BitLength(b)
    <2>1. \A k \in 1 .. Len(c) : k > BitLength(b) => c[k] = 0
      <3> TAKE k \in 1 .. Len(c)
      <3> HAVE k > BitLength(b)
      <3>1. k \in Nat \ {0}
        OBVIOUS
      <3>2. CASE k <= Len(b)
        <4>1. b[k] = 0
          BY <3>2, <3>1, BitLengthFacts
        <4> QED BY <3>1, <3>2, <4>1
      <3>3. CASE ~(k <= Len(b))
        BY <3>1, <3>3
      <3> QED BY <3>2, <3>3
    <2> QED BY <1>1, <2>1, BitLengthMost
  <1> QED BY <1>1, <1>2, <1>3

-----------------------------------------------------------------------------
(* One varint.                                                             *)

\* Bit x of the encoding of b: the size, then the bits of b, then zeros.
VarintBit(b, x) ==
  IF x < NBytes(b) THEN 0 ELSE IF x = NBytes(b) THEN 1
  ELSE IF x - NBytes(b) <= Len(b) THEN b[x - NBytes(b)] ELSE 0

LEMMA NBytesFacts ==
  ASSUME NEW b \in Seq(Bit)
  PROVE  /\ NBytes(b) \in Nat \ {0} /\ BitLength(b) \in Nat
         /\ BitLength(b) <= 7 * NBytes(b) /\ 8 * (NBytes(b) - 1) < NBytes(b) + BitLength(b)
         /\ (NBytes(b) + BitLength(b) + 7) \div 8 = NBytes(b)
         /\ BitLength(b) <= 35 => NBytes(b) <= 5
  <1>1. BitLength(b) \in Nat
    BY BitLengthFacts
  <1> DEFINE l == BitLength(b)
             n == (l + 6) \div 7
  <1>2. n \in Nat /\ 7 * n <= l + 6 /\ l + 6 < 7 * n + 7
    BY <1>1
  <1>3. NBytes(b) = IF n = 0 THEN 1 ELSE n
    BY DEF NBytes
  <1> DEFINE c == NBytes(b)
  <1>4. /\ c \in Nat \ {0} /\ l <= 7 * c /\ 8 * (c - 1) < c + l /\ (l <= 35 => c <= 5)
        /\ c + l + 7 >= 8 * c /\ c + l + 7 < 8 * c + 8
    <2> HIDE DEF n, l, c
    <2>1. CASE n = 0
      <3>1. c = 1
        BY <2>1, <1>3 DEF c
      <3> QED BY <3>1, <2>1, <1>1, <1>2 DEF l
    <2>2. CASE n # 0
      <3>1. c = n
        BY <2>2, <1>3 DEF c
      <3> QED BY <3>1, <2>2, <1>1, <1>2 DEF l
    <2> QED BY <2>1, <2>2
  <1>5. (c + l + 7) \div 8 = c
    <2> HIDE DEF c, l
    <2> QED BY <1>1, <1>4 DEF l
  <1> QED BY <1>1, <1>4, <1>5

LEMMA VarintLayout ==
  ASSUME NEW b \in Seq(Bit)
  PROVE  LET v == Zeros(NBytes(b) - 1) \o <<1>> \o Low(b, BitLength(b))
         IN  /\ v \in Seq(Bit) /\ Len(v) = NBytes(b) + BitLength(b)
             /\ \A x \in 1 .. Len(v) : v[x] = VarintBit(b, x)
  <1> DEFINE n == NBytes(b)
             l == BitLength(b)
             z == Zeros(n - 1)
             o == <<1>>
             w == Low(b, l)
             q == z \o o
             v == q \o w
  <1>1. n \in Nat \ {0} /\ l \in Nat /\ l <= Len(b)
    BY NBytesFacts, BitLengthFacts
  <1>2. z \in Seq(Bit) /\ Len(z) = n - 1 /\ \A x \in 1 .. n - 1 : z[x] = 0
    <2>1. z \in [1 .. n - 1 -> Bit] /\ \A x \in 1 .. n - 1 : z[x] = 0
      BY DEF Zeros, Bit
    <2>2. n - 1 \in Nat
      BY <1>1
    <2> HIDE DEF z, n
    <2> QED BY <2>1, <2>2
  <1>3. o \in Seq(Bit) /\ Len(o) = 1 /\ o[1] = 1
    BY DEF Bit
  <1>4. w \in Seq(Bit) /\ Len(w) = l /\ \A x \in 1 .. l : w[x] = b[x]
    <2>1. \A x \in 1 .. l : x <= Len(b)
      BY <1>1
    <2> QED BY <1>1, <2>1, LowFacts
  <1> HIDE DEF z, o, w
  <1>0. q \in Seq(Bit) /\ Len(q) = n /\ q[n] = 1 /\ \A x \in 1 .. n - 1 : q[x] = 0
    <2> HIDE DEF n, l
    <2>1. /\ q \in Seq(Bit) /\ Len(q) = Len(z) + Len(o)
          /\ \A x \in 1 .. Len(z) + Len(o) : q[x] = IF x <= Len(z) THEN z[x] ELSE o[x - Len(z)]
      BY <1>2, <1>3, ConcatProperties
    <2>5. Len(z) + 1 = n
      BY <1>1, <1>2
    <2> HIDE DEF q
    <2> QED BY <2>1, <2>5, <1>2, <1>3
  <1> HIDE DEF q
  <1>5. v \in Seq(Bit) /\ Len(v) = n + l
    <2> HIDE DEF n, l
    <2> QED BY <1>0, <1>1, <1>4
  <1>6. ASSUME NEW x \in 1 .. Len(v) PROVE v[x] = VarintBit(b, x)
    <2>1. CASE x < n
      <3>1. v[x] = 0
        <4> HIDE DEF n, l
        <4> QED BY <1>0, <1>1, <1>4, <1>5, <2>1
      <3> QED BY <2>1, <3>1 DEF VarintBit
    <2>2. CASE x = n
      <3>1. v[x] = 1
        <4> HIDE DEF n, l
        <4> QED BY <1>0, <1>1, <1>4, <1>5, <2>2
      <3> QED BY <1>1, <2>2, <3>1 DEF VarintBit
    <2>3. CASE x > n
      <3>1. x - n \in 1 .. l
        BY <1>1, <1>5, <2>3
      <3>2. v[x] = w[x - n]
        <4> HIDE DEF n, l
        <4> QED BY <1>0, <1>1, <1>4, <1>5, <2>3, <3>1
      <3>3. v[x] = b[x - n] /\ x - n <= Len(b)
        BY <3>1, <3>2, <1>4, <1>1
      <3> QED BY <1>1, <1>5, <2>3, <3>3 DEF VarintBit
    <2> QED BY <1>1, <1>5, <2>1, <2>2, <2>3
  <1> QED BY <1>5, <1>6 DEF z, o, q, w

\* EncodeVarint() fills NBytes() bytes.
LEMMA EncodeVarintFacts ==
  ASSUME NEW b \in Seq(Bit)
  PROVE  /\ EncodeVarint(b) \in Seq(Byte) /\ Len(EncodeVarint(b)) = NBytes(b)
         /\ \A k \in 1 .. NBytes(b), i \in 1 .. 8 :
              EncodeVarint(b)[k][i] = VarintBit(b, 8 * (k - 1) + i)
  <1> DEFINE n == NBytes(b)
             l == BitLength(b)
             v == Zeros(n - 1) \o <<1>> \o Low(b, l)
             e == [k \in 1 .. (Len(v) + 7) \div 8 |-> Low(Drop(v, 8 * (k - 1)), 8)]
  <1>1. /\ n \in Nat \ {0} /\ l \in Nat /\ l <= Len(b) /\ (n + l + 7) \div 8 = n
        /\ 8 * (n - 1) < n + l
    BY NBytesFacts, BitLengthFacts
  <1>2. v \in Seq(Bit) /\ Len(v) = n + l /\ \A x \in 1 .. Len(v) : v[x] = VarintBit(b, x)
    BY VarintLayout
  <1>3. EncodeVarint(b) = e
    BY DEF EncodeVarint
  <1> HIDE DEF v
  <1>4. e = [k \in 1 .. n |-> Low(Drop(v, 8 * (k - 1)), 8)]
    BY <1>1, <1>2
  <1>5. ASSUME NEW k \in 1 .. n
        PROVE  /\ Low(Drop(v, 8 * (k - 1)), 8) \in Byte
               /\ \A i \in 1 .. 8 : Low(Drop(v, 8 * (k - 1)), 8)[i] = VarintBit(b, 8 * (k - 1) + i)
    <2> DEFINE d == Drop(v, 8 * (k - 1))
               p == 8 * (k - 1)
    <2>1. p \in 0 .. Len(v)
      <3> HIDE DEF n, l
      <3> QED BY <1>1, <1>2
    <2>2. d \in Seq(Bit) /\ Len(d) = Len(v) - p /\ \A i \in 1 .. Len(v) - p : d[i] = v[p + i]
      BY <1>2, <2>1, DropFacts
    <2>3. Low(d, 8) \in [1 .. 8 -> Bit] /\ \A i \in 1 .. 8 : Low(d, 8)[i] = IF i <= Len(d) THEN d[i] ELSE 0
      <3> HIDE DEF d
      <3> QED BY <2>2, LowFacts, 8 \in Nat
    <2> HIDE DEF d, p
    <2>4. ASSUME NEW i \in 1 .. 8 PROVE Low(d, 8)[i] = VarintBit(b, p + i)
      <3>1. CASE i <= Len(d)
        <4>1. i \in 1 .. Len(v) - p /\ p + i \in 1 .. Len(v)
          BY <3>1, <2>1, <2>2, <1>2
        <4> QED BY <3>1, <4>1, <2>2, <2>3, <1>2
      <3>2. CASE ~(i <= Len(d))
        <4>1. Low(d, 8)[i] = 0
          BY <2>3, <3>2
        <4>2. p + i > n + l
          BY <3>2, <2>1, <2>2, <1>1, <1>2
        <4>3. (p + i) - n <= Len(b) => b[(p + i) - n] = 0
          <5> SUFFICES ASSUME (p + i) - n <= Len(b) PROVE b[(p + i) - n] = 0
            OBVIOUS
          <5>1. (p + i) - n \in 1 .. Len(b) /\ (p + i) - n > l
            <6> HIDE DEF n, l
            <6> QED BY <4>2, <2>1, <1>1
          <5> QED BY <5>1, BitLengthFacts
        <4>4. ~(p + i < n) /\ p + i # n
          BY <4>2, <1>1, <2>1
        <4> QED BY <4>1, <4>3, <4>4 DEF VarintBit
      <3> QED BY <3>1, <3>2
    <2> QED BY <2>3, <2>4 DEF d, p, Byte
  <1> HIDE DEF n, l
  <1>6. e \in [1 .. n -> Byte]
    BY <1>4, <1>5
  <1>7. e \in Seq(Byte) /\ Len(e) = n
    BY <1>1, <1>6
  <1>8. \A k \in 1 .. n, i \in 1 .. 8 : e[k][i] = VarintBit(b, 8 * (k - 1) + i)
    BY <1>4, <1>5
  <1> HIDE DEF e
  <1> QED BY <1>3, <1>7, <1>8 DEF n

LEMMA TupleIsSeq ==
  ASSUME NEW X, NEW n \in Nat, NEW f \in [1 .. n -> X]
  PROVE  f \in Seq(X) /\ Len(f) = n
  OBVIOUS

LEMMA ByteFacts ==
  ASSUME NEW h \in Byte
  PROVE  h \in Seq(Bit) /\ Len(h) = 8
  <1>1. h \in [1 .. 8 -> Bit] /\ 8 \in Nat
    BY DEF Byte
  <1> QED BY <1>1, TupleIsSeq

\* decode_varint_size() finds the lowest one of the first byte.
LEMMA VarintBytesIs ==
  ASSUME NEW h, NEW n \in 1 .. 8, h[n] = 1, \A k \in 1 .. n - 1 : h[k] = 0
  PROVE  VarintBytes(h) = n
  <1> DEFINE First(j) == h[j] = 1 /\ \A k \in 1 .. j - 1 : h[k] = 0
  <1>1. VarintBytes(h) = CHOOSE j \in 1 .. 8 : First(j)
    BY DEF VarintBytes
  <1>2. First(n)
    OBVIOUS
  <1>3. VarintBytes(h) \in 1 .. 8 /\ First(VarintBytes(h))
    <2> HIDE DEF First
    <2> QED BY <1>1, <1>2
  <1>4. ~(VarintBytes(h) < n)
    BY <1>3
  <1>5. ~(n < VarintBytes(h))
    BY <1>3
  <1> QED BY <1>3, <1>4, <1>5

\* Bytes one after the other.
LEMMA FlattenBytes ==
  ASSUME NEW s \in Seq(Byte)
  PROVE  /\ FlattenSeq(s) \in Seq(Bit) /\ Len(FlattenSeq(s)) = 8 * Len(s)
         /\ \A i \in 0 .. Len(s) - 1, k \in 1 .. 8 : FlattenSeq(s)[8 * i + k] = s[i + 1][k]
  <1>1. \A i \in 1 .. Len(s) : s[i] \in Seq(Bit) /\ Len(s[i]) = 8
    BY ByteFacts
  <1>2. s \in Seq(Seq(Bit))
    <2> HIDE DEF Bit
    <2> QED BY <1>1
  <1>3. \A j \in 0 .. Len(s) : Len(Upto(s, j)) = 8 * j
    BY <1>1, <1>2, UptoBytes
  <1>4. FlattenSeq(s) \in Seq(Bit)
    <2>1. Upto(s, Len(s)) = FlattenSeq(s) /\ Len(s) \in 0 .. Len(s)
      BY <1>2, UptoFacts
    <2> QED BY <1>2, <2>1, UptoFacts
  <1>5. Len(FlattenSeq(s)) = 8 * Len(s)
    <2>1. Len(s) \in 0 .. Len(s) /\ Len(Upto(s, Len(s))) = Len(FlattenSeq(s))
      BY <1>2, UptoLen
    <2> QED BY <1>3, <2>1
  <1>6. ASSUME NEW i \in 0 .. Len(s) - 1, NEW k \in 1 .. 8
        PROVE  FlattenSeq(s)[8 * i + k] = s[i + 1][k]
    <2>1. i \in 0 .. Len(s) /\ i + 1 \in 1 .. Len(s)
      OBVIOUS
    <2>2. Len(s[i + 1]) = 8 /\ Len(Upto(s, i)) = 8 * i
      BY <1>1, <1>3, <2>1
    <2>3. k \in 1 .. Len(s[i + 1])
      BY <2>2
    <2>4. FlattenSeq(s)[Len(Upto(s, i)) + k] = s[i + 1][k]
      BY <1>2, <2>3, FlattenElement
    <2> QED BY <2>2, <2>4
  <1> QED BY <1>4, <1>5, <1>6

\* What the decoder makes of the bytes of one varint.
PayloadOf(e) ==
  Drop(e[1], VarintBytes(e[1])) \o FlattenSeq(SubSeq(e, 2, VarintBytes(e[1])))

\* The decoder finds the bits that were encoded, and zeros up to the size.
LEMMA PayloadIs ==
  ASSUME NEW b \in Seq(Bit), BitLength(b) <= 35
  PROVE  /\ VarintBytes(EncodeVarint(b)[1]) = NBytes(b) /\ NBytes(b) \in 1 .. 5
         /\ EncodeVarint(b)[1][NBytes(b)] = 1
         /\ PayloadOf(EncodeVarint(b)) = Low(b, 7 * NBytes(b))
  <1> DEFINE e == EncodeVarint(b)
             n == NBytes(b)
  <1>1. n \in 1 .. 5
    <2>1. n \in Nat \ {0} /\ n <= 5
      BY NBytesFacts
    <2> HIDE DEF n
    <2> QED BY <2>1
  <1>2. /\ e \in Seq(Byte) /\ Len(e) = n
        /\ \A k \in 1 .. n, i \in 1 .. 8 : e[k][i] = VarintBit(b, 8 * (k - 1) + i)
    BY EncodeVarintFacts
  <1> HIDE DEF e
  <1>3. \A i \in 1 .. 8 : e[1][i] = VarintBit(b, i)
    <2>1. \A i \in 1 .. 8 : 8 * (1 - 1) + i = i
      OBVIOUS
    <2>2. 1 \in 1 .. n
      BY <1>1
    <2> HIDE DEF n
    <2> QED BY <1>2, <2>1, <2>2
  <1>4. e[1][n] = 1 /\ \A k \in 1 .. n - 1 : e[1][k] = 0
    <2>1. VarintBit(b, n) = 1
      BY <1>1 DEF VarintBit
    <2>2. \A k \in 1 .. n - 1 : VarintBit(b, k) = 0
      BY <1>1 DEF VarintBit
    <2> HIDE DEF n
    <2> QED BY <1>1, <1>3, <2>1, <2>2
  <1>5. VarintBytes(e[1]) = n
    <2> HIDE DEF n
    <2> QED BY <1>1, <1>4, VarintBytesIs, n \in 1 .. 8
  <1> DEFINE d == Drop(e[1], n)
             r == SubSeq(e, 2, n)
             f == FlattenSeq(r)
             p == d \o f
  <1>6. d \in Seq(Bit) /\ Len(d) = 8 - n /\ \A x \in 1 .. 8 - n : d[x] = VarintBit(b, n + x)
    <2> DEFINE h == e[1]
    <2>1. h \in Seq(Bit) /\ Len(h) = 8
      <3>1. e[1] \in Byte
        BY <1>1, <1>2
      <3> QED BY <3>1, ByteFacts
    <2> HIDE DEF h
    <2>2. n \in 0 .. Len(h)
      BY <2>1, <1>1
    <2> HIDE DEF n
    <2>3. /\ Drop(h, n) \in Seq(Bit) /\ Len(Drop(h, n)) = 8 - n
          /\ \A x \in 1 .. 8 - n : Drop(h, n)[x] = h[n + x]
      <3>1. /\ Drop(h, n) \in Seq(Bit) /\ Len(Drop(h, n)) = Len(h) - n
            /\ \A x \in 1 .. Len(h) - n : Drop(h, n)[x] = h[n + x]
        BY <2>1, <2>2, DropFacts
      <3> QED BY <2>1, <3>1
    <2>4. \A x \in 1 .. 8 - n : n + x \in 1 .. 8
      BY <1>1
    <2>5. \A x \in 1 .. 8 - n : h[n + x] = VarintBit(b, n + x)
      BY <2>4, <1>3 DEF h
    <2>6. d = Drop(h, n)
      BY DEF h
    <2> HIDE DEF d
    <2> QED BY <2>3, <2>5, <2>6
  <1>7. r \in Seq(Byte) /\ Len(r) = n - 1 /\ \A i \in 1 .. n - 1 : r[i] = e[i + 1]
    <2> HIDE DEF n
    <2> QED BY <1>1, <1>2
  <1> HIDE DEF r, d
  <1>8. /\ f \in Seq(Bit) /\ Len(f) = 8 * (n - 1)
        /\ \A x \in 1 .. 8 * (n - 1) : f[x] = VarintBit(b, 8 + x)
    <2>1. /\ f \in Seq(Bit) /\ Len(f) = 8 * (n - 1)
          /\ \A i \in 0 .. n - 2, k \in 1 .. 8 : f[8 * i + k] = r[i + 1][k]
      <3> HIDE DEF n
      <3>1. Len(r) - 1 = n - 2
        BY <1>1, <1>7
      <3> QED BY <1>7, <3>1, FlattenBytes
    <2>2. ASSUME NEW x \in 1 .. 8 * (n - 1) PROVE f[x] = VarintBit(b, 8 + x)
      <3> HIDE DEF n, f
      <3> DEFINE i == (x - 1) \div 8
                 k == x - 8 * i
      <3>1. i \in 0 .. n - 2 /\ k \in 1 .. 8 /\ 8 * i + k = x
        BY <1>1
      <3> HIDE DEF i, k
      <3>2. f[x] = r[i + 1][k]
        BY <3>1, <2>1
      <3>3. r[i + 1] = e[(i + 1) + 1] /\ (i + 1) + 1 \in 1 .. n
        BY <3>1, <1>1, <1>7
      <3>4. e[(i + 1) + 1][k] = VarintBit(b, 8 * (((i + 1) + 1) - 1) + k)
        BY <3>1, <3>3, <1>2
      <3>5. 8 * (((i + 1) + 1) - 1) + k = 8 + x
        BY <3>1
      <3> QED BY <3>2, <3>3, <3>4, <3>5
    <2> QED BY <2>1, <2>2
  <1> HIDE DEF f
  <1>9. /\ p \in Seq(Bit) /\ Len(p) = 7 * n
        /\ \A x \in 1 .. 7 * n : p[x] = IF x <= 8 - n THEN d[x] ELSE f[x - (8 - n)]
    <2>1. /\ p \in Seq(Bit) /\ Len(p) = Len(d) + Len(f)
          /\ \A x \in 1 .. Len(d) + Len(f) : p[x] = IF x <= Len(d) THEN d[x] ELSE f[x - Len(d)]
      BY <1>6, <1>8, ConcatProperties
    <2>2. Len(d) + Len(f) = 7 * n /\ Len(d) = 8 - n
      <3> HIDE DEF n, p
      <3> QED BY <1>1, <1>6, <1>8
    <2> HIDE DEF n, p
    <2> QED BY <2>1, <2>2
  <1>10. ASSUME NEW x \in 1 .. 7 * n PROVE p[x] = VarintBit(b, n + x)
    <2> HIDE DEF p, n
    <2>1. CASE x <= 8 - n
      <3>1. x \in 1 .. 8 - n
        BY <2>1, <1>1
      <3> QED BY <3>1, <2>1, <1>6, <1>9
    <2>2. CASE ~(x <= 8 - n)
      <3>1. x - (8 - n) \in 1 .. 8 * (n - 1) /\ 8 + (x - (8 - n)) = n + x
        BY <2>2, <1>1
      <3> QED BY <3>1, <2>2, <1>8, <1>9
    <2> QED BY <2>1, <2>2
  <1>11. ASSUME NEW x \in 1 .. 7 * n PROVE VarintBit(b, n + x) = IF x <= Len(b) THEN b[x] ELSE 0
    <2>1. ~(n + x < n) /\ n + x # n /\ (n + x) - n = x
      <3> HIDE DEF n
      <3> QED BY <1>1
    <2> QED BY <2>1 DEF VarintBit
  <1>12. p = Low(b, 7 * n)
    <2>1. 7 * n \in Nat
      BY <1>1
    <2>2. Low(b, 7 * n) \in Seq(Bit) /\ Len(Low(b, 7 * n)) = 7 * n
      BY <2>1, LowFacts
    <2>3. \A x \in 1 .. 7 * n : p[x] = Low(b, 7 * n)[x]
      <3>1. \A x \in 1 .. 7 * n : Low(b, 7 * n)[x] = IF x <= Len(b) THEN b[x] ELSE 0
        BY <2>1, LowFacts
      <3> HIDE DEF p, n
      <3> QED BY <3>1, <1>10, <1>11
    <2> HIDE DEF p, n
    <2> QED BY <2>1, <2>2, <2>3, <1>9, SeqEqual
  <1> QED BY <1>1, <1>4, <1>5, <1>12 DEF PayloadOf, e, d, f, r

-----------------------------------------------------------------------------
(* Numbers bit by bit.                                                     *)

\* Bit k of a number; the first one is the lowest.
BitOf(b, k) == IF k <= Len(b) THEN b[k] ELSE 0
Places == Nat \ {0}

LEMMA BitOfLow ==
  ASSUME NEW b \in Seq(Bit), NEW n \in Nat
  PROVE  /\ \A k \in 1 .. n : Low(b, n)[k] = BitOf(b, k)
         /\ \A k \in Places : BitOf(Low(b, n), k) = IF k <= n THEN BitOf(b, k) ELSE 0
  <1>1. \A k \in 1 .. n : Low(b, n)[k] = BitOf(b, k)
    BY LowFacts DEF BitOf
  <1>2. Len(Low(b, n)) = n
    BY LowFacts
  <1>3. ASSUME NEW k \in Places PROVE BitOf(Low(b, n), k) = IF k <= n THEN BitOf(b, k) ELSE 0
    <2>1. BitOf(Low(b, n), k) = IF k <= n THEN Low(b, n)[k] ELSE 0
      BY <1>2 DEF BitOf
    <2> QED BY <1>1, <2>1 DEF Places
  <1> QED BY <1>1, <1>3

LEMMA LowSame ==
  ASSUME NEW b \in Seq(Bit), NEW c \in Seq(Bit), NEW n \in Nat,
         \A k \in 1 .. n : BitOf(b, k) = BitOf(c, k)
  PROVE  Low(b, n) = Low(c, n)
  BY LowEqual DEF BitOf

LEMMA LowDiffers ==
  ASSUME NEW b \in Seq(Bit), NEW c \in Seq(Bit), NEW n \in Nat, Low(b, n) = Low(c, n)
  PROVE  \A k \in 1 .. n : BitOf(b, k) = BitOf(c, k)
  <1> TAKE k \in 1 .. n
  <1>1. Low(b, n)[k] = BitOf(b, k) /\ Low(c, n)[k] = BitOf(c, k)
    BY BitOfLow
  <1> QED BY <1>1

LEMMA LowWhole ==
  ASSUME NEW b \in Seq(Bit)
  PROVE  Low(b, Len(b)) = b
  <1>1. Len(b) \in Nat
    OBVIOUS
  <1>2. /\ Low(b, Len(b)) \in Seq(Bit) /\ Len(Low(b, Len(b))) = Len(b)
        /\ \A k \in 1 .. Len(b) : Low(b, Len(b))[k] = IF k <= Len(b) THEN b[k] ELSE 0
    BY <1>1, LowFacts
  <1>3. \A k \in 1 .. Len(b) : Low(b, Len(b))[k] = b[k]
    BY <1>1, <1>2
  <1> QED BY <1>2, <1>3, SeqEqual

LEMMA BitOfDrop ==
  ASSUME NEW b \in Seq(Bit), NEW n \in 0 .. Len(b), NEW k \in Places
  PROVE  Drop(b, n) \in Seq(Bit) /\ BitOf(Drop(b, n), k) = BitOf(b, n + k)
  <1>1. /\ Drop(b, n) \in Seq(Bit) /\ Len(Drop(b, n)) = Len(b) - n
        /\ \A j \in 1 .. Len(b) - n : Drop(b, n)[j] = b[n + j]
    BY DropFacts
  <1>2. k <= Len(b) - n <=> n + k <= Len(b)
    BY DEF Places
  <1>3. k <= Len(b) - n => k \in 1 .. Len(b) - n
    BY DEF Places
  <1>4. CASE k <= Len(b) - n
    BY <1>1, <1>2, <1>3, <1>4 DEF BitOf
  <1>5. CASE ~(k <= Len(b) - n)
    BY <1>1, <1>2, <1>5 DEF BitOf
  <1> QED BY <1>1, <1>4, <1>5

LEMMA BitOfConcat ==
  ASSUME NEW x \in Seq(Bit), NEW b \in Seq(Bit)
  PROVE  /\ x \o b \in Seq(Bit)
         /\ \A k \in Places : BitOf(x \o b, k) = IF k <= Len(x) THEN x[k] ELSE BitOf(b, k - Len(x))
  <1> DEFINE y == x \o b
  <1>1. /\ y \in Seq(Bit) /\ Len(y) = Len(x) + Len(b)
        /\ \A i \in 1 .. Len(x) + Len(b) : y[i] = IF i <= Len(x) THEN x[i] ELSE b[i - Len(x)]
    BY ConcatProperties
  <1> HIDE DEF y
  <1>2. ASSUME NEW k \in Places PROVE BitOf(y, k) = IF k <= Len(x) THEN x[k] ELSE BitOf(b, k - Len(x))
    <2>1. CASE k <= Len(x)
      <3>1. k \in 1 .. Len(x) + Len(b) /\ k <= Len(y)
        BY <2>1, <1>1 DEF Places
      <3> QED BY <2>1, <3>1, <1>1 DEF BitOf
    <2>2. CASE ~(k <= Len(x)) /\ k <= Len(x) + Len(b)
      <3>1. k \in 1 .. Len(x) + Len(b) /\ k <= Len(y) /\ k - Len(x) <= Len(b)
        BY <2>2, <1>1 DEF Places
      <3> QED BY <2>2, <3>1, <1>1 DEF BitOf
    <2>3. CASE ~(k <= Len(x)) /\ ~(k <= Len(x) + Len(b))
      <3>1. ~(k <= Len(y)) /\ ~(k - Len(x) <= Len(b))
        BY <2>3, <1>1 DEF Places
      <3> QED BY <2>3, <3>1 DEF BitOf
    <2> QED BY <2>1, <2>2, <2>3
  <1> QED BY <1>1, <1>2 DEF y

LEMMA BitOfAbove ==
  ASSUME NEW b \in Seq(Bit), NEW k \in Places, k > BitLength(b)
  PROVE  BitOf(b, k) = 0
  <1>1. k <= Len(b) => k \in 1 .. Len(b)
    BY DEF Places
  <1> QED BY <1>1, BitLengthFacts DEF BitOf

LEMMA BitOfLength ==
  ASSUME NEW b \in Seq(Bit), NEW n \in Nat, \A k \in Places : k > n => BitOf(b, k) = 0
  PROVE  BitLength(b) <= n
  <1>1. ASSUME NEW k \in 1 .. Len(b), k > n PROVE b[k] = 0
    <2>1. k \in Places /\ BitOf(b, k) = b[k]
      BY DEF BitOf, Places
    <2> QED BY <1>1, <2>1
  <1> QED BY <1>1, BitLengthMost

\* Numbers with the same bits are encoded alike.
SameBits(b, c) == \A k \in Places : BitOf(b, k) = BitOf(c, k)

LEMMA EncodeSame ==
  ASSUME NEW b \in Seq(Bit), NEW c \in Seq(Bit), SameBits(b, c)
  PROVE  EncodeVarint(b) = EncodeVarint(c)
  <1>1. BitLength(b) = BitLength(c)
    BY BitLengthSame DEF SameBits, BitOf, Places
  <1>2. NBytes(b) = NBytes(c)
    BY <1>1 DEF NBytes
  <1>3. ASSUME NEW x \in Places PROVE VarintBit(b, x) = VarintBit(c, x)
    <2>1. NBytes(b) \in Nat \ {0}
      BY NBytesFacts
    <2>2. CASE x <= NBytes(b)
      BY <1>2, <2>1, <2>2 DEF VarintBit, Places
    <2>3. CASE ~(x <= NBytes(b))
      <3>1. ~(x < NBytes(b)) /\ x # NBytes(b) /\ x - NBytes(b) \in Places
        BY <2>1, <2>3 DEF Places
      <3>2. VarintBit(b, x) = BitOf(b, x - NBytes(b)) /\ VarintBit(c, x) = BitOf(c, x - NBytes(c))
        BY <3>1, <1>2 DEF VarintBit, BitOf
      <3> QED BY <3>1, <3>2, <1>2 DEF SameBits
    <2> QED BY <2>2, <2>3
  <1> DEFINE d == EncodeVarint(b)
             e == EncodeVarint(c)
             n == NBytes(b)
  <1>4. /\ d \in Seq(Byte) /\ Len(d) = n
        /\ \A k \in 1 .. n, i \in 1 .. 8 : d[k][i] = VarintBit(b, 8 * (k - 1) + i)
    BY EncodeVarintFacts
  <1>5. /\ e \in Seq(Byte) /\ Len(e) = n
        /\ \A k \in 1 .. n, i \in 1 .. 8 : e[k][i] = VarintBit(c, 8 * (k - 1) + i)
    BY EncodeVarintFacts, <1>2
  <1> HIDE DEF d, e, n
  <1>6. ASSUME NEW k \in 1 .. n PROVE d[k] = e[k]
    <2>1. d[k] \in [1 .. 8 -> Bit] /\ e[k] \in [1 .. 8 -> Bit]
      BY <1>4, <1>5 DEF Byte
    <2>2. ASSUME NEW i \in 1 .. 8 PROVE d[k][i] = e[k][i]
      <3>1. 8 * (k - 1) + i \in Places
        BY DEF Places
      <3> QED BY <3>1, <1>3, <1>4, <1>5
    <2>3. d[k] = [i \in 1 .. 8 |-> d[k][i]] /\ e[k] = [i \in 1 .. 8 |-> e[k][i]]
      BY <2>1
    <2>4. [i \in 1 .. 8 |-> d[k][i]] = [i \in 1 .. 8 |-> e[k][i]]
      BY <2>2
    <2> QED BY <2>3, <2>4
  <1> QED BY <1>4, <1>5, <1>6, SeqEqual DEF d, e

-----------------------------------------------------------------------------
(* Immediates, as 32-bit words.                                            *)

\* The word with the sign and the magnitude of v.
SignedWord(neg, mag) == IF neg THEN Complement(Low(mag, 32)) ELSE Low(mag, 32)

LEMMA SignedWordFacts ==
  ASSUME NEW neg \in BOOLEAN, NEW mag \in Seq(Bit), BitLength(mag) <= 31
  PROVE  /\ SignedWord(neg, mag) \in Seq(Bit) /\ Len(SignedWord(neg, mag)) = 32
         /\ SignedWord(neg, mag)[32] = IF neg THEN 1 ELSE 0
  <1> DEFINE l == Low(mag, 32)
  <1>1. l \in Seq(Bit) /\ Len(l) = 32
    BY LowFacts, 32 \in Nat
  <1>2. l[32] = 0
    <2>1. BitOf(mag, 32) = 0
      <3>1. 32 \in Places /\ 32 > BitLength(mag)
        BY BitLengthFacts DEF Places
      <3> QED BY <3>1, BitOfAbove
    <2>2. 32 \in 1 .. 32 /\ 32 \in Nat
      OBVIOUS
    <2> QED BY <2>1, <2>2, BitOfLow
  <1> HIDE DEF l
  <1>3. Complement(l) \in Seq(Bit) /\ Len(Complement(l)) = 32 /\ Complement(l)[32] = 1
    <2>1. 32 \in 1 .. Len(l)
      BY <1>1
    <2>2. Complement(l)[32] = 1 - l[32]
      BY <1>1, <2>1, ComplementFacts
    <2> QED BY <1>1, <1>2, <2>2, ComplementFacts
  <1>4. CASE neg
    BY <1>3, <1>4 DEF SignedWord, l
  <1>5. CASE ~neg
    BY <1>1, <1>2, <1>5 DEF SignedWord, l
  <1> QED BY <1>4, <1>5

\* cast_s32() changes the sign and the magnitude, and not the word.
LEMMA CastFacts ==
  ASSUME NEW v \in Immediate, Encodable(v)
  PROVE  /\ CastS32(v).neg \in BOOLEAN /\ CastS32(v).mag \in Seq(Bit)
         /\ BitLength(CastS32(v).mag) <= 31
         /\ Word(v) = SignedWord(CastS32(v).neg, CastS32(v).mag)
  <1>1. v.neg \in BOOLEAN /\ v.mag \in Seq(Bit) /\ BitLength(v.mag) \in Nat
    BY BitLengthFacts DEF Immediate
  <1>2. Word(v) = SignedWord(v.neg, v.mag)
    BY DEF Word, SignedWord
  <1>3. CASE ~v.neg /\ BitLength(v.mag) = 32
    <2> DEFINE l == Low(v.mag, 32)
               c == Complement(l)
    <2>1. CastS32(v) = [neg |-> TRUE, mag |-> c]
      BY <1>3 DEF CastS32
    <2>2. CastS32(v).neg = TRUE /\ CastS32(v).mag = c
      BY <2>1
    <2>3. l \in Seq(Bit) /\ Len(l) = 32
      BY <1>1, LowFacts, 32 \in Nat
    <2>4. l[32] = 1
      <3>1. v.mag[32] = 1 /\ 32 <= Len(v.mag)
        BY <1>1, <1>3, BitLengthFacts
      <3>2. 32 \in 1 .. 32 /\ 32 \in Nat
        OBVIOUS
      <3>3. l[32] = BitOf(v.mag, 32)
        BY <1>1, <3>2, BitOfLow
      <3> QED BY <3>1, <3>3 DEF BitOf
    <2> HIDE DEF l
    <2>5. /\ c \in Seq(Bit) /\ Len(c) = 32 /\ Complement(c) = l
          /\ \A k \in 1 .. 32 : c[k] = 1 - l[k]
      BY <2>3, ComplementFacts
    <2>6. c[32] = 0
      <3>1. 32 \in 1 .. 32
        OBVIOUS
      <3>2. c[32] = 1 - l[32]
        BY <2>5, <3>1
      <3> QED BY <2>4, <3>2
    <2> HIDE DEF c
    <2>7. BitLength(c) <= 31
      <3>0. Len(c) = 32
        BY <2>5
      <3>1. ASSUME NEW k \in 1 .. Len(c), k > 31 PROVE c[k] = 0
        <4>1. k = 32
          BY <3>0, <3>1
        <4> QED BY <4>1, <2>6
      <3> QED BY <2>5, <3>1, BitLengthMost, 31 \in Nat
    <2>8. Low(c, 32) = c
      BY <2>5, LowWhole
    <2>9. SignedWord(TRUE, c) = l
      BY <2>5, <2>8 DEF SignedWord
    <2>10. SignedWord(v.neg, v.mag) = l
      BY <1>3 DEF SignedWord, l
    <2> QED BY <1>2, <2>2, <2>5, <2>7, <2>9, <2>10
  <1>4. CASE ~(~v.neg /\ BitLength(v.mag) = 32)
    <2>1. CastS32(v) = v
      BY <1>4 DEF CastS32
    <2>2. BitLength(v.mag) <= 31
      <3>1. CASE v.neg
        BY <1>1, <3>1 DEF Encodable
      <3>2. CASE ~v.neg
        <4>1. BitLength(v.mag) <= 32 /\ BitLength(v.mag) # 32
          BY <1>4, <3>2 DEF Encodable
        <4> QED BY <1>1, <4>1
      <3> QED BY <3>1, <3>2
    <2> QED BY <1>1, <1>2, <2>1, <2>2
  <1> QED BY <1>3, <1>4

\* A word tells the sign and the magnitude.
LEMMA WordTells ==
  ASSUME NEW v \in Immediate, Encodable(v), NEW w \in Immediate, Encodable(w), Word(v) = Word(w)
  PROVE  CastS32(v).neg = CastS32(w).neg /\ SameBits(CastS32(v).mag, CastS32(w).mag)
  <1> DEFINE n == CastS32(v).neg
             o == CastS32(w).neg
             b == CastS32(v).mag
             c == CastS32(w).mag
  <1>1. /\ n \in BOOLEAN /\ b \in Seq(Bit) /\ BitLength(b) <= 31 /\ Word(v) = SignedWord(n, b)
        /\ o \in BOOLEAN /\ c \in Seq(Bit) /\ BitLength(c) <= 31 /\ Word(w) = SignedWord(o, c)
    BY CastFacts
  <1> HIDE DEF n, o, b, c
  <1>2. n = o
    <2>1. SignedWord(n, b)[32] = (IF n THEN 1 ELSE 0) /\ SignedWord(o, c)[32] = (IF o THEN 1 ELSE 0)
      BY <1>1, SignedWordFacts
    <2>2. (IF n THEN 1 ELSE 0) = (IF o THEN 1 ELSE 0)
      BY <1>1, <2>1
    <2>3. n <=> o
      BY <2>2
    <2> QED BY <1>1, <2>3
  <1>3. Low(b, 32) = Low(c, 32)
    <2>1. CASE n
      <3>1. Complement(Low(b, 32)) = Complement(Low(c, 32))
        BY <1>1, <1>2, <2>1 DEF SignedWord
      <3>2. Low(b, 32) \in Seq(Bit) /\ Low(c, 32) \in Seq(Bit)
        BY <1>1, LowFacts, 32 \in Nat
      <3>3. Complement(Complement(Low(b, 32))) = Low(b, 32)
        BY <3>2, ComplementFacts
      <3>4. Complement(Complement(Low(c, 32))) = Low(c, 32)
        BY <3>2, ComplementFacts
      <3> QED BY <3>1, <3>3, <3>4
    <2>2. CASE ~n
      BY <1>1, <1>2, <2>2 DEF SignedWord
    <2> QED BY <1>1, <2>1, <2>2
  <1>4. ASSUME NEW k \in Places PROVE BitOf(b, k) = BitOf(c, k)
    <2>1. CASE k <= 32
      <3>1. k \in 1 .. 32
        BY <2>1 DEF Places
      <3> QED BY <1>1, <1>3, <3>1, LowDiffers, 32 \in Nat
    <2>2. CASE ~(k <= 32)
      <3>1. k > BitLength(b) /\ k > BitLength(c)
        BY <1>1, <2>2, BitLengthFacts DEF Places
      <3>2. BitOf(b, k) = 0 /\ BitOf(c, k) = 0
        BY <1>1, <3>1, BitOfAbove
      <3> QED BY <3>2
    <2> QED BY <2>1, <2>2
  <1> QED BY <1>2, <1>4 DEF SameBits, n, o, b, c

-----------------------------------------------------------------------------
(* Addresses.                                                              *)

\* b is x, then the bits of a.
Prefixed(b, x, a) ==
  \A k \in Places : BitOf(b, k) = IF k <= Len(x) THEN x[k] ELSE BitOf(a, k - Len(x))

LEMMA PrefixDecodes ==
  ASSUME NEW x \in Seq(Bit), NEW a \in Seq(Bit), NEW b \in Seq(Bit), Prefixed(b, x, a),
         NEW n \in Nat, Len(x) <= n, BitLength(b) <= n
  PROVE  /\ \A i \in 1 .. Len(x) : Low(b, n)[i] = x[i]
         /\ Drop(Low(b, n), Len(x)) \in Seq(Bit)
         /\ SameBits(Drop(Low(b, n), Len(x)), a)
  <1> DEFINE p == Low(b, n)
             j == Len(x)
  <1>1. /\ p \in Seq(Bit) /\ Len(p) = n /\ j \in Nat
        /\ \A k \in 1 .. n : p[k] = BitOf(b, k)
        /\ \A k \in Places : BitOf(p, k) = IF k <= n THEN BitOf(b, k) ELSE 0
    <2>1. p \in Seq(Bit) /\ Len(p) = n
      BY LowFacts
    <2>2. /\ \A k \in 1 .. n : p[k] = BitOf(b, k)
          /\ \A k \in Places : BitOf(p, k) = IF k <= n THEN BitOf(b, k) ELSE 0
      BY BitOfLow
    <2>3. j \in Nat
      OBVIOUS
    <2> HIDE DEF p, j
    <2> QED BY <2>1, <2>2, <2>3
  <1> HIDE DEF p
  <1>2. ASSUME NEW i \in 1 .. j PROVE p[i] = x[i]
    <2>1. i \in 1 .. n /\ i \in Places /\ i <= Len(x)
      BY DEF Places
    <2> QED BY <1>1, <2>1 DEF Prefixed
  <1>3. j \in 0 .. Len(p)
    BY <1>1
  <1>4. Drop(p, j) \in Seq(Bit) /\ \A k \in Places : BitOf(Drop(p, j), k) = BitOf(p, j + k)
    <2> HIDE DEF j
    <2>1. 1 \in Places
      BY DEF Places
    <2> QED BY <1>1, <1>3, <2>1, BitOfDrop
  <1>5. ASSUME NEW k \in Places PROVE BitOf(p, j + k) = BitOf(a, k)
    <2>1. j + k \in Places /\ ~(j + k <= Len(x)) /\ (j + k) - Len(x) = k
      BY <1>1 DEF Places
    <2>2. BitOf(b, j + k) = BitOf(a, k)
      BY <2>1 DEF Prefixed
    <2>3. CASE j + k <= n
      BY <1>1, <2>1, <2>2, <2>3
    <2>4. CASE ~(j + k <= n)
      <3>1. j + k > BitLength(b)
        BY <2>1, <2>4, BitLengthFacts DEF Places
      <3>2. BitOf(b, j + k) = 0
        BY <2>1, <3>1, BitOfAbove
      <3> QED BY <1>1, <2>1, <2>2, <2>4, <3>2
    <2> QED BY <2>3, <2>4
  <1> QED BY <1>2, <1>4, <1>5 DEF SameBits, p, j

LEMMA PrefixedConcat ==
  ASSUME NEW x \in Seq(Bit), NEW a \in Seq(Bit)
  PROVE  x \o a \in Seq(Bit) /\ Prefixed(x \o a, x, a)
  BY BitOfConcat DEF Prefixed

\* The bits of an address after the modes.
Aligned(a) == Low(a, 2) = Zeros(2)
AddrTail(a) == IF Aligned(a) THEN Drop(Low(a, 32), 2) ELSE a
Misaligned(a) == IF Aligned(a) THEN 0 ELSE 1

LEMMA AlignedTail ==
  ASSUME NEW a \in Seq(Bit), Aligned(a)
  PROVE  /\ AddrTail(a) \in Seq(Bit) /\ Misaligned(a) = 0
         /\ BitOf(a, 1) = 0 /\ BitOf(a, 2) = 0
         /\ \A k \in Places : BitOf(AddrTail(a), k) = IF k + 2 <= 32 THEN BitOf(a, k + 2) ELSE 0
  <1>1. Misaligned(a) = 0 /\ AddrTail(a) = Drop(Low(a, 32), 2)
    BY DEF Misaligned, AddrTail
  <1>2. BitOf(a, 1) = 0 /\ BitOf(a, 2) = 0
    <2>1. Low(a, 2)[1] = BitOf(a, 1) /\ Low(a, 2)[2] = BitOf(a, 2)
      <3>1. 1 \in 1 .. 2 /\ 2 \in 1 .. 2 /\ 2 \in Nat
        OBVIOUS
      <3> QED BY <3>1, BitOfLow
    <2>2. Low(a, 2)[1] = 0 /\ Low(a, 2)[2] = 0
      BY DEF Aligned, Zeros
    <2> QED BY <2>1, <2>2
  <1> DEFINE l == Low(a, 32)
  <1>3. /\ l \in Seq(Bit) /\ Len(l) = 32
        /\ \A k \in Places : BitOf(l, k) = IF k <= 32 THEN BitOf(a, k) ELSE 0
    BY LowFacts, BitOfLow, 32 \in Nat
  <1>4. AddrTail(a) = Drop(l, 2)
    BY <1>1
  <1> HIDE DEF l
  <1>5. 2 \in 0 .. Len(l) /\ 1 \in Places
    BY <1>3 DEF Places
  <1>6. Drop(l, 2) \in Seq(Bit) /\ \A k \in Places : BitOf(Drop(l, 2), k) = BitOf(l, 2 + k)
    BY <1>3, <1>5, BitOfDrop
  <1>7. ASSUME NEW k \in Places
        PROVE  BitOf(Drop(l, 2), k) = IF k + 2 <= 32 THEN BitOf(a, k + 2) ELSE 0
    <2>1. 2 + k \in Places /\ 2 + k = k + 2
      BY DEF Places
    <2> QED BY <1>3, <1>6, <2>1
  <1> QED BY <1>1, <1>2, <1>4, <1>6, <1>7

LEMMA AddrTailFacts ==
  ASSUME NEW a \in Seq(Bit), Len(a) <= 32
  PROVE  /\ AddrTail(a) \in Seq(Bit) /\ Misaligned(a) \in Bit
         /\ \A k \in Places : k > 32 => BitOf(AddrTail(a), k) = 0
  <1>1. CASE Aligned(a)
    <2>1. Misaligned(a) \in Bit
      BY <1>1, AlignedTail DEF Bit
    <2>2. ASSUME NEW k \in Places, k > 32 PROVE BitOf(AddrTail(a), k) = 0
      <3>1. ~(k + 2 <= 32)
        BY <2>2 DEF Places
      <3> QED BY <1>1, <3>1, AlignedTail
    <2> QED BY <1>1, <2>1, <2>2, AlignedTail
  <1>2. CASE ~Aligned(a)
    <2>1. AddrTail(a) = a /\ Misaligned(a) = 1
      BY <1>2 DEF AddrTail, Misaligned
    <2>2. \A k \in Places : k > 32 => BitOf(a, k) = 0
      BY DEF BitOf, Places
    <2> QED BY <2>1, <2>2 DEF Bit
  <1> QED BY <1>1, <1>2

\* The interpreter restores the address.
LEMMA AddressDecodes ==
  ASSUME NEW a \in Seq(Bit), Len(a) <= 32, NEW y \in Seq(Bit), SameBits(y, AddrTail(a))
  PROVE  AddressIn(y, Misaligned(a)) = Low(a, 32)
  <1>1. CASE Aligned(a)
    <2> DEFINE z == Zeros(2)
               q == z \o y
    <2>1. z \in Seq(Bit) /\ Len(z) = 2 /\ z[1] = 0 /\ z[2] = 0
      <3>1. z \in [1 .. 2 -> Bit] /\ z[1] = 0 /\ z[2] = 0
        BY DEF Zeros, Bit
      <3> HIDE DEF z
      <3> QED BY <3>1, TupleIsSeq, 2 \in Nat
    <2> HIDE DEF z
    <2>2. q \in Seq(Bit) /\ Prefixed(q, z, y)
      BY <2>1, PrefixedConcat
    <2>3. AddressIn(y, Misaligned(a)) = Low(q, 32)
      <3>1. Misaligned(a) # 1
        BY <1>1, AlignedTail
      <3> QED BY <3>1 DEF AddressIn, z
    <2> HIDE DEF q
    <2>4. ASSUME NEW k \in 1 .. 32 PROVE BitOf(q, k) = BitOf(a, k)
      <3>1. k \in Places
        BY DEF Places
      <3>2. CASE k <= 2
        <4>1. BitOf(q, k) = z[k]
          BY <2>1, <2>2, <3>1, <3>2 DEF Prefixed
        <4>2. k = 1 \/ k = 2
          BY <3>2
        <4> QED BY <4>1, <4>2, <2>1, <1>1, AlignedTail
      <3>3. CASE ~(k <= 2)
        <4>1. BitOf(q, k) = BitOf(y, k - 2)
          BY <2>1, <2>2, <3>1, <3>3 DEF Prefixed
        <4>2. k - 2 \in Places /\ (k - 2) + 2 = k /\ k <= 32
          BY <3>3 DEF Places
        <4>3. BitOf(y, k - 2) = BitOf(AddrTail(a), k - 2)
          BY <4>2 DEF SameBits
        <4>4. BitOf(AddrTail(a), k - 2) = BitOf(a, k)
          <5> DEFINE i == k - 2
          <5>1. i \in Places /\ i + 2 = k
            BY <4>2
          <5> HIDE DEF i
          <5>2. BitOf(AddrTail(a), i) = IF i + 2 <= 32 THEN BitOf(a, i + 2) ELSE 0
            BY <1>1, <5>1, AlignedTail
          <5> QED BY <5>1, <5>2, <4>2 DEF i
        <4> QED BY <4>1, <4>3, <4>4
      <3> QED BY <3>2, <3>3
    <2>5. Low(q, 32) = Low(a, 32)
      BY <2>2, <2>4, LowSame, 32 \in Nat
    <2> QED BY <2>3, <2>5
  <1>2. CASE ~Aligned(a)
    <2>1. AddrTail(a) = a /\ Misaligned(a) = 1
      BY <1>2 DEF AddrTail, Misaligned
    <2>2. AddressIn(y, Misaligned(a)) = Low(y, 32)
      BY <2>1 DEF AddressIn
    <2>3. \A k \in 1 .. 32 : BitOf(y, k) = BitOf(a, k)
      BY <2>1 DEF SameBits, Places
    <2>4. Low(y, 32) = Low(a, 32)
      BY <2>3, LowSame, 32 \in Nat
    <2> QED BY <2>2, <2>4
  <1> QED BY <1>1, <1>2

\* An address is encoded in one way.
LEMMA AddressTells ==
  ASSUME NEW a \in Seq(Bit), Len(a) <= 32, NEW c \in Seq(Bit), Len(c) <= 32,
         Low(a, 32) = Low(c, 32)
  PROVE  Misaligned(a) = Misaligned(c) /\ SameBits(AddrTail(a), AddrTail(c))
  <1>1. SameBits(a, c)
    <2>1. ASSUME NEW k \in Places PROVE BitOf(a, k) = BitOf(c, k)
      <3>1. CASE k <= 32
        <4>1. k \in 1 .. 32
          BY <3>1 DEF Places
        <4> QED BY <4>1, LowDiffers, 32 \in Nat
      <3>2. CASE ~(k <= 32)
        <4>1. ~(k <= Len(a)) /\ ~(k <= Len(c))
          BY <3>2 DEF Places
        <4> QED BY <4>1 DEF BitOf
      <3> QED BY <3>1, <3>2
    <2> QED BY <2>1 DEF SameBits
  <1>2. Low(a, 2) = Low(c, 2)
    <2>1. \A k \in 1 .. 2 : BitOf(a, k) = BitOf(c, k)
      BY <1>1 DEF SameBits, Places
    <2> QED BY <2>1, LowSame, 2 \in Nat
  <1>3. Aligned(a) <=> Aligned(c)
    BY <1>2 DEF Aligned
  <1>4. Misaligned(a) = Misaligned(c)
    BY <1>3 DEF Misaligned
  <1>5. AddrTail(a) = AddrTail(c) \/ (AddrTail(a) = a /\ AddrTail(c) = c)
    BY <1>3 DEF AddrTail
  <1>6. SameBits(AddrTail(a), AddrTail(c))
    BY <1>1, <1>5 DEF SameBits
  <1> QED BY <1>4, <1>6

-----------------------------------------------------------------------------
(* One cell of an operand.                                                 *)

EncodableCell(c) ==
  /\ c \in Cell /\ c.mode \in {"lit", "imm", "mem", "ind"}
  /\ c.mode \in {"lit", "imm"} => Encodable(c.v)
  /\ c.mode \in {"mem", "ind"} => Len(c.v) <= 32

MeaningCell(c) ==
  IF c.mode \in {"lit", "imm"} THEN [mode |-> "imm", v |-> Word(c.v)]
  ELSE [mode |-> c.mode, v |-> Low(c.v, 32)]

\* The decoder's cell, from the bits of a varint.
SrcOf(b) ==
  IF b[1] = 0
  THEN LET v == Low(Drop(b, 2), 32)
       IN  [mode |-> "imm", v |-> IF b[2] = 1 THEN Complement(v) ELSE v]
  ELSE [mode |-> IF b[2] = 1 THEN "ind" ELSE "mem", v |-> AddressIn(Drop(b, 3), b[3])]
TgtOf(b) == [mode |-> IF b[1] = 1 THEN "ind" ELSE "mem", v |-> AddressIn(Drop(b, 2), b[2])]

LEMMA ImmediateCell ==
  ASSUME NEW c, EncodableCell(c), c.mode \in {"lit", "imm"}
  PROVE  c.v \in Immediate /\ Encodable(c.v)
  <1>1. CASE c \in [mode : {"lit", "imm"}, v : Immediate]
    BY <1>1 DEF EncodableCell
  <1>2. CASE c \in [mode : {"bool", "mem", "ind"}, v : Seq(Bit)]
    BY <1>2
  <1> QED BY <1>1, <1>2 DEF EncodableCell, Cell

LEMMA AddressCell ==
  ASSUME NEW c, EncodableCell(c), c.mode \in {"mem", "ind"}
  PROVE  c.v \in Seq(Bit) /\ Len(c.v) <= 32
  <1>1. CASE c \in [mode : {"lit", "imm"}, v : Immediate]
    BY <1>1
  <1>2. CASE c \in [mode : {"bool", "mem", "ind"}, v : Seq(Bit)]
    BY <1>2 DEF EncodableCell
  <1> QED BY <1>1, <1>2 DEF EncodableCell, Cell

\* The sign of an immediate, as a bit.
SignOf(v) == IF CastS32(v).neg THEN 1 ELSE 0

LEMMA ImmBitsFacts ==
  ASSUME NEW v \in Immediate, Encodable(v)
  PROVE  /\ ImmBits(v) \in Seq(Bit) /\ BitLength(ImmBits(v)) <= 33
         /\ <<0, SignOf(v)>> \in Seq(Bit) /\ Len(<<0, SignOf(v)>>) = 2
         /\ Prefixed(ImmBits(v), <<0, SignOf(v)>>, CastS32(v).mag)
  <1> DEFINE x == <<0, SignOf(v)>>
             a == CastS32(v).mag
             b == ImmBits(v)
  <1>1. x \in Seq(Bit) /\ Len(x) = 2
    <2>1. 0 \in Bit /\ SignOf(v) \in Bit
      BY DEF Bit, SignOf
    <2> QED BY <2>1
  <1>2. a \in Seq(Bit) /\ BitLength(a) <= 31
    BY CastFacts
  <1>3. b = x \o a
    BY DEF ImmBits, SignOf
  <1> HIDE DEF x, a, b
  <1>4. b \in Seq(Bit) /\ Prefixed(b, x, a)
    BY <1>1, <1>2, <1>3, PrefixedConcat
  <1>5. ASSUME NEW k \in Places, k > 33 PROVE BitOf(b, k) = 0
    <2>1. k - 2 \in Places /\ k - 2 > BitLength(a) /\ ~(k <= 2)
      BY <1>2, <1>5, BitLengthFacts DEF Places
    <2>2. BitOf(a, k - 2) = 0
      BY <1>2, <2>1, BitOfAbove
    <2> QED BY <1>1, <1>4, <2>1, <2>2 DEF Prefixed
  <1>6. BitLength(b) <= 33
    BY <1>4, <1>5, BitOfLength, 33 \in Nat
  <1> QED BY <1>1, <1>4, <1>6 DEF x, a, b

LEMMA ImmDecodes ==
  ASSUME NEW v \in Immediate, Encodable(v), NEW n \in Nat, n >= 2, BitLength(ImmBits(v)) <= n
  PROVE  SrcOf(Low(ImmBits(v), n)) = [mode |-> "imm", v |-> Word(v)]
  <1> DEFINE x == <<0, SignOf(v)>>
             a == CastS32(v).mag
             b == ImmBits(v)
             p == Low(b, n)
  <1>1. b \in Seq(Bit) /\ x \in Seq(Bit) /\ Len(x) = 2 /\ Prefixed(b, x, a)
    BY ImmBitsFacts
  <1>2. /\ CastS32(v).neg \in BOOLEAN /\ a \in Seq(Bit) /\ BitLength(a) <= 31
        /\ Word(v) = SignedWord(CastS32(v).neg, a)
    BY CastFacts
  <1>3. x[1] = 0 /\ x[2] = SignOf(v)
    OBVIOUS
  <1> HIDE DEF x, a, b
  <1>4. /\ \A i \in 1 .. Len(x) : p[i] = x[i]
        /\ Drop(p, Len(x)) \in Seq(Bit) /\ SameBits(Drop(p, Len(x)), a)
    <2>1. Len(x) <= n /\ BitLength(b) <= n
      BY <1>1 DEF b
    <2> QED BY <1>1, <1>2, <2>1, PrefixDecodes
  <1> HIDE DEF p
  <1>5. p[1] = 0 /\ p[2] = SignOf(v) /\ Drop(p, 2) \in Seq(Bit) /\ SameBits(Drop(p, 2), a)
    BY <1>1, <1>3, <1>4
  <1>6. Low(Drop(p, 2), 32) = Low(a, 32)
    <2>1. \A k \in 1 .. 32 : BitOf(Drop(p, 2), k) = BitOf(a, k)
      BY <1>5 DEF SameBits, Places
    <2> QED BY <1>2, <1>5, <2>1, LowSame, 32 \in Nat
  <1>7. (IF p[2] = 1 THEN Complement(Low(a, 32)) ELSE Low(a, 32)) = Word(v)
    BY <1>2, <1>5 DEF SignedWord, SignOf
  <1>8. SrcOf(p) = [mode |-> "imm", v |-> Word(v)]
    BY <1>5, <1>6, <1>7 DEF SrcOf
  <1> QED BY <1>8 DEF p, b

\* The modes before the bits of an address.
MemPrefix(a, ind, as_src) == IF as_src THEN <<1, ind, Misaligned(a)>> ELSE <<ind, Misaligned(a)>>

LEMMA AddrBitsFacts ==
  ASSUME NEW a \in Seq(Bit), Len(a) <= 32, NEW ind \in Bit, NEW as_src \in BOOLEAN
  PROVE  LET b == (IF as_src THEN <<1>> ELSE <<>>) \o AddrBits(a, ind)
             x == MemPrefix(a, ind, as_src)
         IN  /\ b \in Seq(Bit) /\ BitLength(b) <= 35
             /\ x \in Seq(Bit) /\ Len(x) = (IF as_src THEN 3 ELSE 2)
             /\ Prefixed(b, x, AddrTail(a))
  <1> DEFINE t == AddrTail(a)
             y == <<ind, Misaligned(a)>>
             z == IF as_src THEN <<1>> ELSE <<>>
             c == AddrBits(a, ind)
             b == z \o c
             x == MemPrefix(a, ind, as_src)
  <1>1. t \in Seq(Bit) /\ Misaligned(a) \in Bit /\ \A k \in Places : k > 32 => BitOf(t, k) = 0
    BY AddrTailFacts
  <1>2. y \in Seq(Bit) /\ Len(y) = 2 /\ y[1] = ind /\ y[2] = Misaligned(a)
    BY <1>1
  <1>3. c = y \o t
    BY DEF AddrBits, AddrTail, Misaligned, Aligned
  <1>4. z \in Seq(Bit) /\ Len(z) = (IF as_src THEN 1 ELSE 0) /\ (as_src => z[1] = 1)
    <2>1. <<1>> \in Seq(Bit)
      BY DEF Bit
    <2> QED BY <2>1
  <1>5. /\ x \in Seq(Bit) /\ Len(x) = (IF as_src THEN 3 ELSE 2)
        /\ as_src => x[1] = 1 /\ x[2] = ind /\ x[3] = Misaligned(a)
        /\ ~as_src => x[1] = ind /\ x[2] = Misaligned(a)
    <2>1. 1 \in Bit
      BY DEF Bit
    <2> QED BY <1>1, <2>1 DEF MemPrefix
  <1> HIDE DEF t, y, z, c, x
  <1>6. c \in Seq(Bit) /\ Prefixed(c, y, t)
    BY <1>1, <1>2, <1>3, PrefixedConcat
  <1>7. b \in Seq(Bit) /\ Prefixed(b, z, c)
    BY <1>4, <1>6, PrefixedConcat
  <1> HIDE DEF b
  <1>8. ASSUME NEW k \in Places PROVE BitOf(b, k) = IF k <= Len(x) THEN x[k] ELSE BitOf(t, k - Len(x))
    <2>1. CASE as_src
      <3>1. Len(z) = 1 /\ z[1] = 1 /\ Len(x) = 3 /\ x[1] = 1 /\ x[2] = y[1] /\ x[3] = y[2]
        BY <1>2, <1>4, <1>5, <2>1
      <3>2. CASE k = 1
        <4>1. BitOf(b, k) = z[k]
          BY <1>7, <3>1, <3>2 DEF Prefixed
        <4> QED BY <3>1, <3>2, <4>1
      <3>3. CASE k # 1
        <4> DEFINE j == k - 1
        <4>1. j \in Places /\ ~(k <= 1) /\ k = j + 1
          BY <3>3 DEF Places
        <4>2. BitOf(b, k) = BitOf(c, j)
          BY <1>7, <3>1, <4>1 DEF Prefixed
        <4> HIDE DEF j
        <4>3. BitOf(c, j) = IF j <= 2 THEN y[j] ELSE BitOf(t, j - 2)
          BY <1>2, <1>6, <4>1 DEF Prefixed
        <4>4. CASE j <= 2
          <5>1. j = 1 \/ j = 2
            BY <4>1, <4>4 DEF Places
          <5>2. CASE j = 1
            <6>1. k = 2
              BY <4>1, <5>2
            <6> QED BY <4>2, <4>3, <6>1, <5>2, <3>1
          <5>3. CASE j = 2
            <6>1. k = 3
              BY <4>1, <5>3
            <6> QED BY <4>2, <4>3, <6>1, <5>3, <3>1
          <5> QED BY <5>1, <5>2, <5>3
        <4>5. CASE ~(j <= 2)
          <5>1. ~(k <= 3) /\ k - 3 = j - 2
            BY <4>1, <4>5 DEF Places
          <5> QED BY <4>2, <4>3, <4>5, <5>1, <3>1
        <4> QED BY <4>4, <4>5
      <3> QED BY <3>2, <3>3
    <2>2. CASE ~as_src
      <3>1. Len(z) = 0 /\ Len(x) = 2 /\ x[1] = y[1] /\ x[2] = y[2]
        BY <1>2, <1>4, <1>5, <2>2
      <3>2. BitOf(b, k) = BitOf(c, k)
        <4>1. ~(k <= 0) /\ k - 0 = k
          BY DEF Places
        <4> QED BY <1>7, <3>1, <4>1 DEF Prefixed
      <3>3. BitOf(c, k) = IF k <= 2 THEN y[k] ELSE BitOf(t, k - 2)
        BY <1>2, <1>6 DEF Prefixed
      <3>4. k <= 2 => k = 1 \/ k = 2
        BY DEF Places
      <3> QED BY <3>1, <3>2, <3>3, <3>4
    <2> QED BY <2>1, <2>2
  <1>9. BitLength(b) <= 35
    <2>1. ASSUME NEW k \in Places, k > 35 PROVE BitOf(b, k) = 0
      <3> DEFINE j == k - Len(x)
      <3>1. ~(k <= Len(x)) /\ j \in Places /\ j > 32
        BY <1>5, <2>1 DEF Places
      <3>2. BitOf(b, k) = BitOf(t, j)
        BY <1>8, <3>1
      <3> HIDE DEF j
      <3> QED BY <1>1, <3>1, <3>2
    <2> QED BY <1>7, <2>1, BitOfLength, 35 \in Nat
  <1>10. Prefixed(b, x, t)
    BY <1>8 DEF Prefixed
  <1> QED BY <1>5, <1>7, <1>9, <1>10 DEF b, x, t, z, c

\* The mode bit of an address.
IndBit(c) == IF c.mode = "ind" THEN 1 ELSE 0

LEMMA AddressCellBits ==
  ASSUME NEW c, EncodableCell(c), c.mode \in {"mem", "ind"}, NEW as_src \in BOOLEAN
  PROVE  LET b == CellBits(c, as_src)
             x == MemPrefix(c.v, IndBit(c), as_src)
         IN  /\ b \in Seq(Bit) /\ BitLength(b) <= 35
             /\ x \in Seq(Bit) /\ Len(x) = (IF as_src THEN 3 ELSE 2)
             /\ Prefixed(b, x, AddrTail(c.v))
  <1>1. c.v \in Seq(Bit) /\ Len(c.v) <= 32
    BY AddressCell
  <1>2. IndBit(c) \in Bit
    BY DEF IndBit, Bit
  <1>3. CellBits(c, as_src) = (IF as_src THEN <<1>> ELSE <<>>) \o AddrBits(c.v, IndBit(c))
    <2>1. ~(c.mode \in {"lit", "imm"})
      OBVIOUS
    <2> QED BY <2>1 DEF CellBits, IndBit
  <1> QED BY <1>1, <1>2, <1>3, AddrBitsFacts

LEMMA ImmediateCellBits ==
  ASSUME NEW c, EncodableCell(c), c.mode \in {"lit", "imm"}, NEW as_src
  PROVE  CellBits(c, as_src) = ImmBits(c.v)
  <1>1. ~(c.mode \in {"mem", "ind"})
    OBVIOUS
  <1> QED BY <1>1 DEF CellBits

LEMMA CellBitsFacts ==
  ASSUME NEW c, EncodableCell(c), NEW as_src \in BOOLEAN
  PROVE  CellBits(c, as_src) \in Seq(Bit) /\ BitLength(CellBits(c, as_src)) <= 35
  <1>1. CASE c.mode \in {"lit", "imm"}
    <2>1. c.v \in Immediate /\ Encodable(c.v) /\ CellBits(c, as_src) = ImmBits(c.v)
      BY <1>1, ImmediateCell, ImmediateCellBits
    <2>2. ImmBits(c.v) \in Seq(Bit) /\ BitLength(ImmBits(c.v)) <= 33
      BY <2>1, ImmBitsFacts
    <2>3. BitLength(ImmBits(c.v)) \in Nat
      BY <2>2, BitLengthFacts
    <2> QED BY <2>1, <2>2, <2>3
  <1>2. CASE c.mode \in {"mem", "ind"}
    BY <1>2, AddressCellBits
  <1> QED BY <1>1, <1>2 DEF EncodableCell

\* What read_src() and read_dst() make of the varint of a cell.
LEMMA SrcDecodes ==
  ASSUME NEW c, EncodableCell(c), NEW n \in Nat, n >= 7, BitLength(CellBits(c, TRUE)) <= n
  PROVE  SrcOf(Low(CellBits(c, TRUE), n)) = MeaningCell(c)
  <1>1. CASE c.mode \in {"lit", "imm"}
    <2>1. c.v \in Immediate /\ Encodable(c.v) /\ CellBits(c, TRUE) = ImmBits(c.v)
      BY <1>1, ImmediateCell, ImmediateCellBits
    <2>2. SrcOf(Low(ImmBits(c.v), n)) = [mode |-> "imm", v |-> Word(c.v)]
      <3>1. BitLength(ImmBits(c.v)) <= n
        BY <2>1
      <3>2. n >= 2
        OBVIOUS
      <3> QED BY <2>1, <3>1, <3>2, ImmDecodes
    <2> QED BY <1>1, <2>1, <2>2 DEF MeaningCell
  <1>2. CASE c.mode \in {"mem", "ind"}
    <2> DEFINE b == CellBits(c, TRUE)
               x == MemPrefix(c.v, IndBit(c), TRUE)
               t == AddrTail(c.v)
               p == Low(b, n)
               d == Drop(p, 3)
    <2>1. c.v \in Seq(Bit) /\ Len(c.v) <= 32
      BY <1>2, AddressCell
    <2>2. b \in Seq(Bit) /\ x \in Seq(Bit) /\ Len(x) = 3 /\ Prefixed(b, x, t)
      BY <1>2, AddressCellBits
    <2>3. x[1] = 1 /\ x[2] = IndBit(c) /\ x[3] = Misaligned(c.v)
      BY DEF MemPrefix
    <2>4. t \in Seq(Bit)
      BY <2>1, AddrTailFacts
    <2>5. BitLength(b) <= n
      OBVIOUS
    <2> HIDE DEF b, x, t
    <2>6. /\ \A i \in 1 .. Len(x) : p[i] = x[i]
          /\ Drop(p, Len(x)) \in Seq(Bit) /\ SameBits(Drop(p, Len(x)), t)
      <3>1. Len(x) <= n
        BY <2>2
      <3> QED BY <2>2, <2>4, <2>5, <3>1, PrefixDecodes
    <2> HIDE DEF p
    <2>7. /\ p[1] = 1 /\ p[2] = IndBit(c) /\ p[3] = Misaligned(c.v)
          /\ d \in Seq(Bit) /\ SameBits(d, t)
      BY <2>2, <2>3, <2>6
    <2> HIDE DEF d
    <2>8. AddressIn(d, Misaligned(c.v)) = Low(c.v, 32)
      BY <2>1, <2>7, AddressDecodes DEF t
    <2>9. (IF p[2] = 1 THEN "ind" ELSE "mem") = c.mode
      BY <1>2, <2>7 DEF IndBit
    <2>10. SrcOf(p) = [mode |-> c.mode, v |-> Low(c.v, 32)]
      BY <2>7, <2>8, <2>9 DEF SrcOf, d
    <2> QED BY <1>2, <2>10 DEF MeaningCell, p, b
  <1> QED BY <1>1, <1>2 DEF EncodableCell

LEMMA TgtDecodes ==
  ASSUME NEW c, EncodableCell(c), c.mode \in {"mem", "ind"},
         NEW n \in Nat, n >= 7, BitLength(CellBits(c, FALSE)) <= n
  PROVE  TgtOf(Low(CellBits(c, FALSE), n)) = MeaningCell(c)
  <1> DEFINE b == CellBits(c, FALSE)
             x == MemPrefix(c.v, IndBit(c), FALSE)
             t == AddrTail(c.v)
             p == Low(b, n)
             d == Drop(p, 2)
  <1>1. c.v \in Seq(Bit) /\ Len(c.v) <= 32
    BY AddressCell
  <1>2. b \in Seq(Bit) /\ x \in Seq(Bit) /\ Len(x) = 2 /\ Prefixed(b, x, t)
    BY AddressCellBits
  <1>3. x[1] = IndBit(c) /\ x[2] = Misaligned(c.v)
    BY DEF MemPrefix
  <1>4. t \in Seq(Bit)
    BY <1>1, AddrTailFacts
  <1>5. BitLength(b) <= n
    OBVIOUS
  <1> HIDE DEF b, x, t
  <1>6. /\ \A i \in 1 .. Len(x) : p[i] = x[i]
        /\ Drop(p, Len(x)) \in Seq(Bit) /\ SameBits(Drop(p, Len(x)), t)
    <2>1. Len(x) <= n
      BY <1>2
    <2> QED BY <1>2, <1>4, <1>5, <2>1, PrefixDecodes
  <1> HIDE DEF p
  <1>7. p[1] = IndBit(c) /\ p[2] = Misaligned(c.v) /\ d \in Seq(Bit) /\ SameBits(d, t)
    BY <1>2, <1>3, <1>6
  <1> HIDE DEF d
  <1>8. AddressIn(d, Misaligned(c.v)) = Low(c.v, 32)
    BY <1>1, <1>7, AddressDecodes DEF t
  <1>9. (IF p[1] = 1 THEN "ind" ELSE "mem") = c.mode
    BY <1>7 DEF IndBit
  <1>10. TgtOf(p) = [mode |-> c.mode, v |-> Low(c.v, 32)]
    BY <1>7, <1>8, <1>9 DEF TgtOf, d
  <1>11. ~(c.mode \in {"lit", "imm"})
    OBVIOUS
  <1> QED BY <1>10, <1>11 DEF MeaningCell, p, b

\* The cell that is read from the varint of a cell.
LEMMA SrcArrives ==
  ASSUME NEW c, EncodableCell(c)
  PROVE  SrcOf(PayloadOf(EncodeVarint(CellBits(c, TRUE)))) = MeaningCell(c)
  <1> DEFINE b == CellBits(c, TRUE)
             n == 7 * NBytes(b)
  <1>1. b \in Seq(Bit) /\ BitLength(b) <= 35
    BY CellBitsFacts
  <1>2. PayloadOf(EncodeVarint(b)) = Low(b, n) /\ NBytes(b) \in 1 .. 5 /\ BitLength(b) <= n
    BY <1>1, PayloadIs, NBytesFacts
  <1>3. n \in Nat /\ n >= 7
    <2>1. \A k \in 1 .. 5 : 7 * k \in Nat /\ 7 * k >= 7
      OBVIOUS
    <2> QED BY <1>2, <2>1
  <1> HIDE DEF n
  <1> QED BY <1>2, <1>3, SrcDecodes

LEMMA TgtArrives ==
  ASSUME NEW c, EncodableCell(c), c.mode \in {"mem", "ind"}
  PROVE  TgtOf(PayloadOf(EncodeVarint(CellBits(c, FALSE)))) = MeaningCell(c)
  <1> DEFINE b == CellBits(c, FALSE)
             n == 7 * NBytes(b)
  <1>1. b \in Seq(Bit) /\ BitLength(b) <= 35
    BY CellBitsFacts
  <1>2. PayloadOf(EncodeVarint(b)) = Low(b, n) /\ NBytes(b) \in 1 .. 5 /\ BitLength(b) <= n
    BY <1>1, PayloadIs, NBytesFacts
  <1>3. n \in Nat /\ n >= 7
    <2>1. \A k \in 1 .. 5 : 7 * k \in Nat /\ 7 * k >= 7
      OBVIOUS
    <2> QED BY <1>2, <2>1
  <1> HIDE DEF n
  <1> QED BY <1>2, <1>3, TgtDecodes

LEMMA MeaningFields ==
  ASSUME NEW c
  PROVE  /\ MeaningCell(c).mode = IF c.mode \in {"lit", "imm"} THEN "imm" ELSE c.mode
         /\ MeaningCell(c).v = IF c.mode \in {"lit", "imm"} THEN Word(c.v) ELSE Low(c.v, 32)
  BY DEF MeaningCell

\* Cells mean the same exactly if they are encoded, as sources, alike.
LEMMA SameMeaning ==
  ASSUME NEW c, EncodableCell(c), NEW d, EncodableCell(d)
  PROVE  MeaningCell(c) = MeaningCell(d) <=>
           EncodeVarint(CellBits(c, TRUE)) = EncodeVarint(CellBits(d, TRUE))
  <1> DEFINE b == CellBits(c, TRUE)
             e == CellBits(d, TRUE)
  <1>1. /\ b \in Seq(Bit) /\ BitLength(b) <= 35
        /\ e \in Seq(Bit) /\ BitLength(e) <= 35
    BY CellBitsFacts
  <1>2. ASSUME EncodeVarint(b) = EncodeVarint(e) PROVE MeaningCell(c) = MeaningCell(d)
    <2>1. SrcOf(PayloadOf(EncodeVarint(b))) = MeaningCell(c)
      BY SrcArrives
    <2>2. SrcOf(PayloadOf(EncodeVarint(e))) = MeaningCell(d)
      BY SrcArrives
    <2> HIDE DEF b, e
    <2> QED BY <1>2, <2>1, <2>2
  <1>3. ASSUME MeaningCell(c) = MeaningCell(d) PROVE EncodeVarint(b) = EncodeVarint(e)
    <2>1. CASE c.mode \in {"lit", "imm"}
      <3>2. d.mode \in {"lit", "imm"}
        BY <1>3, <2>1, MeaningFields DEF EncodableCell
      <3>4. Word(c.v) = Word(d.v)
        BY <1>3, <2>1, <3>2, MeaningFields
      <3>5. c.v \in Immediate /\ Encodable(c.v) /\ b = ImmBits(c.v)
        BY <2>1, ImmediateCell, ImmediateCellBits
      <3>6. d.v \in Immediate /\ Encodable(d.v) /\ e = ImmBits(d.v)
        BY <3>2, ImmediateCell, ImmediateCellBits
      <3>7. /\ CastS32(c.v).neg = CastS32(d.v).neg
            /\ SameBits(CastS32(c.v).mag, CastS32(d.v).mag)
        BY <3>4, <3>5, <3>6, WordTells
      <3> DEFINE x == <<0, SignOf(c.v)>>
      <3>8. Len(x) = 2 /\ Prefixed(b, x, CastS32(c.v).mag)
        BY <3>5, ImmBitsFacts
      <3>9. x = <<0, SignOf(d.v)>>
        BY <3>7 DEF SignOf
      <3>10. Prefixed(e, x, CastS32(d.v).mag)
        BY <3>6, <3>9, ImmBitsFacts
      <3> HIDE DEF b, e, x
      <3>11. SameBits(b, e)
        <4>1. ASSUME NEW k \in Places PROVE BitOf(b, k) = BitOf(e, k)
          <5>1. CASE k <= 2
            BY <3>8, <3>10, <5>1 DEF Prefixed
          <5>2. CASE ~(k <= 2)
            <6>1. k - 2 \in Places
              BY <5>2 DEF Places
            <6>2. BitOf(b, k) = BitOf(CastS32(c.v).mag, k - 2)
              BY <3>8, <5>2 DEF Prefixed
            <6>3. BitOf(e, k) = BitOf(CastS32(d.v).mag, k - 2)
              BY <3>8, <3>10, <5>2 DEF Prefixed
            <6> QED BY <6>1, <6>2, <6>3, <3>7 DEF SameBits
          <5> QED BY <5>1, <5>2
        <4> QED BY <4>1 DEF SameBits
      <3> QED BY <1>1, <3>11, EncodeSame
    <2>2. CASE ~(c.mode \in {"lit", "imm"})
      <3>2. ~(d.mode \in {"lit", "imm"})
        BY <1>3, <2>2, MeaningFields DEF EncodableCell
      <3>4. c.mode = d.mode /\ Low(c.v, 32) = Low(d.v, 32)
        BY <1>3, <2>2, <3>2, MeaningFields
      <3>5. c.mode \in {"mem", "ind"} /\ d.mode \in {"mem", "ind"}
        BY <2>2, <3>2 DEF EncodableCell
      <3>6. c.v \in Seq(Bit) /\ Len(c.v) <= 32 /\ d.v \in Seq(Bit) /\ Len(d.v) <= 32
        BY <3>5, AddressCell
      <3>7. Misaligned(c.v) = Misaligned(d.v) /\ SameBits(AddrTail(c.v), AddrTail(d.v))
        BY <3>4, <3>6, AddressTells
      <3> DEFINE x == MemPrefix(c.v, IndBit(c), TRUE)
      <3>8. Len(x) = 3 /\ Prefixed(b, x, AddrTail(c.v))
        BY <3>5, AddressCellBits
      <3>9. x = MemPrefix(d.v, IndBit(d), TRUE)
        BY <3>4, <3>7 DEF MemPrefix, IndBit
      <3>10. Prefixed(e, x, AddrTail(d.v))
        BY <3>5, <3>9, AddressCellBits
      <3> HIDE DEF b, e, x
      <3>11. SameBits(b, e)
        <4>1. ASSUME NEW k \in Places PROVE BitOf(b, k) = BitOf(e, k)
          <5>1. CASE k <= 3
            BY <3>8, <3>10, <5>1 DEF Prefixed
          <5>2. CASE ~(k <= 3)
            <6>1. k - 3 \in Places
              BY <5>2 DEF Places
            <6>2. BitOf(b, k) = BitOf(AddrTail(c.v), k - 3)
              BY <3>8, <5>2 DEF Prefixed
            <6>3. BitOf(e, k) = BitOf(AddrTail(d.v), k - 3)
              BY <3>8, <3>10, <5>2 DEF Prefixed
            <6> QED BY <6>1, <6>2, <6>3, <3>7 DEF SameBits
          <5> QED BY <5>1, <5>2
        <4> QED BY <4>1 DEF SameBits
      <3> QED BY <1>1, <3>11, EncodeSame
    <2> QED BY <2>1, <2>2
  <1> QED BY <1>2, <1>3


-----------------------------------------------------------------------------
(* The two tables of the instruction set.                                  *)

SysNames == {"SYS00", "SYS01", "SYS02", "SYS03", "SYS04", "SYS10", "SYS11", "SYS12",
             "SYS13", "SYS14", "SYS20", "SYS21", "SYS22", "SYS23", "SYS24"}
JumpNames == {"JMP", "BR"}
LinkNames == {"JMP_LNK", "BR_LNK"}

LEMMA TableDomains ==
  /\ DOMAIN SysNoResult = {"SYS00", "SYS01", "SYS02", "SYS03", "SYS04"}
  /\ DOMAIN SysOneResult = {"SYS10", "SYS11", "SYS12", "SYS13", "SYS14"}
  /\ DOMAIN SysTwoResults = {"SYS20", "SYS21", "SYS22", "SYS23", "SYS24"}
  /\ DOMAIN C!SysArity = SysNames
  /\ DOMAIN JumpSigs = JumpNames \cup LinkNames
  BY DEF SysNames, SysNoResult, SysOneResult, SysTwoResults, C!SysArity, JumpSigs, JumpNames, LinkNames

\* The groups of the decoder's table are made of the classes of one group each.
LEMMA SameGroups ==
  /\ TAClasses \cup LinkNames = C!UnaryOps \cup C!LoadOps \cup C!StoreOps \cup C!LinkOps
  /\ TABClasses = C!BinaryOps /\ TVarSrcClasses = C!VarSrcOps
  /\ BranchIfClasses = C!BranchIfOps /\ MoveIfClasses = C!MoveIfOps
  /\ LongMulClasses = C!LongOps /\ JumpNames = C!JumpOps
  BY SMT DEF TAClasses, TABClasses, TVarSrcClasses, BranchIfClasses, MoveIfClasses, LongMulClasses,
    JumpNames, LinkNames, ArithmeticClasses, LogicClasses, BitClasses, InvClass, ShiftClasses,
    TestClasses, LoadStoreClasses, UnaryClasses, Logic2Classes, ExtremumClasses, TruthClasses,
    C!UnaryOps, C!LoadOps, C!StoreOps, C!LinkOps, C!BinaryOps, C!DivOps, C!TestOps, C!VarSrcOps,
    C!BranchIfOps, C!MoveIfOps, C!LongOps, C!JumpOps

\* No class is in two groups.
LEMMA Disjoint ==
  ASSUME NEW c
  PROVE  /\ c \in TAClasses => c \notin TABClasses \cup TVarSrcClasses \cup BranchIfClasses \cup MoveIfClasses
              \cup LongMulClasses \cup JumpNames \cup LinkNames \cup SysNames \cup {"SYS", "EXIT", "NOP"}
         /\ c \in TABClasses => c \notin TVarSrcClasses \cup BranchIfClasses \cup MoveIfClasses
              \cup LongMulClasses \cup JumpNames \cup LinkNames \cup SysNames \cup {"SYS", "EXIT", "NOP"}
         /\ c \in TVarSrcClasses => c \notin BranchIfClasses \cup MoveIfClasses
              \cup LongMulClasses \cup JumpNames \cup LinkNames \cup SysNames \cup {"SYS", "EXIT", "NOP"}
         /\ c \in BranchIfClasses => c \notin MoveIfClasses
              \cup LongMulClasses \cup JumpNames \cup LinkNames \cup SysNames \cup {"SYS", "EXIT", "NOP"}
         /\ c \in MoveIfClasses =>
              c \notin LongMulClasses \cup JumpNames \cup LinkNames \cup SysNames \cup {"SYS", "EXIT", "NOP"}
         /\ c \in LongMulClasses => c \notin JumpNames \cup LinkNames \cup SysNames \cup {"SYS", "EXIT", "NOP"}
         /\ c \in JumpNames => c \notin LinkNames \cup SysNames \cup {"SYS", "EXIT", "NOP"}
         /\ c \in LinkNames => c \notin SysNames \cup {"SYS", "EXIT", "NOP"}
         /\ c \in SysNames => c \notin {"SYS", "EXIT", "NOP"}
  BY SMT DEF TAClasses, TABClasses, TVarSrcClasses, BranchIfClasses, MoveIfClasses, LongMulClasses,
    SysNames, JumpNames, LinkNames, ArithmeticClasses, LogicClasses, BitClasses, InvClass, ShiftClasses,
    TestClasses, LoadStoreClasses, UnaryClasses, Logic2Classes, ExtremumClasses, TruthClasses

LEMMA ClassesAre ==
  ASSUME NEW c \in Classes
  PROVE  c \in TAClasses \cup TABClasses \cup TVarSrcClasses \cup BranchIfClasses \cup MoveIfClasses
           \cup LongMulClasses \cup JumpNames \cup LinkNames \cup SysNames \cup {"SYS", "EXIT", "NOP"}
  <1>1. DOMAIN Numbered = 1 .. 72
    BY DEF Numbered
  <1>2. \A k \in 1 .. 72 : Numbered[k] \in TAClasses \cup TABClasses \cup TVarSrcClasses \cup BranchIfClasses
          \cup MoveIfClasses \cup LongMulClasses \cup JumpNames \cup LinkNames \cup SysNames \cup {"SYS", "EXIT", "NOP"}
    BY SMT DEF Numbered, TAClasses, TABClasses, TVarSrcClasses, BranchIfClasses, MoveIfClasses,
      LongMulClasses, SysNames, JumpNames, LinkNames, ArithmeticClasses, LogicClasses, BitClasses,
      InvClass, ShiftClasses, TestClasses, LoadStoreClasses, UnaryClasses, Logic2Classes,
      ExtremumClasses, TruthClasses
  <1> QED BY <1>1, <1>2 DEF Classes

LEMMA SignatureIs ==
  ASSUME NEW c \in Classes
  PROVE  /\ c \in TAClasses       => Signature[c] = TA
         /\ c \in TABClasses      => Signature[c] = TAB
         /\ c \in TVarSrcClasses  => Signature[c] = TVarSrc
         /\ c \in BranchIfClasses => Signature[c] = BranchIf
         /\ c \in MoveIfClasses   => Signature[c] = MoveIf
         /\ c \in LongMulClasses  => Signature[c] = Sig(2, 2)
         /\ c \in JumpNames \cup LinkNames => Signature[c] = JumpSigs[c]
         /\ c \in DOMAIN SysNoResult   => Signature[c] = SysNoResult[c]
         /\ c \in DOMAIN SysOneResult  => Signature[c] = SysOneResult[c]
         /\ c \in DOMAIN SysTwoResults => Signature[c] = SysTwoResults[c]
         /\ c = "SYS"  => Signature[c] = SysSig
         /\ c = "EXIT" => Signature[c] = ExitSig
         /\ c = "NOP"  => Signature[c] = NopSig
  <1>1. /\ DOMAIN SysNoResult \cup DOMAIN SysOneResult \cup DOMAIN SysTwoResults = SysNames
        /\ DOMAIN SysNoResult \cap DOMAIN SysOneResult = {}
        /\ DOMAIN SysNoResult \cap DOMAIN SysTwoResults = {}
        /\ DOMAIN SysOneResult \cap DOMAIN SysTwoResults = {}
    BY TableDomains, SMT DEF SysNames
  <1>2. DOMAIN JumpSigs = JumpNames \cup LinkNames
    BY TableDomains
  <1>3. Signature[c] =
          CASE c \in TAClasses       -> TA
            [] c \in TABClasses      -> TAB
            [] c \in TVarSrcClasses  -> TVarSrc
            [] c \in BranchIfClasses -> BranchIf
            [] c \in MoveIfClasses   -> MoveIf
            [] c \in LongMulClasses  -> Sig(2, 2)
            [] c \in DOMAIN JumpSigs -> JumpSigs[c]
            [] c \in DOMAIN SysNoResult   -> SysNoResult[c]
            [] c \in DOMAIN SysOneResult  -> SysOneResult[c]
            [] c \in DOMAIN SysTwoResults -> SysTwoResults[c]
            [] c = "SYS"  -> SysSig
            [] c = "EXIT" -> ExitSig
            [] c = "NOP"  -> NopSig
    BY DEF Signature
  <1> QED BY <1>1, <1>2, <1>3, Disjoint

LEMMA ArityIs ==
  ASSUME NEW c
  PROVE  /\ c \in SysNames => C!Arity(c) = C!SysArity[c]
         /\ c \in TAClasses \cup LinkNames => C!Arity(c) = <<1, 1>>
         /\ c \in TABClasses      => C!Arity(c) = <<1, 2>>
         /\ c \in LongMulClasses  => C!Arity(c) = <<2, 2>>
         /\ c \in MoveIfClasses   => C!Arity(c) = <<1, 4>>
         /\ c \in BranchIfClasses => C!Arity(c) = <<0, 3>>
         /\ c \in JumpNames \cup {"EXIT"} => C!Arity(c) = <<0, 1>>
         /\ c \in TVarSrcClasses  => C!Arity(c) = <<1, 0>>
         /\ c = "NOP" => C!Arity(c) = <<0, 0>>
  <1>1. C!Arity(c) =
          CASE c \in DOMAIN C!SysArity -> C!SysArity[c]
            [] c \in C!UnaryOps \cup C!LoadOps \cup C!StoreOps \cup C!LinkOps -> <<1, 1>>
            [] c \in C!BinaryOps   -> <<1, 2>>
            [] c \in C!LongOps     -> <<2, 2>>
            [] c \in C!MoveIfOps   -> <<1, 4>>
            [] c \in C!BranchIfOps -> <<0, 3>>
            [] c \in C!JumpOps \cup {"EXIT"} -> <<0, 1>>
            [] c \in C!VarSrcOps   -> <<1, 0>>
            [] c = "NOP"         -> <<0, 0>>
    BY DEF C!Arity
  <1>2. C!Arity(c) =
          CASE c \in SysNames -> C!SysArity[c]
            [] c \in TAClasses \cup LinkNames -> <<1, 1>>
            [] c \in TABClasses      -> <<1, 2>>
            [] c \in LongMulClasses  -> <<2, 2>>
            [] c \in MoveIfClasses   -> <<1, 4>>
            [] c \in BranchIfClasses -> <<0, 3>>
            [] c \in JumpNames \cup {"EXIT"} -> <<0, 1>>
            [] c \in TVarSrcClasses  -> <<1, 0>>
            [] c = "NOP"         -> <<0, 0>>
    BY <1>1, TableDomains, SameGroups, Zenon
  <1> QED BY <1>2, Disjoint

\* The decoder expects the operands that the constructor takes, and their
\* number where the encoder writes it.
Agrees(c) ==
  /\ C!VarTgts(c) <=> Signature[c].more_tgts
  /\ C!VarSrcs(c) <=> Signature[c].more_srcs
  /\ ~Signature[c].more_tgts => Signature[c].tgts = C!Arity(c)[1]
  /\ ~Signature[c].more_srcs => Signature[c].srcs = C!Arity(c)[2]

LEMMA SigFields ==
  ASSUME NEW t, NEW s
  PROVE  /\ Sig(t, s).tgts = t /\ Sig(t, s).srcs = s
         /\ ~Sig(t, s).more_tgts /\ ~Sig(t, s).more_srcs
  BY DEF Sig

\* A class that has a fixed number of operands.
LEMMA FixedAgrees ==
  ASSUME NEW c, NEW t, NEW s, Signature[c] = Sig(t, s), C!Arity(c) = <<t, s>>,
         c \notin TVarSrcClasses, c # "SYS"
  PROVE  Agrees(c)
  <1>1. c \notin C!VarSrcOps
    BY SameGroups
  <1> QED BY <1>1, SigFields DEF Agrees, C!VarTgts, C!VarSrcs

LEMMA SysAgrees ==
  ASSUME NEW c \in SysNames, c \in Classes
  PROVE  Agrees(c)
  <1>1. C!Arity(c) = C!SysArity[c] /\ c \notin TVarSrcClasses /\ c # "SYS"
    BY ArityIs, Disjoint
  <1>2. CASE c \in DOMAIN SysNoResult
    <2>1. Signature[c] = SysNoResult[c] /\ c \in {"SYS00", "SYS01", "SYS02", "SYS03", "SYS04"}
      BY <1>2, SignatureIs, TableDomains
    <2>2. \E n \in 1 .. 5 : SysNoResult[c] = Sig(0, n) /\ C!SysArity[c] = <<0, n>>
      BY <2>1 DEF SysNoResult, C!SysArity
    <2> QED BY <1>1, <2>1, <2>2, FixedAgrees
  <1>3. CASE c \in DOMAIN SysOneResult
    <2>1. Signature[c] = SysOneResult[c] /\ c \in {"SYS10", "SYS11", "SYS12", "SYS13", "SYS14"}
      BY <1>3, SignatureIs, TableDomains
    <2>2. \E n \in 1 .. 5 : SysOneResult[c] = Sig(1, n) /\ C!SysArity[c] = <<1, n>>
      BY <2>1 DEF SysOneResult, C!SysArity
    <2> QED BY <1>1, <2>1, <2>2, FixedAgrees
  <1>4. CASE c \in DOMAIN SysTwoResults
    <2>1. Signature[c] = SysTwoResults[c] /\ c \in {"SYS20", "SYS21", "SYS22", "SYS23", "SYS24"}
      BY <1>4, SignatureIs, TableDomains
    <2>2. \E n \in 1 .. 5 : SysTwoResults[c] = Sig(2, n) /\ C!SysArity[c] = <<2, n>>
      BY <2>1 DEF SysTwoResults, C!SysArity
    <2> QED BY <1>1, <2>1, <2>2, FixedAgrees
  <1> QED BY <1>2, <1>3, <1>4, TableDomains DEF SysNames

LEMMA VarSrcAgrees ==
  ASSUME NEW c \in TVarSrcClasses, c \in Classes
  PROVE  Agrees(c)
  <1>1. C!Arity(c) = <<1, 0>> /\ Signature[c] = TVarSrc /\ c # "SYS" /\ c \in C!VarSrcOps
    BY ArityIs, SignatureIs, Disjoint, SameGroups
  <1>2. TVarSrc.tgts = 1 /\ ~TVarSrc.more_tgts /\ TVarSrc.more_srcs
    BY DEF TVarSrc, Sig
  <1> QED BY <1>1, <1>2 DEF Agrees, C!VarTgts, C!VarSrcs

LEMMA TablesAgree ==
  ASSUME NEW c \in Classes
  PROVE  Agrees(c)
  <1>1. CASE c \in TAClasses
    <2>1. Signature[c] = Sig(1, 1) /\ C!Arity(c) = <<1, 1>> /\ c \notin TVarSrcClasses /\ c # "SYS"
      BY <1>1, SignatureIs, ArityIs, Disjoint DEF TA
    <2> QED BY <2>1, FixedAgrees
  <1>2. CASE c \in TABClasses
    <2>1. Signature[c] = Sig(1, 2) /\ C!Arity(c) = <<1, 2>> /\ c \notin TVarSrcClasses /\ c # "SYS"
      BY <1>2, SignatureIs, ArityIs, Disjoint DEF TAB
    <2> QED BY <2>1, FixedAgrees
  <1>3. CASE c \in BranchIfClasses
    <2>1. Signature[c] = Sig(0, 3) /\ C!Arity(c) = <<0, 3>> /\ c \notin TVarSrcClasses /\ c # "SYS"
      BY <1>3, SignatureIs, ArityIs, Disjoint DEF BranchIf
    <2> QED BY <2>1, FixedAgrees
  <1>4. CASE c \in MoveIfClasses
    <2>1. Signature[c] = Sig(1, 4) /\ C!Arity(c) = <<1, 4>> /\ c \notin TVarSrcClasses /\ c # "SYS"
      BY <1>4, SignatureIs, ArityIs, Disjoint DEF MoveIf
    <2> QED BY <2>1, FixedAgrees
  <1>5. CASE c \in LongMulClasses
    <2>1. Signature[c] = Sig(2, 2) /\ C!Arity(c) = <<2, 2>> /\ c \notin TVarSrcClasses /\ c # "SYS"
      BY <1>5, SignatureIs, ArityIs, Disjoint
    <2> QED BY <2>1, FixedAgrees
  <1>6. CASE c \in JumpNames
    <2>1. Signature[c] = JumpSigs[c] /\ C!Arity(c) = <<0, 1>> /\ c \notin TVarSrcClasses /\ c # "SYS"
      BY <1>6, SignatureIs, ArityIs, Disjoint
    <2>2. JumpSigs[c] = Sig(0, 1)
      BY <1>6 DEF JumpNames, JumpSigs
    <2> QED BY <2>1, <2>2, FixedAgrees
  <1>7. CASE c \in LinkNames
    <2>1. Signature[c] = JumpSigs[c] /\ C!Arity(c) = <<1, 1>> /\ c \notin TVarSrcClasses /\ c # "SYS"
      BY <1>7, SignatureIs, ArityIs, Disjoint
    <2>2. JumpSigs[c] = Sig(1, 1)
      BY <1>7 DEF LinkNames, JumpSigs
    <2> QED BY <2>1, <2>2, FixedAgrees
  <1>8. CASE c = "SYS"
    <2>1. Signature[c] = SysSig
      BY <1>8, SignatureIs
    <2>2. SysSig.more_tgts /\ SysSig.more_srcs
      BY DEF SysSig
    <2> QED BY <1>8, <2>1, <2>2 DEF Agrees, C!VarTgts, C!VarSrcs
  <1>9. CASE c = "EXIT"
    <2>1. Signature[c] = Sig(0, 1) /\ C!Arity(c) = <<0, 1>> /\ c \notin TVarSrcClasses /\ c # "SYS"
      BY <1>9, SignatureIs, ArityIs, Disjoint DEF ExitSig
    <2> QED BY <2>1, FixedAgrees
  <1>10. CASE c = "NOP"
    <2>1. Signature[c] = Sig(0, 0) /\ C!Arity(c) = <<0, 0>> /\ c \notin TVarSrcClasses /\ c # "SYS"
      BY <1>10, SignatureIs, ArityIs, Disjoint DEF NopSig
    <2> QED BY <2>1, FixedAgrees
  <1> QED BY <1>1, <1>2, <1>3, <1>4, <1>5, <1>6, <1>7, <1>8, <1>9, <1>10, ClassesAre, SysAgrees, VarSrcAgrees

\* An opcode stands for its class, and the decoder knows all of them.
LEMMA OpcodeFacts ==
  ASSUME NEW c \in Classes
  PROVE  /\ Opcode[c] \in 0 .. 71 /\ Opcode[c] \in DOMAIN ClassOf
         /\ ClassOf[Opcode[c]] = c
  <1>1. DOMAIN Numbered = 1 .. 72
    BY DEF Numbered
  <1>2. \A d \in Classes : Opcode[d] \in 0 .. 71 /\ Numbered[Opcode[d] + 1] = d
    <2> TAKE d \in Classes
    <2> DEFINE k == CHOOSE i \in DOMAIN Numbered : Numbered[i] = d
    <2>1. \E i \in DOMAIN Numbered : Numbered[i] = d
      BY DEF Classes
    <2>2. k \in DOMAIN Numbered /\ Numbered[k] = d
      BY <2>1
    <2>3. Opcode[d] = k - 1
      BY DEF Opcode
    <2> HIDE DEF k
    <2> QED BY <1>1, <2>2, <2>3
  <1>3. \A d \in Classes : Opcode[d] = Opcode[c] => d = c
    BY <1>2
  <1>4. Opcode[c] \in DOMAIN ClassOf /\ ClassOf[Opcode[c]] = CHOOSE d \in Classes : Opcode[d] = Opcode[c]
    BY DEF ClassOf
  <1> QED BY <1>2, <1>3, <1>4

LEMMA OpcodesKnown ==
  ASSUME NEW c \in Classes
  PROVE  Opcode[c] <= MAX_OPCODE /\ MAX_OPCODE \in 0 .. 71
  <1> DEFINE T == {71 - n : n \in DOMAIN ClassOf}
  <1>0. DOMAIN ClassOf = {Opcode[d] : d \in Classes}
    BY DEF ClassOf
  <1>1. \A n \in DOMAIN ClassOf : n \in 0 .. 71
    BY <1>0, OpcodeFacts
  <1>2. T \subseteq Nat /\ 71 - Opcode[c] \in T
    BY <1>1, OpcodeFacts
  <1> HIDE DEF T
  <1>3. PICK t \in T : \A k \in T : t <= k
    BY <1>2, LeastOf
  <1>4. PICK n \in DOMAIN ClassOf : t = 71 - n
    BY <1>3 DEF T
  <1>5. \A k \in DOMAIN ClassOf : 71 - k \in T
    BY DEF T
  <1>6. \A k \in DOMAIN ClassOf : k <= n
    BY <1>1, <1>3, <1>4, <1>5
  <1>7. MAX_OPCODE \in DOMAIN ClassOf /\ \A k \in DOMAIN ClassOf : k <= MAX_OPCODE
    BY <1>6 DEF MAX_OPCODE
  <1> QED BY <1>1, <1>7, OpcodeFacts

-----------------------------------------------------------------------------
(* Numbers that are sequences of bits.                                     *)

LEMMA PowerNext ==
  ASSUME NEW n \in Nat
  PROVE  2 ^ (n + 1) = 2 * 2 ^ n
  BY W!PowerNext

LEMMA PowerPositive ==
  \A n \in Nat : 2 ^ n \in Nat /\ 2 ^ n >= 1
  BY W!PowerPositive

LEMMA PowerSum ==
  ASSUME NEW k \in Nat
  PROVE  \A n \in Nat : 2 ^ (k + n) = 2 ^ k * 2 ^ n
  BY W!PowerSum

LEMMA DivMod ==
  ASSUME NEW a \in Int, NEW n \in Nat \ {0}
  PROVE  /\ a \div n \in Int /\ a % n \in Int
         /\ a = n * (a \div n) + (a % n)
         /\ 0 <= a % n /\ a % n < n
  BY W!DivMod

LEMMA DivModUnique ==
  ASSUME NEW a \in Int, NEW n \in Nat \ {0}, NEW q \in Int, NEW r \in Int,
         a = n * q + r, 0 <= r, r < n
  PROVE  a \div n = q /\ a % n = r
  BY W!DivModUnique

\* The bit of n that stands for p.
DigitAt(n, p) == (n \div p) % 2

\* One more bit of a number.
LEMMA NextDigit ==
  ASSUME NEW n \in Nat, NEW p \in Nat \ {0}
  PROVE  n % (2 * p) = (n % p) + DigitAt(n, p) * p
  <1> DEFINE a == n \div p
             r == n % p
             h == a \div 2
             d == a % 2
  <1>1. a \in Int /\ r \in Int /\ n = p * a + r /\ 0 <= r /\ r < p
    BY DivMod
  <1>2. h \in Int /\ d \in Int /\ a = 2 * h + d /\ (d = 0 \/ d = 1)
    <2>1. h \in Int /\ d \in Int /\ a = 2 * h + d /\ 0 <= d /\ d < 2
      BY <1>1, DivMod
    <2> HIDE DEF h, d, a
    <2> QED BY <2>1
  <1>3. DigitAt(n, p) = d
    BY DEF DigitAt
  <1> HIDE DEF a, r, h, d
  <1> DEFINE q == 2 * p
  <1>4. q \in Nat \ {0} /\ n \in Int
    OBVIOUS
  <1>5. CASE d = 0
    <2>1. n = q * h + r /\ 0 <= r /\ r < q
      BY <1>1, <1>2, <1>5
    <2> HIDE DEF q
    <2>2. n % q = r
      BY <1>1, <1>2, <1>4, <2>1, DivModUnique, Zenon
    <2> QED BY <1>1, <1>3, <1>5, <2>2 DEF r, q
  <1>6. CASE d = 1
    <2>1. n = q * h + (r + p) /\ 0 <= r + p /\ r + p < q /\ r + p \in Int
      BY <1>1, <1>2, <1>6
    <2> HIDE DEF q
    <2>2. n % q = r + p
      BY <1>2, <1>4, <2>1, DivModUnique, Zenon
    <2> QED BY <1>1, <1>3, <1>6, <2>2 DEF r, q
  <1> QED BY <1>2, <1>5, <1>6

HasDigits(b, n) == \A k \in 1 .. 29 : BitOf(b, k) = DigitAt(n, 2 ^ (k - 1))

\* What NumberOf() adds up.
Weighed(b) == [k \in 1 .. 29 |-> Low(b, 29)[k] * 2 ^ (k - 1)]

LEMMA WeighedFacts ==
  ASSUME NEW b \in Seq(Bit)
  PROVE  /\ Len(Weighed(b)) = 29
         /\ \A k \in 0 .. 28 : Weighed(b)[k + 1] = BitOf(b, k + 1) * 2 ^ k
         /\ \A k \in 1 .. 29 : Weighed(b)[k] \in Int
  <1>1. ASSUME NEW k \in 0 .. 28
        PROVE  Weighed(b)[k + 1] = BitOf(b, k + 1) * 2 ^ k /\ Weighed(b)[k + 1] \in Int
    <2>1. k + 1 \in 1 .. 29 /\ (k + 1) - 1 = k /\ 29 \in Nat
      OBVIOUS
    <2>2. Low(b, 29)[k + 1] = BitOf(b, k + 1) /\ Low(b, 29)[k + 1] \in Bit
      BY <2>1, BitOfLow, LowFacts
    <2>3. 2 ^ k \in Nat
      BY PowerPositive
    <2>4. Weighed(b)[k + 1] = Low(b, 29)[k + 1] * 2 ^ k
      BY <2>1 DEF Weighed
    <2>5. Low(b, 29)[k + 1] \in Nat
      BY <2>2 DEF Bit
    <2> QED BY <2>2, <2>3, <2>4, <2>5
  <1>2. \A k \in 1 .. 29 : Weighed(b)[k] \in Int
    <2> TAKE k \in 1 .. 29
    <2>1. k - 1 \in 0 .. 28 /\ (k - 1) + 1 = k
      OBVIOUS
    <2> QED BY <1>1, <2>1
  <1>3. Weighed(b) \in [1 .. 29 -> Int]
    <2>1. Weighed(b) = [k \in 1 .. 29 |-> Weighed(b)[k]]
      BY DEF Weighed
    <2> QED BY <1>2, <2>1
  <1>4. Len(Weighed(b)) = 29
    BY <1>3
  <1> QED BY <1>1, <1>2, <1>4

LEMMA NumberIs ==
  ASSUME NEW b \in Seq(Bit), NEW n \in 0 .. Huge - 1, HasDigits(b, n), BitLength(b) <= 29
  PROVE  NumberOf(b) = n
  <1> DEFINE f == [k \in 0 .. 29 |-> n % 2 ^ k]
             s == Weighed(b)
  <1>1. n \in Nat /\ n < Huge /\ Huge = 2 ^ 29 /\ Huge \in Nat \ {0}
    <2>1. Huge = 2 ^ 29 /\ 2 ^ 29 \in Nat /\ 2 ^ 29 >= 1
      BY PowerPositive DEF Huge
    <2> QED BY <2>1
  <1>2. NumberOf(b) = Total(s)
    BY DEF NumberOf, Weighed
  <1>3. Len(s) = 29 /\ \A k \in 0 .. 28 : s[k + 1] = BitOf(b, k + 1) * 2 ^ k
    BY WeighedFacts
  <1> HIDE DEF s
  <1>4. \A k \in 0 .. 29 : n % 2 ^ k \in Int
    <2> TAKE k \in 0 .. 29
    <2>1. 2 ^ k \in Nat \ {0}
      BY PowerPositive
    <2> QED BY <1>1, <2>1, DivMod
  <1>5. f[0] = 0
    <2>1. 2 ^ 0 = 1 /\ n % 1 = 0
      BY <1>1
    <2> QED BY <2>1
  <1>6. ASSUME NEW k \in 0 .. 28 PROVE f[k + 1] = f[k] + s[k + 1]
    <2>1. k + 1 \in 1 .. 29 /\ k + 1 \in 0 .. 29 /\ k \in 0 .. 29 /\ (k + 1) - 1 = k /\ k \in Nat
      OBVIOUS
    <2>2. BitOf(b, k + 1) = DigitAt(n, 2 ^ k)
      BY <2>1 DEF HasDigits
    <2>3. 2 ^ k \in Nat \ {0} /\ 2 ^ (k + 1) = 2 * 2 ^ k
      BY <2>1, PowerNext, PowerPositive
    <2>4. n % (2 * 2 ^ k) = (n % 2 ^ k) + DigitAt(n, 2 ^ k) * 2 ^ k
      BY <1>1, <2>3, NextDigit
    <2>5. s[k + 1] = DigitAt(n, 2 ^ k) * 2 ^ k
      BY <1>3, <2>2
    <2>6. f[k + 1] = n % 2 ^ (k + 1) /\ f[k] = n % 2 ^ k
      BY <2>1
    <2> QED BY <2>3, <2>4, <2>5, <2>6
  <1>7. Adds(f, s, 29)
    <2>1. f \in [0 .. 29 -> Int]
      BY <1>4
    <2>2. 29 - 1 = 28
      OBVIOUS
    <2> HIDE DEF f
    <2> QED BY <1>5, <1>6, <2>1, <2>2 DEF Adds
  <1>8. f[29] = n % Huge
    BY <1>1
  <1> HIDE DEF f
  <1>9. Total(s) = f[29]
    <2>1. Len(s) \in Nat /\ Adds(f, s, Len(s))
      BY <1>3, <1>7
    <2> QED BY <1>3, <2>1, TotalIs
  <1>10. n % Huge = n
    <2>1. n = Huge * 0 + n
      BY <1>1
    <2> QED BY <1>1, <2>1, DivModUnique
  <1> QED BY <1>2, <1>8, <1>9, <1>10

\* The bits of a small number are those of the number.
LEMMA BitsFacts ==
  ASSUME NEW n \in Nat, NEW w \in Nat
  PROVE  /\ Bits(n, w) \in Seq(Bit) /\ Len(Bits(n, w)) = w
         /\ \A k \in 1 .. w : Bits(n, w)[k] = DigitAt(n, 2 ^ (k - 1))
  <1>1. \A k \in 1 .. w : (n \div 2 ^ (k - 1)) % 2 \in Bit
    <2> TAKE k \in 1 .. w
    <2>1. k - 1 \in Nat
      OBVIOUS
    <2>2. 2 ^ (k - 1) \in Nat \ {0}
      BY <2>1, PowerPositive
    <2>3. n \div 2 ^ (k - 1) \in Int
      BY <2>2, DivMod
    <2> QED BY <2>3 DEF Bit
  <1>2. Bits(n, w) \in [1 .. w -> Bit]
    BY <1>1 DEF Bits
  <1>3. \A k \in 1 .. w : Bits(n, w)[k] = DigitAt(n, 2 ^ (k - 1))
    BY DEF Bits, DigitAt
  <1> QED BY <1>2, <1>3, TupleIsSeq

LEMMA SameAsBits ==
  ASSUME NEW n \in Nat, NEW w \in Nat, NEW b \in Seq(Bit), SameBits(b, Bits(n, w))
  PROVE  \A k \in Places : BitOf(b, k) = IF k <= w THEN DigitAt(n, 2 ^ (k - 1)) ELSE 0
  <1> TAKE k \in Places
  <1>1. BitOf(b, k) = BitOf(Bits(n, w), k)
    BY DEF SameBits
  <1>2. BitOf(Bits(n, w), k) = IF k <= w THEN Bits(n, w)[k] ELSE 0
    BY BitsFacts DEF BitOf
  <1>3. k <= w => k \in 1 .. w
    BY DEF Places
  <1> QED BY <1>1, <1>2, <1>3, BitsFacts

LEMMA CountReads ==
  ASSUME NEW n \in 0 .. Huge - 1, NEW b \in Seq(Bit), SameBits(b, Bits(n, 29))
  PROVE  NumberOf(b) = n
  <1>1. n \in Nat /\ 29 \in Nat
    <2>1. Huge \in Nat
      BY PowerPositive DEF Huge
    <2> QED BY <2>1
  <1>2. \A k \in 1 .. 29 : BitOf(b, k) = DigitAt(n, 2 ^ (k - 1))
    BY <1>1, SameAsBits DEF Places
  <1>3. \A k \in Places : k > 29 => BitOf(b, k) = 0
    BY <1>1, SameAsBits DEF Places
  <1>4. BitLength(b) <= 29
    BY <1>1, <1>3, BitOfLength
  <1> QED BY <1>2, <1>4, NumberIs DEF HasDigits

\* Seven bits are enough for an opcode.
LEMMA OpcodeReads ==
  ASSUME NEW n \in 0 .. 71, NEW b \in Seq(Bit), SameBits(b, Bits(n, 7))
  PROVE  NumberOf(b) = n
  <1>1. n \in Nat /\ 7 \in Nat /\ 29 \in Nat /\ 22 \in Nat
    OBVIOUS
  <1>2. 2 ^ 7 = 128
    BY PowerNext
  <1>3. \A j \in Nat : 2 ^ (7 + j) >= 128
    <2> TAKE j \in Nat
    <2>1. 2 ^ (7 + j) = 2 ^ 7 * 2 ^ j /\ 2 ^ j \in Nat /\ 2 ^ j >= 1
      BY <1>1, PowerSum, PowerPositive
    <2> QED BY <1>2, <2>1
  <1>4. Huge > 71
    <2>1. 7 + 22 = 29
      OBVIOUS
    <2>2. 2 ^ 29 >= 128
      BY <1>1, <1>3, <2>1
    <2> QED BY <2>2, PowerPositive DEF Huge
  <1>5. \A k \in 1 .. 29 : BitOf(b, k) = DigitAt(n, 2 ^ (k - 1))
    <2> TAKE k \in 1 .. 29
    <2>1. CASE k <= 7
      BY <1>1, <2>1, SameAsBits DEF Places
    <2>2. CASE k > 7
      <3>1. BitOf(b, k) = 0
        BY <1>1, <2>2, SameAsBits DEF Places
      <3>2. k - 8 \in Nat /\ 7 + (k - 8) = k - 1 /\ k - 1 \in Nat
        BY <2>2
      <3>3. 2 ^ (k - 1) >= 128 /\ 2 ^ (k - 1) \in Nat
        BY <1>3, <3>2, PowerPositive
      <3>4. n = 2 ^ (k - 1) * 0 + n /\ 2 ^ (k - 1) \in Nat \ {0} /\ n < 2 ^ (k - 1)
        BY <3>3
      <3> DEFINE p == 2 ^ (k - 1)
      <3> HIDE DEF p
      <3>5. p \in Nat \ {0} /\ n = p * 0 + n /\ n < p
        BY <3>4 DEF p
      <3>6. n \in Int /\ 0 \in Int /\ 0 <= n
        OBVIOUS
      <3>7. n \div p = 0
        BY <3>5, <3>6, DivModUnique
      <3>8. DigitAt(n, p) = 0
        BY <3>7 DEF DigitAt
      <3> QED BY <3>1, <3>8 DEF p
    <2> QED BY <2>1, <2>2
  <1>6. \A k \in Places : k > 29 => BitOf(b, k) = 0
    BY <1>1, SameAsBits DEF Places
  <1>7. BitLength(b) <= 29
    BY <1>1, <1>6, BitOfLength
  <1>8. n \in 0 .. Huge - 1
    <2>1. Huge \in Nat
      BY PowerPositive DEF Huge
    <2> QED BY <1>4, <2>1
  <1> QED BY <1>5, <1>7, <1>8, NumberIs DEF HasDigits

-----------------------------------------------------------------------------
(* Reading the parts of an encoding one after the other.                   *)

\* A read that begins where a varint begins reads it, and ends where it ends.
LEMMA ReadsVarint ==
  ASSUME NEW P \in Seq(Seq(Byte)), NEW q \in 0 .. Len(P) - 1, NEW b \in Seq(Bit), BitLength(b) <= 35,
         P[q + 1] = EncodeVarint(b), code = FlattenSeq(P), pos = Len(Upto(P, q))
  PROVE  /\ GoodVarint
         /\ VarintEnd = Len(Upto(P, q + 1))
         /\ Payload = PayloadOf(EncodeVarint(b))
  <1> DEFINE e == EncodeVarint(b)
             n == NBytes(b)
  <1>1. e \in Seq(Byte) /\ Len(e) = n /\ n \in 1 .. 5 /\ VarintBytes(e[1]) = n /\ e[1][n] = 1
    BY EncodeVarintFacts, PayloadIs
  <1>2. P[q + 1] = e /\ q \in 0 .. Len(P) /\ pos \in Nat
    BY UptoLen
  <1> HIDE DEF e, n
  <1>3. \A k \in 1 .. n : pos + k \in 1 .. Len(code) /\ code[pos + k] = e[k]
    BY <1>1, <1>2, FlattenElement
  <1>4. code[pos + 1] = e[1] /\ pos + 1 \in 1 .. Len(code) /\ pos + n \in 1 .. Len(code)
    BY <1>1, <1>3
  <1>5. VarintEnd = pos + n /\ VarintBytes(code[pos + 1]) = n
    BY <1>1, <1>4 DEF VarintEnd
  <1>6. GoodVarint
    <2>1. pos < Len(code) /\ pos + n <= Len(code)
      BY <1>2, <1>4
    <2> QED BY <1>1, <1>4, <1>5, <2>1 DEF GoodVarint
  <1>7. VarintEnd = Len(Upto(P, q + 1))
    BY <1>1, <1>2, <1>5, UptoLen
  <1>8. SubSeq(code, pos + 2, VarintEnd) = SubSeq(e, 2, n)
    <2>1. \A i \in pos + 2 .. pos + n : code[i] \in Byte
      <3> TAKE i \in pos + 2 .. pos + n
      <3>1. i - pos \in 1 .. n /\ pos + (i - pos) = i
        BY <1>1, <1>2
      <3>2. code[i] = e[i - pos]
        BY <1>3, <3>1
      <3> QED BY <1>1, <3>1, <3>2
    <2>2. \A i \in 2 .. n : e[i] \in Byte
      BY <1>1
    <2>3. pos + 2 \in Int /\ pos + n \in Int /\ 2 \in Int /\ n \in Int /\ (pos + n) - (pos + 2) + 1 = n - 2 + 1
          /\ (pos + 2 <= pos + n <=> 2 <= n)
      BY <1>1, <1>2
    <2> DEFINE s == SubSeq(code, pos + 2, pos + n)
               t == SubSeq(e, 2, n)
    <2>4. s \in Seq(Byte) /\ Len(s) = (IF 2 <= n THEN n - 2 + 1 ELSE 0)
          /\ \A i \in 1 .. n - 2 + 1 : s[i] = code[(pos + 2) + i - 1]
      BY <2>1, <2>3, SubSeqProperties
    <2>5. t \in Seq(Byte) /\ Len(t) = (IF 2 <= n THEN n - 2 + 1 ELSE 0)
          /\ \A i \in 1 .. n - 2 + 1 : t[i] = e[2 + i - 1]
      BY <2>2, <2>3, SubSeqProperties
    <2> HIDE DEF s, t
    <2>6. \A i \in 1 .. Len(s) : s[i] = t[i]
      <3> TAKE i \in 1 .. Len(s)
      <3>1. i \in 1 .. n - 2 + 1 /\ i + 1 \in 1 .. n /\ (pos + 2) + i - 1 = pos + (i + 1) /\ 2 + i - 1 = i + 1
        BY <1>1, <1>2, <2>4
      <3> QED BY <1>3, <2>4, <2>5, <3>1
    <2>7. s = t
      BY <2>4, <2>5, <2>6, SeqEqual
    <2> QED BY <1>5, <2>7 DEF s, t
  <1> QED BY <1>1, <1>4, <1>5, <1>6, <1>7, <1>8 DEF Payload, PayloadOf, e

LEMMA ConcatAssoc ==
  ASSUME NEW X, NEW x \in Seq(X), NEW y \in Seq(X), NEW z \in Seq(X)
  PROVE  (x \o y) \o z = x \o (y \o z)
  OBVIOUS

\* What the first sequence and the others make.
LEMMA UptoTail ==
  ASSUME NEW X, NEW s \in Seq(Seq(X)), s # <<>>
  PROVE  /\ Tail(s) \in Seq(Seq(X)) /\ Len(Tail(s)) = Len(s) - 1
         /\ \A j \in 0 .. Len(s) - 1 : Upto(s, j + 1) = s[1] \o Upto(Tail(s), j)
  <1> DEFINE t == Tail(s)
  <1>1. /\ t \in Seq(Seq(X)) /\ Len(t) = Len(s) - 1
        /\ \A i \in 1 .. Len(t) : t[i] = s[i + 1]
        /\ Len(s) \in Nat \ {0}
    BY HeadTailProperties, EmptySeq
  <1> HIDE DEF t
  <1>2. s[1] \in Seq(X)
    BY <1>1
  <1> DEFINE Good == {j \in Nat : j <= Len(s) - 1 => Upto(s, j + 1) = s[1] \o Upto(t, j)}
  <1>3. 0 \in Good
    <2>0. 0 \in 0 .. Len(s) - 1 /\ 0 + 1 = 1
      BY <1>1
    <2>1. Upto(s, 1) = <<>> \o s[1]
      BY <2>0, UptoFacts
    <2>2. Upto(t, 0) = <<>>
      BY <1>1, UptoFacts
    <2>3. <<>> \o s[1] = s[1] /\ s[1] \o <<>> = s[1]
      BY <1>2, ConcatEmptySeq
    <2> QED BY <2>1, <2>2, <2>3
  <1>4. ASSUME NEW j \in Nat, j \in Good PROVE j + 1 \in Good
    <2>0. j + 1 \in Nat
      OBVIOUS
    <2> SUFFICES ASSUME j + 1 <= Len(s) - 1 PROVE Upto(s, (j + 1) + 1) = s[1] \o Upto(t, j + 1)
      BY <2>0
    <2>1. Upto(s, j + 1) = s[1] \o Upto(t, j)
      BY <1>1, <1>4
    <2> HIDE DEF Good
    <2>2. /\ j + 1 \in 0 .. Len(s) - 1 /\ j \in 0 .. Len(t) - 1 /\ j \in 0 .. Len(t)
          /\ j + 1 \in 1 .. Len(t) /\ (j + 1) + 1 \in DOMAIN s
      BY <1>1
    <2>3. Upto(s, (j + 1) + 1) = Upto(s, j + 1) \o s[(j + 1) + 1]
      BY <2>2, UptoFacts
    <2>4. Upto(t, j + 1) = Upto(t, j) \o t[j + 1] /\ Upto(t, j) \in Seq(X)
      BY <1>1, <2>2, UptoFacts
    <2>5. t[j + 1] = s[(j + 1) + 1] /\ s[(j + 1) + 1] \in Seq(X)
      BY <1>1, <2>2
    <2>6. (s[1] \o Upto(t, j)) \o t[j + 1] = s[1] \o (Upto(t, j) \o t[j + 1])
      <3>1. t[j + 1] \in Seq(X)
        BY <2>5
      <3> DEFINE x == s[1]
                 y == Upto(t, j)
                 z == t[j + 1]
      <3>2. x \in Seq(X) /\ y \in Seq(X) /\ z \in Seq(X)
        BY <1>2, <2>4, <3>1
      <3> HIDE DEF x, y, z
      <3>3. (x \o y) \o z = x \o (y \o z)
        BY <3>2, ConcatAssoc
      <3> QED BY <3>3 DEF x, y, z
    <2> QED BY <2>1, <2>3, <2>4, <2>5, <2>6
  <1>5. \A j \in Nat : j \in Good
    <2> HIDE DEF Good
    <2> QED BY <1>3, <1>4, SetInduction
  <1> QED BY <1>1, <1>5 DEF t

LEMMA FlattenTail ==
  ASSUME NEW X, NEW s \in Seq(Seq(X)), s # <<>>
  PROVE  FlattenSeq(s) = s[1] \o FlattenSeq(Tail(s))
  <1>1. Len(s) \in Nat \ {0} /\ Tail(s) \in Seq(Seq(X)) /\ Len(Tail(s)) = Len(s) - 1
    BY UptoTail, EmptySeq
  <1>2. Len(s) - 1 \in 0 .. Len(s) - 1 /\ (Len(s) - 1) + 1 = Len(s)
    BY <1>1
  <1>3. Upto(s, Len(s)) = s[1] \o Upto(Tail(s), Len(s) - 1)
    BY <1>2, UptoTail
  <1>4. Upto(s, Len(s)) = FlattenSeq(s) /\ Upto(Tail(s), Len(s) - 1) = FlattenSeq(Tail(s))
    BY <1>1, UptoFacts
  <1> QED BY <1>3, <1>4

-----------------------------------------------------------------------------
(* Operands, and how far the decoder has come with them.                   *)

GoodOperand(o) ==
  /\ o \in Seq(Cell) /\ o # <<>>
  /\ \A k \in 1 .. Len(o) : EncodableCell(o[k]) /\ (o[k].mode = "ind" <=> k < Len(o))
GoodOperands(os) == os \in Seq(Seq(Cell)) /\ \A j \in 1 .. Len(os) : GoodOperand(os[j])

\* The cells that the decoder makes.
WordBits == {b \in Seq(Bit) : Len(b) = 32}
WordCell == [mode : {"imm", "mem", "ind"}, v : WordBits]

LEMMA MeaningCellType ==
  ASSUME NEW c, EncodableCell(c)
  PROVE  MeaningCell(c) \in WordCell
  <1>1. 32 \in Nat
    OBVIOUS
  <1>2. CASE c.mode \in {"lit", "imm"}
    <2>1. c.v \in Immediate
      BY <1>2, ImmediateCell
    <2>2. c.v.mag \in Seq(Bit)
      BY <2>1 DEF Immediate
    <2> DEFINE w == Low(c.v.mag, 32)
    <2>3. w \in Seq(Bit) /\ Len(w) = 32
      BY <1>1, <2>2, LowFacts
    <2>4. Word(c.v) = IF c.v.neg THEN Complement(w) ELSE w
      BY DEF Word
    <2> HIDE DEF w
    <2>5. Word(c.v) \in WordBits
      BY <2>3, <2>4, ComplementFacts DEF WordBits
    <2> QED BY <1>2, <2>5 DEF MeaningCell, WordCell
  <1>3. CASE c.mode \in {"mem", "ind"}
    <2>1. c.v \in Seq(Bit)
      BY <1>3, AddressCell
    <2>2. Low(c.v, 32) \in WordBits
      BY <1>1, <2>1, LowFacts DEF WordBits
    <2> QED BY <1>3, <2>2 DEF MeaningCell, WordCell
  <1> QED BY <1>2, <1>3 DEF EncodableCell

LEMMA MeaningFacts ==
  ASSUME NEW o, GoodOperand(o)
  PROVE  /\ Meaning(o) \in Seq(WordCell) /\ Len(Meaning(o)) = Len(o) /\ Len(o) \in Nat \ {0}
         /\ \A k \in 1 .. Len(o) : /\ Meaning(o)[k] = MeaningCell(o[k])
                                   /\ Meaning(o)[k].mode = "ind" <=> k < Len(o)
  <1>1. o \in Seq(Cell) /\ DOMAIN o = 1 .. Len(o) /\ Len(o) \in Nat \ {0}
    BY EmptySeq DEF GoodOperand
  <1>2. Meaning(o) = [k \in 1 .. Len(o) |-> MeaningCell(o[k])]
    BY <1>1, Zenon DEF Meaning, MeaningCell
  <1>3. \A k \in 1 .. Len(o) : EncodableCell(o[k]) /\ MeaningCell(o[k]) \in WordCell
    BY MeaningCellType DEF GoodOperand
  <1>4. Meaning(o) \in [1 .. Len(o) -> WordCell]
    BY <1>2, <1>3
  <1>5. Meaning(o) \in Seq(WordCell) /\ Len(Meaning(o)) = Len(o)
    BY <1>1, <1>4, TupleIsSeq
  <1>6. ASSUME NEW k \in 1 .. Len(o)
        PROVE  Meaning(o)[k] = MeaningCell(o[k]) /\ (Meaning(o)[k].mode = "ind" <=> k < Len(o))
    <2>1. Meaning(o)[k] = MeaningCell(o[k])
      BY <1>2
    <2>2. o[k].mode = "ind" <=> k < Len(o)
      BY DEF GoodOperand
    <2>3. MeaningCell(o[k]).mode = IF o[k].mode \in {"lit", "imm"} THEN "imm" ELSE o[k].mode
      BY MeaningFields
    <2> QED BY <2>1, <2>2, <2>3
  <1> QED BY <1>1, <1>5, <1>6

LEMMA MeaningsFacts ==
  ASSUME NEW os, GoodOperands(os)
  PROVE  /\ Meanings(os) \in Seq(Seq(WordCell)) /\ Len(Meanings(os)) = Len(os)
         /\ \A j \in 1 .. Len(os) : Meanings(os)[j] = Meaning(os[j])
  <1>1. os \in Seq(Seq(Cell)) /\ DOMAIN os = 1 .. Len(os) /\ Len(os) \in Nat
    BY DEF GoodOperands
  <1>2. Meanings(os) = [j \in 1 .. Len(os) |-> Meaning(os[j])]
    BY <1>1 DEF Meanings
  <1>3. \A j \in 1 .. Len(os) : Meaning(os[j]) \in Seq(WordCell)
    BY MeaningFacts DEF GoodOperands
  <1>4. Meanings(os) \in [1 .. Len(os) -> Seq(WordCell)]
    BY <1>2, <1>3
  <1> QED BY <1>1, <1>2, <1>4, TupleIsSeq

\* The varints of an operand, and of several.
LEMMA OperandPartsFacts ==
  ASSUME NEW o, GoodOperand(o), NEW as_src \in BOOLEAN
  PROVE  /\ OperandParts(o, as_src) \in Seq(Seq(Byte)) /\ Len(OperandParts(o, as_src)) = Len(o)
         /\ \A k \in 1 .. Len(o) : OperandParts(o, as_src)[k] = EncodeVarint(CellBits(o[k], as_src \/ k > 1))
  <1>1. o \in Seq(Cell) /\ DOMAIN o = 1 .. Len(o) /\ Len(o) \in Nat
    BY DEF GoodOperand
  <1>2. OperandParts(o, as_src) = [k \in 1 .. Len(o) |-> EncodeVarint(CellBits(o[k], as_src \/ k > 1))]
    BY <1>1 DEF OperandParts
  <1>3. ASSUME NEW k \in 1 .. Len(o)
        PROVE  EncodeVarint(CellBits(o[k], as_src \/ k > 1)) \in Seq(Byte)
    <2>1. EncodableCell(o[k]) /\ (as_src \/ k > 1) \in BOOLEAN
      BY DEF GoodOperand
    <2> DEFINE t == as_src \/ k > 1
    <2> HIDE DEF t
    <2>2. CellBits(o[k], t) \in Seq(Bit)
      BY <2>1, CellBitsFacts DEF t
    <2>3. EncodeVarint(CellBits(o[k], t)) \in Seq(Byte)
      BY <2>2, EncodeVarintFacts
    <2> QED BY <2>3 DEF t
  <1>4. OperandParts(o, as_src) \in [1 .. Len(o) -> Seq(Byte)]
    BY <1>2, <1>3
  <1> QED BY <1>1, <1>2, <1>4, TupleIsSeq

PartsOf(os, as_src) == [j \in DOMAIN os |-> OperandParts(os[j], as_src)]

LEMMA AllPartsFacts ==
  ASSUME NEW os, GoodOperands(os), NEW as_src \in BOOLEAN
  PROVE  /\ PartsOf(os, as_src) \in Seq(Seq(Seq(Byte))) /\ Len(PartsOf(os, as_src)) = Len(os)
         /\ \A j \in 1 .. Len(os) : PartsOf(os, as_src)[j] = OperandParts(os[j], as_src)
         /\ AllParts(os, as_src) = FlattenSeq(PartsOf(os, as_src))
         /\ AllParts(os, as_src) \in Seq(Seq(Byte))
         /\ Len(AllParts(os, as_src)) = Len(FlattenSeq(os))
         /\ \A j \in 0 .. Len(os) : Len(Upto(PartsOf(os, as_src), j)) = Len(Upto(os, j))
  <1> DEFINE P == PartsOf(os, as_src)
  <1>1. os \in Seq(Seq(Cell)) /\ DOMAIN os = 1 .. Len(os) /\ Len(os) \in Nat
    BY DEF GoodOperands
  <1>2. P = [j \in 1 .. Len(os) |-> OperandParts(os[j], as_src)]
    BY <1>1 DEF PartsOf
  <1>3. \A j \in 1 .. Len(os) :
          /\ OperandParts(os[j], as_src) \in Seq(Seq(Byte))
          /\ Len(OperandParts(os[j], as_src)) = Len(os[j])
    BY OperandPartsFacts DEF GoodOperands
  <1>4. P \in [1 .. Len(os) -> Seq(Seq(Byte))]
    BY <1>2, <1>3
  <1>5. P \in Seq(Seq(Seq(Byte))) /\ Len(P) = Len(os)
    BY <1>1, <1>4, TupleIsSeq
  <1>6. AllParts(os, as_src) = FlattenSeq(P)
    BY DEF AllParts, PartsOf
  <1>7. \A j \in 1 .. Len(os) : P[j] = OperandParts(os[j], as_src) /\ Len(P[j]) = Len(os[j])
    BY <1>2, <1>3
  <1> HIDE DEF P
  <1>8. \A j \in 0 .. Len(os) : Len(Upto(P, j)) = Len(Upto(os, j))
    BY <1>1, <1>5, <1>7, UptoSameLen
  <1>9. FlattenSeq(P) = Upto(P, Len(P)) /\ FlattenSeq(os) = Upto(os, Len(os)) /\ Upto(P, Len(P)) \in Seq(Seq(Byte))
    BY <1>1, <1>5, UptoFacts
  <1>10. FlattenSeq(P) \in Seq(Seq(Byte)) /\ Len(FlattenSeq(P)) = Len(FlattenSeq(os))
    BY <1>1, <1>5, <1>8, <1>9
  <1> QED BY <1>5, <1>6, <1>7, <1>8, <1>10 DEF P

\* The varint at a place, and the cell it stands for.
LEMMA PartAt ==
  ASSUME NEW os, GoodOperands(os), NEW as_src \in BOOLEAN,
         NEW i \in 0 .. Len(os) - 1, NEW k \in 1 .. Len(os[i + 1])
  PROVE  /\ Len(Upto(os, i)) + k \in 1 .. Len(FlattenSeq(os))
         /\ FlattenSeq(os)[Len(Upto(os, i)) + k] = os[i + 1][k]
         /\ AllParts(os, as_src)[Len(Upto(os, i)) + k] = EncodeVarint(CellBits(os[i + 1][k], as_src \/ k > 1))
         /\ EncodableCell(os[i + 1][k])
  <1> DEFINE P == PartsOf(os, as_src)
             Q == OperandParts(os[i + 1], as_src)
  <1>1. os \in Seq(Seq(Cell)) /\ i + 1 \in 1 .. Len(os) /\ i \in 0 .. Len(os)
    BY DEF GoodOperands
  <1>2. GoodOperand(os[i + 1]) /\ EncodableCell(os[i + 1][k])
    BY <1>1 DEF GoodOperands, GoodOperand
  <1>3. Len(Upto(os, i)) + k \in 1 .. Len(FlattenSeq(os)) /\ FlattenSeq(os)[Len(Upto(os, i)) + k] = os[i + 1][k]
    BY <1>1, FlattenElement
  <1>4. P \in Seq(Seq(Seq(Byte))) /\ Len(P) = Len(os) /\ P[i + 1] = Q
        /\ AllParts(os, as_src) = FlattenSeq(P) /\ Len(Upto(P, i)) = Len(Upto(os, i))
    BY <1>1, AllPartsFacts
  <1>5. Len(Q) = Len(os[i + 1]) /\ Q[k] = EncodeVarint(CellBits(os[i + 1][k], as_src \/ k > 1))
    BY <1>2, OperandPartsFacts
  <1> HIDE DEF P, Q
  <1>6. i \in 0 .. Len(P) - 1 /\ k \in 1 .. Len(P[i + 1])
    BY <1>4, <1>5
  <1>7. FlattenSeq(P)[Len(Upto(P, i)) + k] = P[i + 1][k]
    BY <1>4, <1>6, FlattenElement
  <1> QED BY <1>2, <1>3, <1>4, <1>5, <1>7

\* ds is what the decoder has of the operands os after their first q varints.
At(os, ds, q) ==
  /\ ds \in Seq(Seq(WordCell)) /\ Len(ds) <= Len(os)
  /\ \A i \in 1 .. Len(ds) - 1 : ds[i] = Meaning(os[i])
  /\ ds = <<>> => q = 0
  /\ ds # <<>> =>
       /\ Len(ds[Len(ds)]) \in 1 .. Len(os[Len(ds)])
       /\ ds[Len(ds)] = SubSeq(Meaning(os[Len(ds)]), 1, Len(ds[Len(ds)]))
       /\ q = Len(Upto(os, Len(ds) - 1)) + Len(ds[Len(ds)])

LEMMA AtStart ==
  ASSUME NEW os, GoodOperands(os)
  PROVE  At(os, <<>>, 0)
  <1>1. Len(os) \in Nat
    BY DEF GoodOperands
  <1> QED BY <1>1 DEF At

LEMMA WholeSubSeq ==
  ASSUME NEW X, NEW s \in Seq(X)
  PROVE  SubSeq(s, 1, Len(s)) = s
  OBVIOUS

LEMMA AtFirst ==
  ASSUME NEW os, GoodOperands(os), os # <<>>
  PROVE  At(os, <<Meaning(os[1])>>, Len(os[1]))
  <1>1. os \in Seq(Seq(Cell)) /\ Len(os) \in Nat \ {0} /\ 1 \in 1 .. Len(os)
    BY EmptySeq DEF GoodOperands
  <1>2. GoodOperand(os[1])
    BY <1>1 DEF GoodOperands
  <1> DEFINE M == Meaning(os[1])
             ds == <<M>>
  <1>3. M \in Seq(WordCell) /\ Len(M) = Len(os[1]) /\ Len(M) \in 1 .. Len(os[1])
    BY <1>2, MeaningFacts
  <1> HIDE DEF M
  <1>4. ds \in Seq(Seq(WordCell)) /\ Len(ds) = 1 /\ ds[1] = M /\ ds # <<>>
    BY <1>3
  <1>5. Len(Upto(os, 0)) = 0
    BY <1>1, UptoLen
  <1>6. M = SubSeq(M, 1, Len(M))
    BY <1>3, WholeSubSeq
  <1> HIDE DEF ds
  <1>7. Len(ds[Len(ds)]) = Len(M) /\ ds[Len(ds)] = M
    BY <1>4
  <1>8. Len(os[1]) = Len(Upto(os, Len(ds) - 1)) + Len(ds[Len(ds)])
    BY <1>3, <1>4, <1>5, <1>7
  <1>9. At(os, ds, Len(os[1]))
    BY <1>1, <1>3, <1>4, <1>6, <1>7, <1>8 DEF At, M
  <1> QED BY <1>9 DEF ds, M

\* What At says of the operand that is being read.
LastFacts(os, ds, q) ==
  /\ Len(ds) \in 1 .. Len(os) /\ Len(ds) - 1 \in 0 .. Len(os) - 1
  /\ GoodOperand(os[Len(ds)])
  /\ ds[Len(ds)] \in Seq(WordCell)
  /\ Len(ds[Len(ds)]) \in 1 .. Len(os[Len(ds)])
  /\ \A k \in 1 .. Len(ds[Len(ds)]) : ds[Len(ds)][k] = Meaning(os[Len(ds)])[k]
  /\ AllComplete(ds) <=> Len(ds[Len(ds)]) = Len(os[Len(ds)])
  /\ q = Len(Upto(os, Len(ds) - 1)) + Len(ds[Len(ds)])
  /\ Len(Upto(os, Len(ds) - 1)) \in Nat
  /\ Len(Upto(os, Len(ds))) = Len(Upto(os, Len(ds) - 1)) + Len(os[Len(ds)])

LEMMA AtLast ==
  ASSUME NEW os, GoodOperands(os), NEW ds, NEW q, At(os, ds, q), ds # <<>>
  PROVE  LastFacts(os, ds, q)
  <1>1. os \in Seq(Seq(Cell)) /\ Len(os) \in Nat
    BY DEF GoodOperands
  <1>2. ds \in Seq(Seq(WordCell)) /\ Len(ds) <= Len(os)
    BY DEF At
  <1>3. Len(ds) \in 1 .. Len(os) /\ Len(ds) - 1 \in 0 .. Len(os) - 1 /\ Len(ds) \in Nat \ {0}
    <2>1. Len(ds) \in Nat \ {0}
      BY <1>2, EmptySeq
    <2> QED BY <1>1, <1>2, <2>1
  <1> DEFINE j == Len(ds)
             k == Len(ds[j])
             M == Meaning(os[j])
  <1>4. GoodOperand(os[j])
    BY <1>3 DEF GoodOperands
  <1>5. /\ M \in Seq(WordCell) /\ Len(M) = Len(os[j]) /\ Len(os[j]) \in Nat
        /\ \A i \in 1 .. Len(os[j]) : M[i].mode = "ind" <=> i < Len(os[j])
    BY <1>4, MeaningFacts
  <1>6. k \in 1 .. Len(os[j]) /\ ds[j] = SubSeq(M, 1, k) /\ q = Len(Upto(os, j - 1)) + k
    BY DEF At
  <1>7. ds[j] \in Seq(WordCell)
    BY <1>2, <1>3
  <1>8. AllComplete(ds) <=> ds[j][k].mode # "ind"
    BY <1>2, <1>3, <1>7 DEF AllComplete, Last
  <1>9. Len(Upto(os, j - 1)) \in Nat /\ Len(Upto(os, j)) = Len(Upto(os, j - 1)) + Len(os[j])
    <2>1. j - 1 \in 0 .. Len(os) - 1 /\ j - 1 \in 0 .. Len(os) /\ (j - 1) + 1 = j
      BY <1>3
    <2> HIDE DEF j
    <2>2. Len(Upto(os, (j - 1) + 1)) = Len(Upto(os, j - 1)) + Len(os[(j - 1) + 1])
      BY <1>1, <2>1, UptoLen
    <2>3. Len(Upto(os, j - 1)) \in Nat
      BY <1>1, <2>1, UptoLen
    <2> QED BY <2>1, <2>2, <2>3
  <1> HIDE DEF k, M, j
  <1>10. \A i \in 1 .. k : ds[j][i] = M[i]
    BY <1>5, <1>6
  <1>11. ds[j][k].mode = "ind" <=> k < Len(os[j])
    <2>1. ds[j][k] = M[k]
      BY <1>5, <1>6, <1>10
    <2> QED BY <1>5, <1>6, <2>1
  <1>12. AllComplete(ds) <=> k = Len(os[j])
    BY <1>5, <1>6, <1>8, <1>11
  <1> QED BY <1>3, <1>4, <1>6, <1>7, <1>9, <1>10, <1>12 DEF j, k, M, LastFacts

\* The place of the next varint among the operands' cells.
LEMMA AtPlace ==
  ASSUME NEW os, GoodOperands(os), NEW ds, NEW q, At(os, ds, q),
         ~(Len(ds) = Len(os) /\ AllComplete(ds))
  PROVE  \E i \in 0 .. Len(os) - 1 : \E k \in 1 .. Len(os[i + 1]) :
           /\ q + 1 = Len(Upto(os, i)) + k /\ q \in Nat
           /\ AllComplete(ds) => i = Len(ds) /\ k = 1
           /\ ~AllComplete(ds) =>
                ds # <<>> /\ i = Len(ds) - 1 /\ k = Len(ds[Len(ds)]) + 1
  <1>1. os \in Seq(Seq(Cell)) /\ Len(os) \in Nat
    BY DEF GoodOperands
  <1>2. ds \in Seq(Seq(WordCell)) /\ Len(ds) \in Nat /\ Len(ds) <= Len(os)
    BY DEF At
  <1>3. CASE ds = <<>>
    <2>1. AllComplete(ds) /\ Len(ds) = 0
      BY <1>3 DEF AllComplete
    <2>2. 0 \in 0 .. Len(os) - 1 /\ 0 + 1 \in 1 .. Len(os)
      BY <1>1, <1>2, <2>1
    <2>3. GoodOperand(os[0 + 1])
      BY <2>2 DEF GoodOperands
    <2>4. 1 \in 1 .. Len(os[0 + 1])
      BY <2>3, MeaningFacts
    <2>5. q = 0 /\ Len(Upto(os, 0)) = 0
      BY <1>1, <1>3, UptoLen DEF At
    <2> QED BY <2>1, <2>2, <2>4, <2>5
  <1>4. CASE ds # <<>> /\ AllComplete(ds)
    <2>1. Len(ds) \in 0 .. Len(os) - 1 /\ Len(ds) + 1 \in 1 .. Len(os)
      BY <1>1, <1>2, <1>4
    <2>2. GoodOperand(os[Len(ds) + 1])
      BY <2>1 DEF GoodOperands
    <2>3. 1 \in 1 .. Len(os[Len(ds) + 1])
      BY <2>2, MeaningFacts
    <2>4. ds # <<>> /\ AllComplete(ds)
      BY <1>4
    <2> DEFINE u == Len(Upto(os, Len(ds) - 1))
               v == Len(ds[Len(ds)])
               w == Len(os[Len(ds)])
               x == Len(Upto(os, Len(ds)))
    <2>5. q = u + v
      BY <2>4 DEF At
    <2>6. u \in Nat
      BY <2>4, AtLast DEF LastFacts
    <2>10. v \in 1 .. w
      BY <2>4, AtLast DEF LastFacts
    <2>7. v = w
      BY <2>4, AtLast DEF LastFacts
    <2>8. x = u + w
      BY <2>4, AtLast DEF LastFacts
    <2> HIDE DEF u, v, w, x
    <2>9. q + 1 = x + 1 /\ q \in Nat
      BY <2>5, <2>6, <2>7, <2>8, <2>10
    <2>11. q + 1 = Len(Upto(os, Len(ds))) + 1 /\ q \in Nat
      BY <2>9 DEF x
    <2> QED BY <1>4, <2>1, <2>3, <2>11
  <1>5. CASE ~AllComplete(ds)
    <2>1. ds # <<>>
      BY <1>5 DEF AllComplete
    <2>2. /\ Len(ds) - 1 \in 0 .. Len(os) - 1 /\ Len(ds) \in 1 .. Len(os) /\ GoodOperand(os[Len(ds)])
          /\ q = Len(Upto(os, Len(ds) - 1)) + Len(ds[Len(ds)])
          /\ Len(ds[Len(ds)]) \in 1 .. Len(os[Len(ds)]) /\ Len(ds[Len(ds)]) # Len(os[Len(ds)])
          /\ Len(Upto(os, Len(ds) - 1)) \in Nat
      BY <1>5, <2>1, AtLast DEF LastFacts
    <2>3. Len(os[Len(ds)]) \in Nat
      BY <2>2, MeaningFacts
    <2> DEFINE i == Len(ds) - 1
               k == Len(ds[Len(ds)]) + 1
    <2>4. i \in 0 .. Len(os) - 1 /\ i + 1 = Len(ds)
      BY <1>2, <2>2
    <2>5. k \in 1 .. Len(os[i + 1]) /\ q \in Nat /\ q + 1 = Len(Upto(os, i)) + k
      BY <2>2, <2>3, <2>4
    <2> HIDE DEF i, k
    <2>6. i = Len(ds) - 1 /\ k = Len(ds[Len(ds)]) + 1
      BY DEF i, k
    <2> QED BY <1>5, <2>1, <2>4, <2>5, <2>6
  <1> QED BY <1>3, <1>4, <1>5

LEMMA AtFull ==
  ASSUME NEW os, GoodOperands(os), NEW ds, NEW q, At(os, ds, q), AllComplete(ds), ds # <<>>
  PROVE  Len(ds[Len(ds)]) = Len(os[Len(ds)])
  <1>1. LastFacts(os, ds, q)
    BY AtLast
  <1> QED BY <1>1 DEF LastFacts

\* The operands that are complete are the ones that were encoded.
LEMMA AtWhole ==
  ASSUME NEW os, GoodOperands(os), NEW ds, NEW q, At(os, ds, q), AllComplete(ds)
  PROVE  \A i \in 1 .. Len(ds) : ds[i] = Meaning(os[i])
  <1> SUFFICES ASSUME NEW i \in 1 .. Len(ds) PROVE ds[i] = Meaning(os[i])
    OBVIOUS
  <1>1. ds \in Seq(Seq(WordCell)) /\ Len(ds) \in Nat /\ ds # <<>>
    BY DEF At
  <1>2. CASE i = Len(ds)
    <2> DEFINE s == ds[Len(ds)]
               M == Meaning(os[Len(ds)])
    <2>1. GoodOperand(os[Len(ds)]) /\ s \in Seq(WordCell)
      BY <1>1, AtLast DEF LastFacts
    <2>2. Len(s) = Len(os[Len(ds)])
      BY <1>1, AtFull
    <2>3. \A k \in 1 .. Len(s) : s[k] = M[k]
      BY <1>1, AtLast DEF LastFacts
    <2>4. M \in Seq(WordCell) /\ Len(M) = Len(os[Len(ds)])
      BY <2>1, MeaningFacts
    <2> HIDE DEF s, M
    <2>5. s = M
      BY <2>1, <2>2, <2>3, <2>4, SeqEqual
    <2> QED BY <1>2, <2>5 DEF s, M
  <1>3. CASE i # Len(ds)
    <2>1. i \in 1 .. Len(ds) - 1
      BY <1>1, <1>3
    <2> QED BY <2>1 DEF At
  <1> QED BY <1>2, <1>3

LEMMA AtEnd ==
  ASSUME NEW os, GoodOperands(os), NEW ds, NEW q, At(os, ds, q), Len(ds) = Len(os), AllComplete(ds)
  PROVE  ds = Meanings(os) /\ q = Len(FlattenSeq(os))
  <1>1. os \in Seq(Seq(Cell)) /\ ds \in Seq(Seq(WordCell)) /\ Len(os) \in Nat
    BY DEF At, GoodOperands
  <1>2. /\ Meanings(os) \in Seq(Seq(WordCell)) /\ Len(Meanings(os)) = Len(os)
        /\ \A j \in 1 .. Len(os) : Meanings(os)[j] = Meaning(os[j])
    BY MeaningsFacts
  <1>3. \A i \in 1 .. Len(ds) : ds[i] = Meanings(os)[i]
    BY <1>2, AtWhole
  <1>4. ds = Meanings(os)
    BY <1>1, <1>2, <1>3, SeqEqual
  <1>5. Len(FlattenSeq(os)) = Len(Upto(os, Len(os))) /\ Len(Upto(os, 0)) = 0
    BY <1>1, UptoLen
  <1>6. q = Len(FlattenSeq(os))
    <2>1. CASE ds = <<>>
      BY <1>1, <1>5, <2>1 DEF At
    <2>2. CASE ds # <<>>
      <3>1. q = Len(Upto(os, Len(ds) - 1)) + Len(ds[Len(ds)])
        BY <2>2 DEF At
      <3>2. Len(ds[Len(ds)]) = Len(os[Len(ds)])
        BY <2>2, AtFull
      <3>3. Len(Upto(os, Len(ds))) = Len(Upto(os, Len(ds) - 1)) + Len(os[Len(ds)])
        BY <2>2, AtLast DEF LastFacts
      <3> QED BY <1>5, <3>1, <3>2, <3>3
    <2> QED BY <2>1, <2>2
  <1> QED BY <1>4, <1>6

LEMMA SubSeqNext ==
  ASSUME NEW X, NEW s \in Seq(X), NEW k \in 0 .. Len(s) - 1
  PROVE  SubSeq(s, 1, k + 1) = Append(SubSeq(s, 1, k), s[k + 1])
  <1> DEFINE t == SubSeq(s, 1, k)
             u == SubSeq(s, 1, k + 1)
  <1>1. k \in Nat /\ k + 1 \in 1 .. Len(s)
    OBVIOUS
  <1>2. t \in Seq(X) /\ Len(t) = k /\ \A i \in 1 .. k : t[i] = s[i]
    BY <1>1
  <1>3. u \in Seq(X) /\ Len(u) = k + 1 /\ \A i \in 1 .. k + 1 : u[i] = s[i]
    BY <1>1
  <1>4. s[k + 1] \in X
    BY <1>1
  <1> HIDE DEF t, u
  <1>5. /\ Append(t, s[k + 1]) \in Seq(X) /\ Len(Append(t, s[k + 1])) = k + 1
        /\ \A i \in 1 .. k + 1 : Append(t, s[k + 1])[i] = s[i]
    BY <1>1, <1>2, <1>4
  <1>6. u = Append(t, s[k + 1])
    BY <1>3, <1>5, SeqEqual
  <1> QED BY <1>6 DEF t, u

LEMMA AtBegins ==
  ASSUME NEW os, GoodOperands(os), NEW ds, NEW q, At(os, ds, q), AllComplete(ds),
         Len(ds) \in 0 .. Len(os) - 1, q = Len(Upto(os, Len(ds)))
  PROVE  At(os, Append(ds, <<MeaningCell(os[Len(ds) + 1][1])>>), q + 1)
  <1> DEFINE j == Len(ds) + 1
             x == MeaningCell(os[j][1])
             n == <<x>>
             new == Append(ds, n)
  <1>1. ds \in Seq(Seq(WordCell)) /\ Len(ds) \in Nat /\ j \in 1 .. Len(os) /\ Len(os) \in Nat
    BY DEF At, GoodOperands
  <1>2. GoodOperand(os[j])
    BY <1>1 DEF GoodOperands
  <1>3. /\ Meaning(os[j]) \in Seq(WordCell) /\ Len(Meaning(os[j])) = Len(os[j]) /\ Len(os[j]) \in Nat \ {0}
        /\ Meaning(os[j])[1] = x
    BY <1>2, MeaningFacts
  <1>4. x \in WordCell
    BY <1>3
  <1> HIDE DEF x
  <1>5. n \in Seq(WordCell) /\ Len(n) = 1 /\ n[1] = x
    BY <1>4
  <1>6. n = SubSeq(Meaning(os[j]), 1, Len(n))
    <2> DEFINE M == Meaning(os[j])
    <2>1. M \in Seq(WordCell) /\ 1 \in 1 .. Len(M) /\ M[1] = x
      BY <1>3
    <2> HIDE DEF M
    <2>2. SubSeq(M, 1, 1) = <<M[1]>>
      <3>1. 0 \in 0 .. Len(M) - 1 /\ 0 + 1 = 1 /\ M[1] \in WordCell
        BY <2>1
      <3>2. SubSeq(M, 1, 0) = <<>>
        BY <2>1
      <3>3. SubSeq(M, 1, 0 + 1) = Append(SubSeq(M, 1, 0), M[0 + 1])
        BY <2>1, <3>1, SubSeqNext
      <3>4. Append(<<>>, M[1]) = <<M[1]>>
        BY <3>1
      <3> QED BY <3>1, <3>2, <3>3, <3>4
    <2> QED BY <1>5, <2>1, <2>2 DEF M
  <1> HIDE DEF n
  <1>7. /\ new \in Seq(Seq(WordCell)) /\ Len(new) = j /\ new # <<>> /\ new[j] = n
        /\ \A i \in 1 .. j - 1 : new[i] = ds[i]
    BY <1>1, <1>5
  <1>8. \A i \in 1 .. j - 1 : new[i] = Meaning(os[i])
    <2>1. j - 1 = Len(ds)
      BY <1>1
    <2> QED BY <1>7, <2>1, AtWhole
  <1>9. q + 1 = Len(Upto(os, j - 1)) + Len(n)
    BY <1>1, <1>5
  <1> HIDE DEF new, j
  <1>10. /\ new[Len(new)] = n /\ Len(new[Len(new)]) \in 1 .. Len(os[Len(new)])
         /\ new[Len(new)] = SubSeq(Meaning(os[Len(new)]), 1, Len(new[Len(new)]))
         /\ q + 1 = Len(Upto(os, Len(new) - 1)) + Len(new[Len(new)])
    <2>1. Len(new) = j /\ new[j] = n /\ Len(n) = 1
      BY <1>5, <1>7
    <2>2. 1 \in 1 .. Len(os[j])
      BY <1>3
    <2>3. new[Len(new)] = n /\ Len(new[Len(new)]) = 1
      BY <2>1, Zenon
    <2> QED BY <1>6, <1>9, <2>1, <2>2, <2>3, Zenon
  <1>11. \A i \in 1 .. Len(new) - 1 : new[i] = Meaning(os[i])
    BY <1>7, <1>8
  <1>12. Len(new) <= Len(os)
    BY <1>1, <1>7
  <1>13. At(os, new, q + 1)
    BY <1>7, <1>10, <1>11, <1>12 DEF At
  <1> QED BY <1>13 DEF new, n, x, j

LEMMA AtGoesOn ==
  ASSUME NEW os, GoodOperands(os), NEW ds, NEW q, At(os, ds, q), ds # <<>>, ~AllComplete(ds)
  PROVE  At(os, [ds EXCEPT ![Len(ds)] = Append(ds[Len(ds)], MeaningCell(os[Len(ds)][Len(ds[Len(ds)]) + 1]))], q + 1)
  <1> DEFINE j == Len(ds)
             s == ds[j]
             k == Len(s)
             M == Meaning(os[j])
             x == MeaningCell(os[j][k + 1])
             n == Append(s, x)
             new == [ds EXCEPT ![j] = n]
  <1>1. ds \in Seq(Seq(WordCell)) /\ Len(os) \in Nat /\ j \in 1 .. Len(os) /\ j \in 1 .. Len(ds) /\ GoodOperand(os[j])
    <2>1. ds \in Seq(Seq(WordCell)) /\ Len(os) \in Nat
      BY DEF At, GoodOperands
    <2>2. j \in 1 .. Len(os) /\ GoodOperand(os[j])
      BY AtLast DEF LastFacts
    <2> QED BY <2>1, <2>2
  <1>2. s \in Seq(WordCell) /\ k \in 1 .. Len(os[j]) /\ k # Len(os[j])
    BY AtLast DEF LastFacts
  <1>3. /\ M \in Seq(WordCell) /\ Len(M) = Len(os[j]) /\ Len(os[j]) \in Nat
        /\ \A i \in 1 .. Len(os[j]) : M[i] = MeaningCell(os[j][i])
    BY <1>1, MeaningFacts
  <1>4. k + 1 \in 1 .. Len(os[j]) /\ k \in 0 .. Len(M) - 1 /\ k \in Nat
    BY <1>2, <1>3
  <1>5. x = M[k + 1] /\ x \in WordCell
    BY <1>3, <1>4
  <1>6. s = SubSeq(M, 1, k) /\ q = Len(Upto(os, j - 1)) + k
    BY DEF At
  <1>7. \A i \in 1 .. Len(ds) - 1 : ds[i] = Meaning(os[i])
    BY DEF At
  <1>8. Len(Upto(os, j - 1)) \in Nat
    BY AtLast DEF LastFacts
  <1> HIDE DEF x, M, k, s, j
  <1>9. n = SubSeq(M, 1, k + 1)
    BY <1>3, <1>4, <1>5, <1>6, SubSeqNext
  <1>10. n \in Seq(WordCell) /\ Len(n) = k + 1
    BY <1>2, <1>5 DEF k
  <1> HIDE DEF n
  <1>11. new \in Seq(Seq(WordCell)) /\ Len(new) = Len(ds) /\ \A i \in 1 .. Len(ds) : new[i] = IF i = j THEN n ELSE ds[i]
    BY <1>1, <1>10
  <1>12. Len(new) = j /\ new[j] = n /\ new # <<>> /\ \A i \in 1 .. j - 1 : new[i] = Meaning(os[i])
    BY <1>1, <1>7, <1>11 DEF j
  <1>13. q + 1 = Len(Upto(os, j - 1)) + (k + 1)
    BY <1>4, <1>6, <1>8
  <1> HIDE DEF new
  <1>14. At(os, new, q + 1)
    BY <1>1, <1>4, <1>9, <1>10, <1>11, <1>12, <1>13 DEF At, M
  <1> QED BY <1>14 DEF new, n, x, M, k, s, j

\* The next varint of an operand, and the cell the decoder gets from it.
LEMMA AtNext ==
  ASSUME NEW os, GoodOperands(os), NEW ds, NEW q, At(os, ds, q), NEW as_src \in BOOLEAN,
         ~(Len(ds) = Len(os) /\ AllComplete(ds))
  PROVE  \E c :
           /\ EncodableCell(c) /\ q \in 0 .. Len(AllParts(os, as_src)) - 1
           /\ AllParts(os, as_src)[q + 1] = EncodeVarint(CellBits(c, as_src \/ ~AllComplete(ds)))
           /\ At(os, Extend(ds, MeaningCell(c)), q + 1)
           /\ AllComplete(ds) => \E j \in 1 .. Len(os) : c = os[j][1]
  <1>1. PICK i \in 0 .. Len(os) - 1 : \E k \in 1 .. Len(os[i + 1]) :
           /\ q + 1 = Len(Upto(os, i)) + k /\ q \in Nat
           /\ AllComplete(ds) => i = Len(ds) /\ k = 1
           /\ ~AllComplete(ds) =>
                ds # <<>> /\ i = Len(ds) - 1 /\ k = Len(ds[Len(ds)]) + 1
    BY AtPlace
  <1>2. PICK k \in 1 .. Len(os[i + 1]) :
           /\ q + 1 = Len(Upto(os, i)) + k /\ q \in Nat
           /\ AllComplete(ds) => i = Len(ds) /\ k = 1
           /\ ~AllComplete(ds) =>
                ds # <<>> /\ i = Len(ds) - 1 /\ k = Len(ds[Len(ds)]) + 1
    BY <1>1
  <1> DEFINE c == os[i + 1][k]
  <1>3. os \in Seq(Seq(Cell)) /\ Len(os) \in Nat /\ i + 1 \in 1 .. Len(os) /\ i \in Nat
        /\ ds \in Seq(Seq(WordCell)) /\ Len(ds) \in Nat
    BY DEF GoodOperands, At
  <1>4. /\ q + 1 \in 1 .. Len(FlattenSeq(os)) /\ EncodableCell(c)
        /\ AllParts(os, as_src)[q + 1] = EncodeVarint(CellBits(c, as_src \/ k > 1))
    BY <1>2, PartAt
  <1>5. Len(AllParts(os, as_src)) = Len(FlattenSeq(os)) /\ Len(AllParts(os, as_src)) \in Nat
    <2>1. AllParts(os, as_src) \in Seq(Seq(Byte))
      BY AllPartsFacts
    <2> QED BY <2>1, AllPartsFacts
  <1>6. q \in 0 .. Len(AllParts(os, as_src)) - 1
    BY <1>2, <1>4, <1>5
  <1>7. CASE AllComplete(ds)
    <2>1. i = Len(ds) /\ k = 1
      BY <1>2, <1>7
    <2>2. q = Len(Upto(os, Len(ds))) /\ Len(ds) \in 0 .. Len(os) - 1
      <3>1. Len(Upto(os, i)) \in Nat
        BY <1>3, UptoLen
      <3> QED BY <1>2, <2>1, <3>1
    <2>3. At(os, Append(ds, <<MeaningCell(c)>>), q + 1)
      BY <1>7, <2>1, <2>2, AtBegins
    <2>4. Extend(ds, MeaningCell(c)) = Append(ds, <<MeaningCell(c)>>)
      BY <1>7 DEF Extend
    <2>5. (as_src \/ k > 1) = (as_src \/ ~AllComplete(ds))
      BY <1>7, <2>1
    <2>6. c = os[i + 1][1]
      BY <2>1
    <2> HIDE DEF c
    <2> QED BY <1>3, <1>4, <1>6, <2>3, <2>4, <2>5, <2>6
  <1>8. CASE ~AllComplete(ds)
    <2>1. ds # <<>> /\ i + 1 = Len(ds) /\ k = Len(ds[Len(ds)]) + 1
      BY <1>2, <1>3, <1>8
    <2>2. At(os, [ds EXCEPT ![Len(ds)] = Append(ds[Len(ds)], MeaningCell(c))], q + 1)
      BY <1>8, <2>1, AtGoesOn
    <2>3. Extend(ds, MeaningCell(c)) = [ds EXCEPT ![Len(ds)] = Append(ds[Len(ds)], MeaningCell(c))]
      BY <1>8 DEF Extend
    <2>4. (as_src \/ k > 1) = (as_src \/ ~AllComplete(ds))
      <3>1. Len(ds[Len(ds)]) \in 1 .. Len(os[Len(ds)])
        BY <2>1 DEF At
      <3>2. k > 1
        BY <2>1, <3>1
      <3> QED BY <1>8, <3>2
    <2> HIDE DEF c
    <2> QED BY <1>4, <1>6, <1>8, <2>2, <2>3, <2>4
  <1> QED BY <1>7, <1>8

-----------------------------------------------------------------------------
(* The encoding of a call.                                                 *)

\* A call whose operands can be encoded.
Ready(c) ==
  /\ c.op \in Classes /\ Accepts(c.op, Len(c.tgts), Len(c.srcs))
  /\ GoodOperands(c.tgts) /\ Len(c.tgts) \in 0 .. Huge - 1
  /\ GoodOperands(c.srcs) /\ Len(c.srcs) \in 0 .. Huge - 1
  /\ \A j \in 1 .. Len(c.tgts) : c.tgts[j][1].mode \in {"mem", "ind"}

HeadPart(c) == <<Bits(Opcode[c.op], 7) \o <<IF IsRmw(c) THEN 1 ELSE 0>>>>
TgtCount(c) == CountParts(Signature[c.op].more_tgts, Len(c.tgts))
TgtParts(c) == AllParts(c.tgts, FALSE)
SrcCount(c) == CountParts(Signature[c.op].more_srcs, Len(c.srcs))
SrcParts(c) == AllParts(IF IsRmw(c) THEN Tail(c.srcs) ELSE c.srcs, TRUE)

\* How many parts come before the targets, the number of sources, the sources.
BeforeTgts(c) == 1 + Len(TgtCount(c))
BeforeSrcCount(c) == BeforeTgts(c) + Len(TgtParts(c))
BeforeSrcs(c) == BeforeSrcCount(c) + Len(SrcCount(c))

IsConcat(s, a, b, X) ==
  /\ s \in Seq(X) /\ Len(s) = Len(a) + Len(b) /\ Len(a) \in Nat /\ Len(b) \in Nat
  /\ \A i \in 1 .. Len(a) : s[i] = a[i]
  /\ \A i \in 1 .. Len(b) : s[Len(a) + i] = b[i]
LEMMA TwoParts ==
  ASSUME NEW X, NEW a \in Seq(X), NEW b \in Seq(X), NEW s, s = a \o b
  PROVE  IsConcat(s, a, b, X)
  <1>1. Len(a) \in Nat /\ Len(b) \in Nat
    OBVIOUS
  <1>2. a \o b \in Seq(X) /\ Len(a \o b) = Len(a) + Len(b)
    OBVIOUS
  <1>3. \A i \in 1 .. Len(a) + Len(b) : (a \o b)[i] = IF i <= Len(a) THEN a[i] ELSE b[i - Len(a)]
    BY ConcatProperties
  <1>4. ASSUME NEW i \in 1 .. Len(a) PROVE (a \o b)[i] = a[i]
    <2>1. i \in 1 .. Len(a) + Len(b) /\ i <= Len(a)
      BY <1>1
    <2> QED BY <1>3, <2>1
  <1>5. ASSUME NEW i \in 1 .. Len(b) PROVE (a \o b)[Len(a) + i] = b[i]
    <2>1. Len(a) + i \in 1 .. Len(a) + Len(b) /\ ~(Len(a) + i <= Len(a)) /\ (Len(a) + i) - Len(a) = i
      BY <1>1
    <2> QED BY <1>3, <2>1
  <1> QED BY <1>1, <1>2, <1>4, <1>5 DEF IsConcat

AreFive(s, a, b, c, d, e, X) ==
  /\ s \in Seq(X) /\ Len(s) = 1 + Len(b) + Len(c) + Len(d) + Len(e) /\ s[1] = a[1]
  /\ \A i \in 1 .. Len(b) : s[1 + i] = b[i]
  /\ \A i \in 1 .. Len(c) : s[1 + Len(b) + i] = c[i]
  /\ \A i \in 1 .. Len(d) : s[1 + Len(b) + Len(c) + i] = d[i]
  /\ \A i \in 1 .. Len(e) : s[1 + Len(b) + Len(c) + Len(d) + i] = e[i]
LEMMA FiveParts ==
  ASSUME NEW X, NEW a \in Seq(X), NEW b \in Seq(X), NEW c \in Seq(X), NEW d \in Seq(X), NEW e \in Seq(X), Len(a) = 1,
         NEW s, s = a \o b \o c \o d \o e
  PROVE  AreFive(s, a, b, c, d, e, X)
  <1> DEFINE p == a \o b
             q == p \o c
             r == q \o d
  <1>w. s = r \o e
    OBVIOUS
  <1>0. Len(b) \in Nat /\ Len(c) \in Nat /\ Len(d) \in Nat /\ Len(e) \in Nat
    OBVIOUS
  <1>p. IsConcat(p, a, b, X)
    <2> HIDE DEF p
    <2> QED BY TwoParts DEF p
  <1>1. /\ p \in Seq(X) /\ Len(p) = 1 + Len(b)
        /\ \A i \in 1 .. 1 : p[i] = a[i]
        /\ \A i \in 1 .. Len(b) : p[1 + i] = b[i]
    <2> HIDE DEF p
    <2> QED BY <1>p DEF IsConcat
  <1> HIDE DEF p
  <1>q. IsConcat(q, p, c, X)
    <2> HIDE DEF q
    <2> QED BY <1>1, TwoParts DEF q
  <1> HIDE DEF q
  <1>2. /\ q \in Seq(X) /\ Len(q) = Len(p) + Len(c) /\ \A i \in 1 .. Len(p) : q[i] = p[i]
        /\ \A i \in 1 .. Len(c) : q[Len(p) + i] = c[i]
    BY <1>q DEF IsConcat
  <1>r. IsConcat(r, q, d, X)
    <2> HIDE DEF r
    <2> QED BY <1>2, TwoParts DEF r
  <1> HIDE DEF r
  <1>3. /\ r \in Seq(X) /\ Len(r) = Len(q) + Len(d) /\ \A i \in 1 .. Len(q) : r[i] = q[i]
        /\ \A i \in 1 .. Len(d) : r[Len(q) + i] = d[i]
    BY <1>r DEF IsConcat
  <1>s. IsConcat(s, r, e, X)
    BY <1>w, <1>3, TwoParts
  <1>4. /\ s \in Seq(X) /\ Len(s) = Len(r) + Len(e) /\ \A i \in 1 .. Len(r) : s[i] = r[i]
        /\ \A i \in 1 .. Len(e) : s[Len(r) + i] = e[i]
    BY <1>s DEF IsConcat
  <1>5. \A i \in 1 .. Len(p) : s[i] = p[i]
    <2> TAKE i \in 1 .. Len(p)
    <2>1. i \in 1 .. Len(q) /\ i \in 1 .. Len(r)
      BY <1>0, <1>1, <1>2, <1>3
    <2> QED BY <1>2, <1>3, <1>4, <2>1
  <1>6. s[1] = a[1] /\ \A i \in 1 .. Len(b) : s[1 + i] = b[i]
    <2>1. 1 \in 1 .. Len(p) /\ 1 \in 1 .. 1
      BY <1>0, <1>1
    <2>2. s[1] = a[1]
      BY <1>1, <1>5, <2>1
    <2>3. ASSUME NEW i \in 1 .. Len(b) PROVE s[1 + i] = b[i]
      <3>1. 1 + i \in 1 .. Len(p)
        BY <1>0, <1>1
      <3>2. s[1 + i] = p[1 + i]
        BY <1>5, <3>1
      <3> QED BY <1>1, <3>2
    <2> QED BY <2>2, <2>3
  <1>7. ASSUME NEW i \in 1 .. Len(c) PROVE s[1 + Len(b) + i] = c[i]
    <2>1. Len(p) + i \in 1 .. Len(q) /\ Len(p) + i \in 1 .. Len(r) /\ Len(p) + i = 1 + Len(b) + i
      BY <1>0, <1>1, <1>2, <1>3
    <2>2. s[Len(p) + i] = c[i]
      BY <1>2, <1>3, <1>4, <2>1
    <2> QED BY <2>1, <2>2
  <1>8. ASSUME NEW i \in 1 .. Len(d) PROVE s[1 + Len(b) + Len(c) + i] = d[i]
    <2>1. Len(q) + i \in 1 .. Len(r) /\ Len(q) + i = 1 + Len(b) + Len(c) + i
      BY <1>0, <1>1, <1>2, <1>3
    <2>2. s[Len(q) + i] = d[i]
      BY <1>3, <1>4, <2>1
    <2> QED BY <2>1, <2>2
  <1>9. ASSUME NEW i \in 1 .. Len(e) PROVE s[1 + Len(b) + Len(c) + Len(d) + i] = e[i]
    <2>1. Len(r) + i = 1 + Len(b) + Len(c) + Len(d) + i
      BY <1>0, <1>1, <1>2, <1>3
    <2> QED BY <1>4, <2>1
  <1>10. s \in Seq(X) /\ Len(s) = 1 + Len(b) + Len(c) + Len(d) + Len(e)
    BY <1>0, <1>1, <1>2, <1>3, <1>4
  <1> QED BY <1>6, <1>7, <1>8, <1>9, <1>10 DEF AreFive

CountCell(n) == [neg |-> FALSE, mag |-> Bits(n, 29)]

LEMMA CountFacts ==
  ASSUME NEW n \in 0 .. Huge - 1
  PROVE  /\ CountCell(n) \in Immediate /\ Encodable(CountCell(n))
         /\ CastS32(CountCell(n)) = CountCell(n)
         /\ ImmBits(CountCell(n)) \in Seq(Bit) /\ BitLength(ImmBits(CountCell(n))) <= 35
         /\ EncodeVarint(ImmBits(CountCell(n))) \in Seq(Byte)
         /\ NumberOf(Word(CountCell(n))) = n
  <1>1. n \in Nat /\ 29 \in Nat /\ 32 \in Nat
    <2>1. Huge \in Nat
      BY PowerPositive DEF Huge
    <2> QED BY <2>1
  <1> DEFINE b == Bits(n, 29)
             v == CountCell(n)
  <1>2. b \in Seq(Bit) /\ Len(b) = 29 /\ BitLength(b) \in 0 .. 29
    BY <1>1, BitsFacts, BitLengthFacts
  <1>3. v.neg = FALSE /\ v.mag = b /\ v \in Immediate
    BY <1>2 DEF CountCell, Immediate
  <1> HIDE DEF b, v
  <1>4. Encodable(v) /\ CastS32(v) = v
    <2>1. BitLength(v.mag) \in 0 .. 29 /\ ~v.neg
      BY <1>2, <1>3
    <2> QED BY <2>1 DEF Encodable, CastS32
  <1>5. ImmBits(v) \in Seq(Bit) /\ BitLength(ImmBits(v)) <= 33
    BY <1>3, <1>4, ImmBitsFacts
  <1>6. EncodeVarint(ImmBits(v)) \in Seq(Byte) /\ BitLength(ImmBits(v)) <= 35
    <2>1. BitLength(ImmBits(v)) \in Nat
      BY <1>5, BitLengthFacts
    <2> QED BY <1>5, <2>1, EncodeVarintFacts
  <1>7. Word(v) = Low(b, 32)
    BY <1>3 DEF Word
  <1>8. Low(b, 32) \in Seq(Bit) /\ SameBits(Low(b, 32), b)
    <2>1. \A k \in Places : BitOf(Low(b, 32), k) = IF k <= 32 THEN BitOf(b, k) ELSE 0
      BY <1>1, <1>2, BitOfLow
    <2>2. \A k \in Places : k > 32 => BitOf(b, k) = 0
      BY <1>2 DEF BitOf, Places
    <2>3. Low(b, 32) \in Seq(Bit)
      BY <1>1, <1>2, LowFacts
    <2> QED BY <2>1, <2>2, <2>3 DEF SameBits, Places
  <1>9. NumberOf(Word(v)) = n
    BY <1>7, <1>8, CountReads DEF b
  <1> QED BY <1>3, <1>4, <1>5, <1>6, <1>9 DEF v

LEMMA CountPartsFacts ==
  ASSUME NEW more, NEW n \in 0 .. Huge - 1
  PROVE  /\ CountParts(more, n) \in Seq(Seq(Byte))
         /\ more => Len(CountParts(more, n)) = 1 /\ CountParts(more, n)[1] = EncodeVarint(ImmBits(CountCell(n)))
         /\ ~more => Len(CountParts(more, n)) = 0
  <1> DEFINE e == EncodeVarint(ImmBits(CountCell(n)))
  <1>1. e \in Seq(Byte)
    BY CountFacts
  <1>2. CountParts(more, n) = IF more THEN <<e>> ELSE <<>>
    BY DEF CountParts, CountCell
  <1> HIDE DEF e
  <1>3. <<e>> \in Seq(Seq(Byte)) /\ Len(<<e>>) = 1 /\ <<e>>[1] = e
    BY <1>1
  <1>4. <<>> \in Seq(Seq(Byte)) /\ Len(<<>>) = 0
    OBVIOUS
  <1> QED BY <1>2, <1>3, <1>4 DEF e

\* The first byte: the opcode, and whether a source was left out.
LEMMA HeadFacts ==
  ASSUME NEW c, Ready(c)
  PROVE  /\ HeadPart(c) \in Seq(Byte) /\ Len(HeadPart(c)) = 1
         /\ NumberOf(Low(HeadPart(c)[1], 7)) = Opcode[c.op]
         /\ HeadPart(c)[1][8] = IF IsRmw(c) THEN 1 ELSE 0
  <1> DEFINE n == Opcode[c.op]
             b == Bits(n, 7)
             d == <<IF IsRmw(c) THEN 1 ELSE 0>>
             h == b \o d
  <1>1. n \in 0 .. 71 /\ n \in Nat /\ 7 \in Nat
    <2>1. n \in 0 .. 71
      BY OpcodeFacts DEF Ready
    <2> QED BY <2>1
  <1> HIDE DEF n
  <1>2. b \in Seq(Bit) /\ Len(b) = 7
    BY <1>1, BitsFacts
  <1>3. d \in Seq(Bit) /\ Len(d) = 1 /\ d[1] = IF IsRmw(c) THEN 1 ELSE 0
    BY DEF Bit
  <1> HIDE DEF b, d
  <1>4. IsConcat(h, b, d, Bit)
    <2> HIDE DEF h
    <2> QED BY <1>2, <1>3, TwoParts DEF h
  <1>5. h \in Seq(Bit) /\ Len(h) = 8 /\ \A i \in 1 .. 7 : h[i] = b[i]
    <2> HIDE DEF h
    <2> QED BY <1>2, <1>3, <1>4 DEF IsConcat
  <1>6. h[8] = d[1]
    <2> HIDE DEF h
    <2>1. 1 \in 1 .. Len(d) /\ Len(b) + 1 = 8
      BY <1>2, <1>3
    <2> QED BY <1>4, <2>1 DEF IsConcat
  <1> HIDE DEF h
  <1>7. h \in Byte
    <2>1. h \in [1 .. Len(h) -> Bit]
      BY <1>5, LenProperties
    <2>2. h \in [1 .. 8 -> Bit]
      BY <1>5, <2>1
    <2> QED BY <2>2 DEF Byte
  <1>8. HeadPart(c) = <<h>>
    BY DEF HeadPart, h, d, b, n
  <1>9. Low(h, 7) \in Seq(Bit) /\ SameBits(Low(h, 7), b)
    <2>1. \A k \in Places : BitOf(Low(h, 7), k) = IF k <= 7 THEN BitOf(h, k) ELSE 0
      BY <1>1, <1>5, BitOfLow
    <2>2. \A k \in Places : BitOf(b, k) = IF k <= 7 THEN BitOf(h, k) ELSE 0
      BY <1>2, <1>5 DEF BitOf, Places
    <2>3. Low(h, 7) \in Seq(Bit)
      BY <1>1, <1>5, LowFacts
    <2> QED BY <2>1, <2>2, <2>3 DEF SameBits
  <1>10. NumberOf(Low(h, 7)) = n
    BY <1>1, <1>9, OpcodeReads DEF b
  <1>11. HeadPart(c) \in Seq(Byte) /\ Len(HeadPart(c)) = 1 /\ HeadPart(c)[1] = h
    BY <1>7, <1>8
  <1> QED BY <1>3, <1>6, <1>10, <1>11 DEF n

\* Where the parts of an encoding are.
LEMMA PartsFacts ==
  ASSUME NEW c, Ready(c), SrcParts(c) \in Seq(Seq(Byte))
  PROVE  /\ Parts(c) \in Seq(Seq(Byte)) /\ Len(Parts(c)) = BeforeSrcs(c) + Len(SrcParts(c))
         /\ Parts(c)[1] = HeadPart(c)
         /\ \A i \in 1 .. Len(TgtCount(c)) : Parts(c)[1 + i] = TgtCount(c)[i]
         /\ \A i \in 1 .. Len(TgtParts(c)) : Parts(c)[BeforeTgts(c) + i] = TgtParts(c)[i]
         /\ \A i \in 1 .. Len(SrcCount(c)) : Parts(c)[BeforeSrcCount(c) + i] = SrcCount(c)[i]
         /\ \A i \in 1 .. Len(SrcParts(c)) : Parts(c)[BeforeSrcs(c) + i] = SrcParts(c)[i]
  <1> DEFINE h == HeadPart(c)
             a == <<h>>
             t == TgtCount(c)
             u == TgtParts(c)
             v == SrcCount(c)
             w == SrcParts(c)
  <1>1. h \in Seq(Byte)
    BY HeadFacts
  <1>2. t \in Seq(Seq(Byte)) /\ v \in Seq(Seq(Byte))
    BY CountPartsFacts DEF Ready, TgtCount, SrcCount
  <1>3. u \in Seq(Seq(Byte))
    BY AllPartsFacts DEF Ready, TgtParts
  <1>4. Parts(c) = a \o t \o u \o v \o w
    BY DEF Parts, HeadPart, TgtCount, TgtParts, SrcCount, SrcParts
  <1> HIDE DEF h, t, u, v, w
  <1>5. a \in Seq(Seq(Byte)) /\ Len(a) = 1 /\ a[1] = h
    BY <1>1
  <1> HIDE DEF a
  <1>6. AreFive(Parts(c), a, t, u, v, w, Seq(Byte))
    <2>1. w \in Seq(Seq(Byte))
      BY DEF w
    <2> QED BY <1>2, <1>3, <1>4, <1>5, <2>1, FiveParts
  <1> QED BY <1>5, <1>6 DEF AreFive, h, t, u, v, w, BeforeTgts, BeforeSrcCount, BeforeSrcs

\* Operands mean the same exactly if they are encoded as the same sources.
LEMMA SameParts ==
  ASSUME NEW o, GoodOperand(o), NEW p, GoodOperand(p)
  PROVE  OperandParts(o, TRUE) = OperandParts(p, TRUE) <=> Meaning(o) = Meaning(p)
  <1> DEFINE P == OperandParts(o, TRUE)
             Q == OperandParts(p, TRUE)
             M == Meaning(o)
             N == Meaning(p)
  <1>1. /\ P \in Seq(Seq(Byte)) /\ Len(P) = Len(o) /\ Q \in Seq(Seq(Byte)) /\ Len(Q) = Len(p)
        /\ \A k \in 1 .. Len(o) : P[k] = EncodeVarint(CellBits(o[k], TRUE))
        /\ \A k \in 1 .. Len(p) : Q[k] = EncodeVarint(CellBits(p[k], TRUE))
    <2>1. \A k : (TRUE \/ k > 1) = TRUE
      OBVIOUS
    <2> QED BY <2>1, OperandPartsFacts
  <1>2. /\ M \in Seq(WordCell) /\ Len(M) = Len(o) /\ N \in Seq(WordCell) /\ Len(N) = Len(p)
        /\ \A k \in 1 .. Len(o) : M[k] = MeaningCell(o[k])
        /\ \A k \in 1 .. Len(p) : N[k] = MeaningCell(p[k])
    BY MeaningFacts
  <1>3. \A k \in 1 .. Len(o) : EncodableCell(o[k])
    BY DEF GoodOperand
  <1>4. \A k \in 1 .. Len(p) : EncodableCell(p[k])
    BY DEF GoodOperand
  <1> HIDE DEF P, Q, M, N
  <1>5. ASSUME Len(o) = Len(p), NEW k \in 1 .. Len(o) PROVE P[k] = Q[k] <=> M[k] = N[k]
    <2>1. k \in 1 .. Len(p) /\ EncodableCell(o[k]) /\ EncodableCell(p[k])
      BY <1>3, <1>4, <1>5
    <2>2. MeaningCell(o[k]) = MeaningCell(p[k]) <=>
            EncodeVarint(CellBits(o[k], TRUE)) = EncodeVarint(CellBits(p[k], TRUE))
      BY <2>1, SameMeaning
    <2> QED BY <1>1, <1>2, <2>1, <2>2
  <1>6. ASSUME P = Q PROVE M = N
    <2>1. Len(o) = Len(p)
      BY <1>1, <1>6
    <2>2. \A k \in 1 .. Len(M) : M[k] = N[k]
      BY <1>2, <1>5, <1>6, <2>1
    <2> QED BY <1>2, <2>1, <2>2, SeqEqual
  <1>7. ASSUME M = N PROVE P = Q
    <2>1. Len(o) = Len(p)
      BY <1>2, <1>7
    <2>2. \A k \in 1 .. Len(P) : P[k] = Q[k]
      BY <1>1, <1>5, <1>7, <2>1
    <2> QED BY <1>1, <2>1, <2>2, SeqEqual
  <1> QED BY <1>6, <1>7 DEF P, Q, M, N

LEMMA FirstGood ==
  ASSUME NEW os, GoodOperands(os), os # <<>>
  PROVE  1 \in 1 .. Len(os) /\ GoodOperand(os[1]) /\ Len(os) \in Nat \ {0}
  <1>1. Len(os) \in Nat \ {0}
    BY EmptySeq DEF GoodOperands
  <1> QED BY <1>1 DEF GoodOperands

LEMMA RmwMeans ==
  ASSUME NEW c, Ready(c)
  PROVE  IsRmw(c) <=> c.srcs # <<>> /\ c.tgts # <<>> /\ Meaning(c.srcs[1]) = Meaning(c.tgts[1])
  <1>1. CASE c.srcs # <<>> /\ c.tgts # <<>>
    <2>1. GoodOperand(c.srcs[1]) /\ GoodOperand(c.tgts[1])
      BY <1>1, FirstGood DEF Ready
    <2>2. OperandParts(c.srcs[1], TRUE) = OperandParts(c.tgts[1], TRUE) <=>
            Meaning(c.srcs[1]) = Meaning(c.tgts[1])
      BY <2>1, SameParts
    <2> QED BY <1>1, <2>2 DEF IsRmw
  <1>2. CASE ~(c.srcs # <<>> /\ c.tgts # <<>>)
    BY <1>2 DEF IsRmw
  <1> QED BY <1>1, <1>2

\* How many varints of the sources are left out.
LeftOut(c) == IF IsRmw(c) THEN Len(c.srcs[1]) ELSE 0

LEMMA TailParts ==
  ASSUME NEW os, GoodOperands(os), os # <<>>
  PROVE  AllParts(os, TRUE) = OperandParts(os[1], TRUE) \o AllParts(Tail(os), TRUE) /\ GoodOperands(Tail(os))
  <1> DEFINE t == Tail(os)
             P == PartsOf(os, TRUE)
             Q == PartsOf(t, TRUE)
  <1>1. /\ t \in Seq(Seq(Cell)) /\ Len(t) = Len(os) - 1 /\ \A i \in 1 .. Len(t) : t[i] = os[i + 1]
    BY HeadTailProperties DEF GoodOperands
  <1>2. Len(os) \in Nat \ {0} /\ 1 \in 1 .. Len(os)
    BY FirstGood
  <1>3. GoodOperands(t)
    <2>1. \A i \in 1 .. Len(t) : GoodOperand(t[i])
      <3> TAKE i \in 1 .. Len(t)
      <3>1. i + 1 \in 1 .. Len(os)
        BY <1>1, <1>2
      <3> QED BY <1>1, <3>1 DEF GoodOperands
    <2> QED BY <1>1, <2>1 DEF GoodOperands
  <1> HIDE DEF t
  <1>4. /\ P \in Seq(Seq(Seq(Byte))) /\ Len(P) = Len(os) /\ AllParts(os, TRUE) = FlattenSeq(P)
        /\ \A j \in 1 .. Len(os) : P[j] = OperandParts(os[j], TRUE)
    BY AllPartsFacts
  <1>5. /\ Q \in Seq(Seq(Seq(Byte))) /\ Len(Q) = Len(t) /\ AllParts(t, TRUE) = FlattenSeq(Q)
        /\ \A j \in 1 .. Len(t) : Q[j] = OperandParts(t[j], TRUE)
    BY <1>3, AllPartsFacts
  <1> HIDE DEF P, Q
  <1>6. P # <<>>
    BY <1>2, <1>4
  <1>7. /\ Tail(P) \in Seq(Seq(Seq(Byte))) /\ Len(Tail(P)) = Len(P) - 1
        /\ \A i \in 1 .. Len(Tail(P)) : Tail(P)[i] = P[i + 1]
    BY <1>4, <1>6, HeadTailProperties
  <1>8. Tail(P) = Q
    <2>1. Len(Tail(P)) = Len(Q)
      BY <1>1, <1>4, <1>5, <1>7
    <2>2. \A i \in 1 .. Len(Tail(P)) : Tail(P)[i] = Q[i]
      <3> TAKE i \in 1 .. Len(Tail(P))
      <3>1. i + 1 \in 1 .. Len(os) /\ i \in 1 .. Len(t)
        BY <1>1, <1>2, <1>4, <1>7
      <3>2. Tail(P)[i] = OperandParts(os[i + 1], TRUE)
        BY <1>4, <1>7, <3>1
      <3>3. Q[i] = OperandParts(t[i], TRUE) /\ t[i] = os[i + 1]
        BY <1>1, <1>5, <3>1
      <3> QED BY <3>2, <3>3
    <2> QED BY <1>5, <1>7, <2>1, <2>2, SeqEqual
  <1>9. FlattenSeq(P) = P[1] \o FlattenSeq(Tail(P))
    BY <1>4, <1>6, FlattenTail
  <1>10. P[1] = OperandParts(os[1], TRUE)
    BY <1>2, <1>4
  <1> QED BY <1>3, <1>4, <1>5, <1>8, <1>9, <1>10 DEF t

\* The varints that were not left out are those of the other sources.
LEMMA SrcPartsFacts ==
  ASSUME NEW c, Ready(c)
  PROVE  /\ SrcParts(c) \in Seq(Seq(Byte)) /\ LeftOut(c) \in Nat
         /\ Len(AllParts(c.srcs, TRUE)) = LeftOut(c) + Len(SrcParts(c))
         /\ \A i \in 1 .. Len(SrcParts(c)) : SrcParts(c)[i] = AllParts(c.srcs, TRUE)[LeftOut(c) + i]
  <1>1. GoodOperands(c.srcs)
    BY DEF Ready
  <1>2. CASE ~IsRmw(c)
    <2>1. SrcParts(c) = AllParts(c.srcs, TRUE) /\ LeftOut(c) = 0
      BY <1>2 DEF SrcParts, LeftOut
    <2> DEFINE s == AllParts(c.srcs, TRUE)
    <2>2. s \in Seq(Seq(Byte))
      BY <1>1, AllPartsFacts
    <2> HIDE DEF s
    <2>3. Len(s) \in Nat
      BY <2>2
    <2>4. Len(s) = 0 + Len(s) /\ \A i \in 1 .. Len(s) : s[i] = s[0 + i]
      BY <2>3
    <2>5. SrcParts(c) = s /\ LeftOut(c) = 0
      BY <2>1 DEF s
    <2>6. Len(s) = LeftOut(c) + Len(SrcParts(c)) /\ \A i \in 1 .. Len(SrcParts(c)) : SrcParts(c)[i] = s[LeftOut(c) + i]
      BY <2>4, <2>5
    <2>7. SrcParts(c) \in Seq(Seq(Byte)) /\ LeftOut(c) \in Nat
      BY <2>2, <2>5
    <2> QED BY <2>6, <2>7, Zenon DEF s
  <1>3. CASE IsRmw(c)
    <2> DEFINE a == OperandParts(c.srcs[1], TRUE)
               b == SrcParts(c)
               s == AllParts(c.srcs, TRUE)
    <2>1. c.srcs # <<>>
      BY <1>3 DEF IsRmw
    <2>2. b = AllParts(Tail(c.srcs), TRUE) /\ LeftOut(c) = Len(c.srcs[1])
      BY <1>3 DEF SrcParts, LeftOut
    <2>3. GoodOperand(c.srcs[1])
      BY <1>1, <2>1, FirstGood
    <2>4. a \in Seq(Seq(Byte)) /\ Len(a) = Len(c.srcs[1])
      BY <2>3, OperandPartsFacts
    <2>5. s = a \o b /\ GoodOperands(Tail(c.srcs))
      BY <1>1, <2>1, <2>2, TailParts
    <2>6. b \in Seq(Seq(Byte))
      BY <2>2, <2>5, AllPartsFacts
    <2> HIDE DEF a, b, s
    <2>7. IsConcat(s, a, b, Seq(Byte))
      BY <2>4, <2>5, <2>6, TwoParts
    <2>8. Len(s) = LeftOut(c) + Len(b) /\ LeftOut(c) \in Nat /\ \A i \in 1 .. Len(b) : s[LeftOut(c) + i] = b[i]
      BY <2>2, <2>4, <2>7 DEF IsConcat
    <2> QED BY <2>6, <2>8 DEF s, b
  <1> QED BY <1>2, <1>3

LEMMA InCells ==
  ASSUME NEW os \in Seq(Seq(Cell)), NEW j \in 1 .. Len(os), NEW k \in 1 .. Len(os[j])
  PROVE  os[j][k] \in CellsOf(os) /\ os[j][k] \in Cell
  <1>1. os[j] \in Seq(Cell) /\ DOMAIN os = 1 .. Len(os) /\ DOMAIN os[j] = 1 .. Len(os[j])
    OBVIOUS
  <1>2. os[j][k] \in Cell
    BY <1>1
  <1>3. os[j][k] \in {os[j][i] : i \in DOMAIN os[j]}
    BY <1>1
  <1>4. {os[j][i] : i \in DOMAIN os[j]} \in {{os[h][i] : i \in DOMAIN os[h]} : h \in DOMAIN os}
    BY <1>1
  <1> QED BY <1>2, <1>3, <1>4, Zenon DEF CellsOf

LEMMA CellMode ==
  ASSUME NEW c \in Cell
  PROVE  c.mode \in {"lit", "imm", "bool", "mem", "ind"}
  <1>1. CASE c \in [mode : {"lit", "imm"}, v : Immediate]
    BY <1>1
  <1>2. CASE c \in [mode : {"bool", "mem", "ind"}, v : Seq(Bit)]
    BY <1>2
  <1> QED BY <1>1, <1>2 DEF Cell

\* An operand without a bool whose immediates can be encoded.
LEMMA OperandGood ==
  ASSUME NEW o \in Seq(Cell), IsOperand(o), o[1].mode # "bool",
         \A k \in 1 .. Len(o) : o[k].mode \in {"lit", "imm"} => Encodable(o[k].v)
  PROVE  GoodOperand(o)
  <1>1. ASSUME NEW k \in 1 .. Len(o)
        PROVE  EncodableCell(o[k]) /\ (o[k].mode = "ind" <=> k < Len(o))
    <2>1. o[k] \in Cell /\ k \in DOMAIN o
      OBVIOUS
    <2>2. o[k].mode \in {"lit", "imm", "bool", "mem", "ind"}
      BY <2>1, CellMode
    <2>3. /\ o[k].mode = "ind" <=> k < Len(o)
          /\ o[k].mode \in {"lit", "bool"} => k = 1
          /\ o[k].mode \in {"mem", "ind"} => Len(o[k].v) <= 32
      BY <2>1 DEF IsOperand
    <2>4. o[k].mode # "bool"
      BY <2>3
    <2> QED BY <2>1, <2>2, <2>3, <2>4 DEF EncodableCell
  <1>2. o # <<>>
    BY DEF IsOperand
  <1> QED BY <1>1, <1>2 DEF GoodOperand

LEMMA CallFacts ==
  ASSUME NEW c \in Calls
  PROVE  /\ c.op \in Classes /\ Accepts(c.op, Len(c.tgts), Len(c.srcs))
         /\ c.tgts \in Seq(Seq(Cell)) /\ c.srcs \in Seq(Seq(Cell))
         /\ Len(c.tgts) \in 0 .. Huge - 1 /\ Len(c.srcs) \in 0 .. Huge - 1
         /\ \A j \in 1 .. Len(c.tgts) : IsOperand(c.tgts[j]) /\ c.tgts[j][1].mode \in {"mem", "ind"}
         /\ \A j \in 1 .. Len(c.srcs) : IsOperand(c.srcs[j])
  <1>1. /\ c.op \in Classes /\ Accepts(c.op, Len(c.tgts), Len(c.srcs))
        /\ c.tgts \in Seq(Seq(Cell)) /\ c.srcs \in Seq(Seq(Cell)) /\ Len(c.tgts) < Huge /\ Len(c.srcs) < Huge
        /\ \A j \in DOMAIN c.tgts : IsOperand(c.tgts[j]) /\ c.tgts[j][1].mode \in {"mem", "ind"}
        /\ \A j \in DOMAIN c.srcs : IsOperand(c.srcs[j])
    BY CallsAssumption
  <1>2. Huge \in Nat
    BY PowerPositive DEF Huge
  <1> DEFINE t == c.tgts
             s == c.srcs
  <1>3. t \in Seq(Seq(Cell)) /\ s \in Seq(Seq(Cell)) /\ Len(t) < Huge /\ Len(s) < Huge
    BY <1>1
  <1>4. \A j \in DOMAIN t : IsOperand(t[j]) /\ t[j][1].mode \in {"mem", "ind"}
    BY <1>1
  <1>5. \A j \in DOMAIN s : IsOperand(s[j])
    BY <1>1
  <1>6. c.op \in Classes /\ Accepts(c.op, Len(t), Len(s))
    BY <1>1
  <1> HIDE DEF t, s
  <1>7. DOMAIN t = 1 .. Len(t) /\ DOMAIN s = 1 .. Len(s) /\ Len(t) \in 0 .. Huge - 1 /\ Len(s) \in 0 .. Huge - 1
    BY <1>2, <1>3
  <1>8. /\ \A j \in 1 .. Len(t) : IsOperand(t[j]) /\ t[j][1].mode \in {"mem", "ind"}
        /\ \A j \in 1 .. Len(s) : IsOperand(s[j])
    BY <1>4, <1>5, <1>7
  <1> QED BY <1>3, <1>6, <1>7, <1>8, Zenon DEF t, s

LEMMA ReadyCall ==
  ASSUME NEW c \in Calls, AllEncodable(c), \A j \in DOMAIN c.srcs : ~Refused(c.srcs[j])
  PROVE  Ready(c)
  <1>1. c.tgts \in Seq(Seq(Cell)) /\ c.srcs \in Seq(Seq(Cell)) /\ DOMAIN c.srcs = 1 .. Len(c.srcs)
    BY CallFacts
  <1>2. ASSUME NEW j \in 1 .. Len(c.tgts) PROVE GoodOperand(c.tgts[j])
    <2>1. c.tgts[j] \in Seq(Cell) /\ IsOperand(c.tgts[j]) /\ c.tgts[j][1].mode # "bool"
      <3>1. IsOperand(c.tgts[j]) /\ c.tgts[j][1].mode \in {"mem", "ind"}
        BY CallFacts, Zenon
      <3>2. c.tgts[j] \in Seq(Cell)
        BY <1>1
      <3> QED BY <3>1, <3>2
    <2>2. \A k \in 1 .. Len(c.tgts[j]) : c.tgts[j][k] \in CellsOf(c.tgts)
      BY <1>1, InCells
    <2>3. \A k \in 1 .. Len(c.tgts[j]) : c.tgts[j][k].mode \in {"lit", "imm"} => Encodable(c.tgts[j][k].v)
      BY <2>2 DEF AllEncodable
    <2> QED BY <2>1, <2>3, OperandGood
  <1>3. ASSUME NEW j \in 1 .. Len(c.srcs) PROVE GoodOperand(c.srcs[j])
    <2>1. c.srcs[j] \in Seq(Cell) /\ IsOperand(c.srcs[j])
      BY <1>1, CallFacts
    <2>2. c.srcs[j][1].mode # "bool"
      BY <1>1 DEF Refused, IsBool
    <2>3. \A k \in 1 .. Len(c.srcs[j]) : c.srcs[j][k] \in CellsOf(c.srcs)
      BY <1>1, InCells
    <2>4. \A k \in 1 .. Len(c.srcs[j]) : c.srcs[j][k].mode \in {"lit", "imm"} => Encodable(c.srcs[j][k].v)
      BY <2>3 DEF AllEncodable
    <2> QED BY <2>1, <2>2, <2>4, OperandGood
  <1>4. GoodOperands(c.tgts) /\ GoodOperands(c.srcs)
    BY <1>1, <1>2, <1>3 DEF GoodOperands
  <1> QED BY <1>4, CallFacts DEF Ready

\* Where the q-th part of the encoding of c ends.
Place(c, q) == Len(Upto(Parts(c), q))

LEMMA PlaceFacts ==
  ASSUME NEW c, Ready(c)
  PROVE  /\ Parts(c) \in Seq(Seq(Byte)) /\ Len(Parts(c)) \in Nat \ {0}
         /\ Place(c, 1) = 1 /\ Place(c, Len(Parts(c))) = Len(FlattenSeq(Parts(c)))
         /\ \A q \in 1 .. Len(Parts(c)) : Place(c, q) \in 1 .. Len(FlattenSeq(Parts(c)))
         /\ FlattenSeq(Parts(c)) \in Seq(Byte)
  <1> DEFINE P == Parts(c)
  <1>1. P \in Seq(Seq(Byte)) /\ P[1] = HeadPart(c) /\ Len(P) = BeforeSrcs(c) + Len(SrcParts(c))
    BY SrcPartsFacts, PartsFacts
  <1>2. Len(TgtCount(c)) \in Nat /\ Len(SrcCount(c)) \in Nat /\ Len(TgtParts(c)) \in Nat /\ Len(SrcParts(c)) \in Nat
    <2>1. TgtCount(c) \in Seq(Seq(Byte)) /\ SrcCount(c) \in Seq(Seq(Byte))
      BY CountPartsFacts DEF Ready, TgtCount, SrcCount
    <2>2. TgtParts(c) \in Seq(Seq(Byte))
      BY AllPartsFacts DEF Ready, TgtParts
    <2>3. SrcParts(c) \in Seq(Seq(Byte))
      BY SrcPartsFacts
    <2> QED BY <2>1, <2>2, <2>3
  <1>3. Len(P) \in Nat \ {0}
    BY <1>1, <1>2 DEF BeforeSrcs, BeforeSrcCount, BeforeTgts
  <1>4. Len(P[1]) = 1
    BY <1>1, HeadFacts
  <1> HIDE DEF P
  <1>5. Len(Upto(P, 1)) = 1
    <2>1. 0 \in 0 .. Len(P) - 1 /\ 0 + 1 = 1
      BY <1>3
    <2>2. Len(Upto(P, 0 + 1)) = Len(Upto(P, 0)) + Len(P[0 + 1]) /\ Len(Upto(P, 0)) = 0
      BY <1>1, <2>1, UptoLen
    <2> QED BY <1>4, <2>1, <2>2
  <1>6. Len(Upto(P, Len(P))) = Len(FlattenSeq(P)) /\ FlattenSeq(P) \in Seq(Byte)
    <2>1. Upto(P, Len(P)) = FlattenSeq(P)
      BY <1>1, UptoFacts
    <2>2. Len(P) \in 0 .. Len(P)
      BY <1>3
    <2>3. Upto(P, Len(P)) \in Seq(Byte)
      BY <1>1, <2>2, UptoFacts
    <2> QED BY <2>1, <2>3
  <1>7. ASSUME NEW q \in 1 .. Len(P) PROVE Len(Upto(P, q)) \in 1 .. Len(FlattenSeq(P))
    <2>1. 1 \in 0 .. Len(P) /\ q \in 0 .. Len(P) /\ Len(P) \in q .. Len(P) /\ q \in 1 .. Len(P)
      BY <1>3
    <2>2. Len(Upto(P, 1)) <= Len(Upto(P, q))
      BY <1>1, <2>1, UptoMonotone
    <2>3. Len(Upto(P, q)) <= Len(Upto(P, Len(P)))
      BY <1>1, <2>1, UptoMonotone
    <2>4. Len(Upto(P, q)) \in Nat /\ Len(FlattenSeq(P)) \in Nat
      BY <1>1, <1>6, <2>1, UptoLen
    <2> QED BY <1>5, <1>6, <2>2, <2>3, <2>4
  <1> QED BY <1>1, <1>3, <1>5, <1>6, <1>7 DEF P, Place

-----------------------------------------------------------------------------
(* What a read of the decoder finds.                                       *)

HasSizes(c) ==
  /\ Len(TgtCount(c)) \in Nat /\ Len(TgtParts(c)) \in Nat
  /\ Len(SrcCount(c)) \in Nat /\ Len(SrcParts(c)) \in Nat /\ LeftOut(c) \in Nat
  /\ BeforeTgts(c) \in Nat \ {0} /\ BeforeSrcCount(c) \in Nat \ {0} /\ BeforeSrcs(c) \in Nat \ {0}
  /\ BeforeTgts(c) = 1 + Len(TgtCount(c))
  /\ BeforeSrcCount(c) = BeforeTgts(c) + Len(TgtParts(c))
  /\ BeforeSrcs(c) = BeforeSrcCount(c) + Len(SrcCount(c))
  /\ Len(Parts(c)) = BeforeSrcs(c) + Len(SrcParts(c))
  /\ Parts(c) \in Seq(Seq(Byte))
LEMMA Sizes ==
  ASSUME NEW c, Ready(c)
  PROVE  HasSizes(c)
  <1>1. TgtCount(c) \in Seq(Seq(Byte)) /\ SrcCount(c) \in Seq(Seq(Byte))
    BY CountPartsFacts DEF Ready, TgtCount, SrcCount
  <1>2. TgtParts(c) \in Seq(Seq(Byte))
    BY AllPartsFacts DEF Ready, TgtParts
  <1>3. SrcParts(c) \in Seq(Seq(Byte)) /\ LeftOut(c) \in Nat
    BY SrcPartsFacts
  <1>4. Len(TgtCount(c)) \in Nat /\ Len(TgtParts(c)) \in Nat /\ Len(SrcCount(c)) \in Nat /\ Len(SrcParts(c)) \in Nat
    BY <1>1, <1>2, <1>3
  <1>5. Len(Parts(c)) = BeforeSrcs(c) + Len(SrcParts(c)) /\ Parts(c) \in Seq(Seq(Byte))
    BY <1>3, PartsFacts
  <1> QED BY <1>3, <1>4, <1>5 DEF BeforeTgts, BeforeSrcCount, BeforeSrcs, HasSizes

Encoded == Ready(call) /\ code = FlattenSeq(Parts(call))

\* A read at the end of the q-th part.
LEMMA ReadsPart ==
  ASSUME Encoded, NEW q \in 0 .. Len(Parts(call)) - 1, pos = Place(call, q),
         NEW b \in Seq(Bit), BitLength(b) <= 35, Parts(call)[q + 1] = EncodeVarint(b)
  PROVE  /\ GoodVarint /\ VarintEnd = Place(call, q + 1)
         /\ Payload = PayloadOf(EncodeVarint(b))
  <1>1. Parts(call) \in Seq(Seq(Byte))
    BY PlaceFacts DEF Encoded
  <1> QED BY <1>1, ReadsVarint DEF Encoded, Place

LEMMA CellsAre ==
  /\ SrcCell = SrcOf(Payload)
  /\ TgtCell = TgtOf(Payload)
  BY DEF SrcCell, SrcOf, TgtCell, TgtOf

LEMMA ReadsCount ==
  ASSUME Encoded, NEW q \in 0 .. Len(Parts(call)) - 1, pos = Place(call, q), NEW n \in 0 .. Huge - 1,
         Parts(call)[q + 1] = EncodeVarint(ImmBits(CountCell(n)))
  PROVE  GoodCount /\ VarintEnd = Place(call, q + 1) /\ NumberOf(SrcCell.v) = n
  <1> DEFINE v == CountCell(n)
             c == [mode |-> "imm", v |-> v]
  <1>1. /\ v \in Immediate /\ Encodable(v) /\ ImmBits(v) \in Seq(Bit) /\ BitLength(ImmBits(v)) <= 35
        /\ NumberOf(Word(v)) = n
    BY CountFacts
  <1>2. GoodVarint /\ VarintEnd = Place(call, q + 1) /\ Payload = PayloadOf(EncodeVarint(ImmBits(v)))
    BY <1>1, ReadsPart
  <1> HIDE DEF v
  <1>3. c \in Cell /\ c.mode = "imm" /\ c.v = v
    BY <1>1 DEF Cell
  <1> HIDE DEF c
  <1>4. EncodableCell(c)
    BY <1>1, <1>3 DEF EncodableCell
  <1>5. CellBits(c, TRUE) = ImmBits(v)
    BY <1>3, <1>4, ImmediateCellBits
  <1>6. SrcCell = MeaningCell(c)
    BY <1>2, <1>4, <1>5, SrcArrives, CellsAre
  <1>7. MeaningCell(c).mode = "imm" /\ MeaningCell(c).v = Word(v)
    BY <1>3, MeaningFields
  <1> QED BY <1>1, <1>2, <1>6, <1>7 DEF GoodCount

LEMMA CountSame ==
  ASSUME NEW c, Ready(c)
  PROVE  /\ Signature[c.op].more_tgts =>
              Len(TgtCount(c)) = 1 /\ TgtCount(c)[1] = EncodeVarint(ImmBits(CountCell(Len(c.tgts))))
         /\ ~Signature[c.op].more_tgts => Len(TgtCount(c)) = 0
         /\ Signature[c.op].more_srcs =>
              Len(SrcCount(c)) = 1 /\ SrcCount(c)[1] = EncodeVarint(ImmBits(CountCell(Len(c.srcs))))
         /\ ~Signature[c.op].more_srcs => Len(SrcCount(c)) = 0
  BY CountPartsFacts DEF Ready, TgtCount, SrcCount

LEMMA ReadsTgtCount ==
  ASSUME Encoded, Signature[call.op].more_tgts, pos = Place(call, 1)
  PROVE  GoodCount /\ VarintEnd = Place(call, BeforeTgts(call)) /\ NumberOf(SrcCell.v) = Len(call.tgts)
         /\ BeforeTgts(call) \in 1 .. Len(Parts(call))
  <1>1. Ready(call) /\ Len(call.tgts) \in 0 .. Huge - 1
    BY DEF Encoded, Ready
  <1>2. Len(TgtCount(call)) = 1 /\ TgtCount(call)[1] = EncodeVarint(ImmBits(CountCell(Len(call.tgts))))
    BY <1>1, CountSame
  <1>3. BeforeTgts(call) = 1 + 1 /\ 1 \in 0 .. Len(Parts(call)) - 1 /\ BeforeTgts(call) \in 1 .. Len(Parts(call))
    <2>1. HasSizes(call)
      BY <1>1, Sizes
    <2> QED BY <1>2, <2>1 DEF HasSizes
  <1>4. \A i \in 1 .. Len(TgtCount(call)) : Parts(call)[1 + i] = TgtCount(call)[i]
    BY <1>1, SrcPartsFacts, PartsFacts
  <1>5. Parts(call)[1 + 1] = EncodeVarint(ImmBits(CountCell(Len(call.tgts))))
    BY <1>2, <1>4
  <1>6. GoodCount /\ VarintEnd = Place(call, 1 + 1) /\ NumberOf(SrcCell.v) = Len(call.tgts)
    BY <1>1, <1>3, <1>5, ReadsCount
  <1> QED BY <1>3, <1>6

LEMMA ReadsSrcCount ==
  ASSUME Encoded, Signature[call.op].more_srcs, pos = Place(call, BeforeSrcCount(call))
  PROVE  GoodCount /\ VarintEnd = Place(call, BeforeSrcs(call)) /\ NumberOf(SrcCell.v) = Len(call.srcs)
         /\ BeforeSrcs(call) \in 1 .. Len(Parts(call))
  <1> DEFINE q == BeforeSrcCount(call)
  <1>1. Ready(call) /\ Len(call.srcs) \in 0 .. Huge - 1
    BY DEF Encoded, Ready
  <1>2. Len(SrcCount(call)) = 1 /\ SrcCount(call)[1] = EncodeVarint(ImmBits(CountCell(Len(call.srcs))))
    BY <1>1, CountSame
  <1>3. BeforeSrcs(call) = q + 1 /\ q \in 0 .. Len(Parts(call)) - 1 /\ BeforeSrcs(call) \in 1 .. Len(Parts(call))
    <2>1. HasSizes(call)
      BY <1>1, Sizes
    <2> QED BY <1>2, <2>1 DEF HasSizes
  <1>4. \A i \in 1 .. Len(SrcCount(call)) : Parts(call)[q + i] = SrcCount(call)[i]
    BY <1>1, SrcPartsFacts, PartsFacts
  <1>5. Parts(call)[q + 1] = EncodeVarint(ImmBits(CountCell(Len(call.srcs))))
    BY <1>2, <1>4
  <1>6. pos = Place(call, q)
    OBVIOUS
  <1> HIDE DEF q
  <1>7. GoodCount /\ VarintEnd = Place(call, q + 1) /\ NumberOf(SrcCell.v) = Len(call.srcs)
    BY <1>1, <1>3, <1>5, <1>6, ReadsCount
  <1> QED BY <1>3, <1>7

LEMMA TgtPlaces ==
  ASSUME NEW x \in Nat, NEW y \in Nat, NEW z \in Nat, NEW q \in Nat, q < y
  PROVE  x + q \in 0 .. (x + y + z) - 1 /\ (x + q) + 1 = x + (q + 1) /\ q + 1 \in 1 .. y
  OBVIOUS
LEMMA SrcPlaces ==
  ASSUME NEW x \in Nat, NEW y \in Nat, NEW l \in Nat, NEW q \in Nat, q >= l, q < l + y
  PROVE  /\ x + (q - l) \in 0 .. (x + y) - 1 /\ (x + (q - l)) + 1 = x + ((q + 1) - l)
         /\ (q + 1) - l \in 1 .. y /\ l + ((q + 1) - l) = q + 1
  OBVIOUS

\* The next cell of a target.
LEMMA ReadsTgt ==
  ASSUME Encoded, NEW q, At(call.tgts, tgts, q), ~(Len(tgts) = Len(call.tgts) /\ AllComplete(tgts)),
         pos = Place(call, BeforeTgts(call) + q)
  PROVE  /\ GoodVarint /\ VarintEnd = Place(call, BeforeTgts(call) + (q + 1))
         /\ q \in Nat /\ q + 1 <= Len(TgtParts(call))
         /\ At(call.tgts, Extend(tgts, IF AllComplete(tgts) THEN TgtCell ELSE SrcCell), q + 1)
  <1>1. Ready(call) /\ GoodOperands(call.tgts)
    BY DEF Encoded, Ready
  <1>2. PICK c :
           /\ EncodableCell(c) /\ q \in 0 .. Len(TgtParts(call)) - 1
           /\ TgtParts(call)[q + 1] = EncodeVarint(CellBits(c, FALSE \/ ~AllComplete(tgts)))
           /\ At(call.tgts, Extend(tgts, MeaningCell(c)), q + 1)
           /\ AllComplete(tgts) => \E j \in 1 .. Len(call.tgts) : c = call.tgts[j][1]
    <2>1. FALSE \in BOOLEAN
      OBVIOUS
    <2> QED BY <1>1, <2>1, AtNext DEF TgtParts
  <1> DEFINE b == CellBits(c, ~AllComplete(tgts))
             p == BeforeTgts(call) + q
  <1>3. TgtParts(call)[q + 1] = EncodeVarint(b) /\ b \in Seq(Bit) /\ BitLength(b) <= 35
    <2>1. (~AllComplete(tgts)) \in BOOLEAN /\ (FALSE \/ ~AllComplete(tgts)) = ~AllComplete(tgts)
      BY DEF AllComplete
    <2> QED BY <1>2, <2>1, CellBitsFacts
  <1>4. /\ p \in 0 .. Len(Parts(call)) - 1 /\ p + 1 = BeforeTgts(call) + (q + 1)
        /\ q \in Nat /\ q + 1 \in 1 .. Len(TgtParts(call))
    <2>1. HasSizes(call)
      BY <1>1, Sizes
    <2> DEFINE x == BeforeTgts(call)
               y == Len(TgtParts(call))
               z == Len(SrcCount(call)) + Len(SrcParts(call))
    <2>4. x \in Nat /\ y \in Nat /\ z \in Nat /\ Len(Parts(call)) = x + y + z
      BY <2>1 DEF HasSizes
    <2>5. q \in 0 .. y - 1
      BY <1>2
    <2> HIDE DEF x, y, z
    <2>2. q \in Nat /\ q < y
      BY <2>4, <2>5
    <2>3. x + q \in 0 .. (x + y + z) - 1 /\ (x + q) + 1 = x + (q + 1) /\ q + 1 \in 1 .. y
      BY <2>2, <2>4, TgtPlaces
    <2> QED BY <2>2, <2>3, <2>4 DEF x, y
  <1>5. Parts(call)[p + 1] = EncodeVarint(b)
    <2>1. \A i \in 1 .. Len(TgtParts(call)) : Parts(call)[BeforeTgts(call) + i] = TgtParts(call)[i]
      BY <1>1, SrcPartsFacts, PartsFacts
    <2> HIDE DEF p, b
    <2> QED BY <1>3, <1>4, <2>1
  <1>6. pos = Place(call, p)
    OBVIOUS
  <1> HIDE DEF b, p
  <1>7. GoodVarint /\ VarintEnd = Place(call, p + 1) /\ Payload = PayloadOf(EncodeVarint(b))
    BY <1>3, <1>4, <1>5, <1>6, ReadsPart
  <1>8. (IF AllComplete(tgts) THEN TgtCell ELSE SrcCell) = MeaningCell(c)
    <2>1. CASE AllComplete(tgts)
      <3>1. c.mode \in {"mem", "ind"}
        BY <1>1, <1>2, <2>1 DEF Ready
      <3>2. b = CellBits(c, FALSE)
        BY <2>1 DEF b
      <3>3. TgtOf(PayloadOf(EncodeVarint(CellBits(c, FALSE)))) = MeaningCell(c)
        BY <1>2, <3>1, TgtArrives
      <3> QED BY <1>7, <2>1, <3>2, <3>3, CellsAre
    <2>2. CASE ~AllComplete(tgts)
      <3>1. b = CellBits(c, TRUE)
        BY <2>2 DEF b
      <3>2. SrcOf(PayloadOf(EncodeVarint(CellBits(c, TRUE)))) = MeaningCell(c)
        BY <1>2, SrcArrives
      <3> QED BY <1>7, <2>2, <3>1, <3>2, CellsAre
    <2> QED BY <2>1, <2>2
  <1> QED BY <1>2, <1>4, <1>7, <1>8

\* The next cell of a source.
LEMMA ReadsSrc ==
  ASSUME Encoded, NEW q, At(call.srcs, srcs, q), ~(Len(srcs) = Len(call.srcs) /\ AllComplete(srcs)),
         q >= LeftOut(call), pos = Place(call, BeforeSrcs(call) + (q - LeftOut(call)))
  PROVE  /\ GoodVarint /\ VarintEnd = Place(call, BeforeSrcs(call) + ((q + 1) - LeftOut(call)))
         /\ q \in Nat /\ (q + 1) - LeftOut(call) \in 1 .. Len(SrcParts(call))
         /\ At(call.srcs, Extend(srcs, SrcCell), q + 1)
  <1>1. Ready(call) /\ GoodOperands(call.srcs)
    BY DEF Encoded, Ready
  <1> DEFINE A == AllParts(call.srcs, TRUE)
  <1>2. PICK c :
           /\ EncodableCell(c) /\ q \in 0 .. Len(A) - 1
           /\ A[q + 1] = EncodeVarint(CellBits(c, TRUE \/ ~AllComplete(srcs)))
           /\ At(call.srcs, Extend(srcs, MeaningCell(c)), q + 1)
    <2>1. TRUE \in BOOLEAN
      OBVIOUS
    <2> QED BY <1>1, <2>1, AtNext
  <1> DEFINE b == CellBits(c, TRUE)
             i == (q + 1) - LeftOut(call)
             p == BeforeSrcs(call) + (q - LeftOut(call))
  <1>3. A[q + 1] = EncodeVarint(b) /\ b \in Seq(Bit) /\ BitLength(b) <= 35
    <2>1. TRUE \in BOOLEAN /\ (TRUE \/ ~AllComplete(srcs)) = TRUE
      OBVIOUS
    <2> QED BY <1>2, <2>1, CellBitsFacts
  <1>4. /\ Len(A) = LeftOut(call) + Len(SrcParts(call))
        /\ \A k \in 1 .. Len(SrcParts(call)) : SrcParts(call)[k] = A[LeftOut(call) + k]
    BY <1>1, SrcPartsFacts
  <1> HIDE DEF A
  <1>5. /\ p \in 0 .. Len(Parts(call)) - 1 /\ p + 1 = BeforeSrcs(call) + i /\ q \in Nat
        /\ i \in 1 .. Len(SrcParts(call)) /\ LeftOut(call) + i = q + 1
    <2>1. HasSizes(call)
      BY <1>1, Sizes
    <2>2. q \in Nat /\ q < LeftOut(call) + Len(SrcParts(call))
      BY <1>2, <1>4, <2>1 DEF HasSizes
    <2> DEFINE x == BeforeSrcs(call)
               y == Len(SrcParts(call))
               l == LeftOut(call)
    <2>3. x \in Nat /\ y \in Nat /\ l \in Nat /\ Len(Parts(call)) = x + y
      BY <2>1 DEF HasSizes
    <2>4. q >= l /\ q < l + y
      BY <2>2
    <2> HIDE DEF x, y, l
    <2>5. /\ x + (q - l) \in 0 .. (x + y) - 1 /\ (x + (q - l)) + 1 = x + ((q + 1) - l)
          /\ (q + 1) - l \in 1 .. y /\ l + ((q + 1) - l) = q + 1
      BY <2>2, <2>3, <2>4, SrcPlaces
    <2> QED BY <2>2, <2>3, <2>5 DEF x, y, l
  <1>6. pos = Place(call, p)
    OBVIOUS
  <1>7. Parts(call)[p + 1] = EncodeVarint(b)
    <2>1. \A k \in 1 .. Len(SrcParts(call)) : Parts(call)[BeforeSrcs(call) + k] = SrcParts(call)[k]
      BY <1>1, SrcPartsFacts, PartsFacts
    <2> HIDE DEF p, b, i
    <2> QED BY <1>3, <1>4, <1>5, <2>1
  <1> HIDE DEF b, p
  <1>8. GoodVarint /\ VarintEnd = Place(call, p + 1) /\ Payload = PayloadOf(EncodeVarint(b))
    BY <1>3, <1>5, <1>6, <1>7, ReadsPart
  <1>9. SrcCell = MeaningCell(c)
    <2>1. SrcOf(PayloadOf(EncodeVarint(CellBits(c, TRUE)))) = MeaningCell(c)
      BY <1>2, SrcArrives
    <2> QED BY <1>8, <2>1, CellsAre DEF b
  <1> QED BY <1>2, <1>5, <1>8, <1>9

-----------------------------------------------------------------------------
(* The inductive invariant: what the decoder has, it got from the parts of *)
(* the encoding before the one it reads next.                              *)

NoneRefused == \A j \in DOMAIN call.srcs : ~Refused(call.srcs[j])
Fresh ==
  /\ pos = 0 /\ op = "NOP" /\ m = FALSE /\ ntgts = 0 /\ nsrcs = 0
  /\ tgts = <<>> /\ srcs = <<>>
Unencoded == code = <<>> /\ ends = {} /\ Fresh
IsEncoded ==
  Encoded /\ NoneRefused /\ ends = {Place(call, k) : k \in 1 .. Len(Parts(call))}
\* The decoder is at the end of the k-th part.
AtPart(k) == k \in 1 .. Len(Parts(call)) /\ pos = Place(call, k)

HeadRead == IsEncoded /\ op = call.op /\ m = IsRmw(call)
TgtsCounted ==
  HeadRead /\ ntgts = Len(call.tgts) /\ (Signature[call.op].more_tgts => ntgts <= MaxTgts)
TgtsKnown == TgtsCounted /\ tgts = Meanings(call.tgts)
SrcsCounted ==
  TgtsKnown /\ nsrcs = Len(call.srcs) /\ (Signature[call.op].more_srcs => nsrcs <= MaxSrcs)
TooMany == Len(call.tgts) > MaxTgts \/ Len(call.srcs) > MaxSrcs

InCall == st \in {"call", "TypeError", "ValueError"} /\ Unencoded
InBuilt == st = "built" /\ Unencoded /\ NoneRefused
InAssertion == st = "AssertionError" /\ Unencoded /\ NoneRefused /\ ~AllEncodable(call)
InOpcode == st = "opcode" /\ IsEncoded /\ Fresh
InTgtCount ==
  /\ st = "ntgts" /\ HeadRead /\ Signature[call.op].more_tgts /\ AtPart(1)
  /\ tgts = <<>> /\ srcs = <<>>
InTgts ==
  /\ st = "tgts" /\ TgtsCounted /\ srcs = <<>>
  /\ \E q : At(call.tgts, tgts, q) /\ AtPart(BeforeTgts(call) + q)
InSrcCount ==
  /\ st = "nsrcs" /\ TgtsKnown /\ Signature[call.op].more_srcs
  /\ AtPart(BeforeSrcCount(call)) /\ srcs = <<>>
InRmw == st = "rmw" /\ SrcsCounted /\ AtPart(BeforeSrcs(call)) /\ srcs = <<>>
InSrcs ==
  /\ st = "srcs" /\ SrcsCounted
  /\ \E q : /\ At(call.srcs, srcs, q) /\ q >= LeftOut(call)
            /\ AtPart(BeforeSrcs(call) + (q - LeftOut(call)))
InDone == st = "done" /\ SrcsCounted /\ srcs = Meanings(call.srcs) /\ AtPart(Len(Parts(call)))
InBadOperand ==
  /\ st = "BAD_OPERAND" /\ HeadRead /\ TooMany /\ \E k : AtPart(k)
  /\ tgts \in {<<>>, Meanings(call.tgts)} /\ srcs = <<>>

IInv ==
  /\ call \in Calls
  /\ \/ InCall \/ InBuilt \/ InAssertion \/ InOpcode \/ InTgtCount \/ InTgts
     \/ InSrcCount \/ InRmw \/ InSrcs \/ InDone \/ InBadOperand

LEMMA Phase ==
  ASSUME IInv
  PROVE  /\ st = "call" => InCall
         /\ st = "built" => InBuilt
         /\ st = "opcode" => InOpcode
         /\ st = "ntgts" => InTgtCount
         /\ st = "tgts" => InTgts
         /\ st = "nsrcs" => InSrcCount
         /\ st = "rmw" => InRmw
         /\ st = "srcs" => InSrcs
         /\ st = "done" => InDone
         /\ st = "BAD_OPERAND" => InBadOperand
         /\ st = "AssertionError" => InAssertion
         /\ call \in Calls
  BY DEF IInv, InCall, InBuilt, InAssertion, InOpcode, InTgtCount, InTgts, InSrcCount, InRmw,
    InSrcs, InDone, InBadOperand

LEMMA InitHolds ==
  ASSUME Init
  PROVE  IInv
  BY DEF Init, IInv, InCall, Unencoded, Fresh

LEMMA ConstructKeeps ==
  ASSUME IInv, Construct
  PROVE  IInv'
  <1>1. InCall /\ call \in Calls
    BY Phase DEF Construct
  <1>2. UNCHANGED <<call, code, ends, pos, op, m, ntgts, nsrcs, tgts, srcs>>
    BY DEF Construct, decoded
  <1>3. Unencoded'
    BY <1>1, <1>2 DEF InCall, Unencoded, Fresh
  <1>4. CASE NoneRefused
    <2>1. st' = "built" /\ NoneRefused'
      BY <1>2, <1>4 DEF Construct, NoneRefused
    <2> QED BY <1>1, <1>2, <1>3, <2>1 DEF IInv, InBuilt
  <1>5. CASE ~NoneRefused
    <2>1. st' \in {"TypeError", "ValueError"}
      BY <1>5 DEF Construct, NoneRefused
    <2> QED BY <1>1, <1>2, <1>3, <2>1 DEF IInv, InCall
  <1> QED BY <1>4, <1>5

LEMMA EndsAre ==
  ASSUME NEW c, Ready(c)
  PROVE  {Len(FlattenSeq(SubSeq(Parts(c), 1, k))) : k \in DOMAIN Parts(c)} = {Place(c, k) : k \in 1 .. Len(Parts(c))}
  <1>1. DOMAIN Parts(c) = 1 .. Len(Parts(c))
    BY PlaceFacts
  <1> QED BY <1>1 DEF Place, Upto

LEMMA EncodeKeeps ==
  ASSUME IInv, Encode
  PROVE  IInv'
  <1>1. InBuilt /\ call \in Calls
    BY Phase DEF Encode
  <1>2. UNCHANGED <<call, pos, op, m, ntgts, nsrcs, tgts, srcs>>
    BY DEF Encode, decoded
  <1>3. NoneRefused' /\ NoneRefused
    BY <1>1, <1>2 DEF InBuilt, NoneRefused
  <1>4. Fresh'
    BY <1>1, <1>2 DEF InBuilt, Unencoded, Fresh
  <1>5. CASE AllEncodable(call)
    <2>1. Ready(call)
      BY <1>1, <1>3, <1>5, ReadyCall DEF NoneRefused
    <2>2. /\ st' = "opcode" /\ code' = FlattenSeq(Parts(call))
          /\ ends' = {Len(FlattenSeq(SubSeq(Parts(call), 1, k))) : k \in DOMAIN Parts(call)}
      BY <1>5 DEF Encode
    <2>3. ends' = {Place(call, k) : k \in 1 .. Len(Parts(call))}
      BY <2>1, <2>2, EndsAre
    <2>4. Encoded'
      BY <1>2, <2>1, <2>2 DEF Encoded
    <2>5. IsEncoded'
      BY <1>2, <1>3, <2>3, <2>4 DEF IsEncoded
    <2> QED BY <1>1, <1>2, <1>4, <2>2, <2>5 DEF IInv, InOpcode
  <1>6. CASE ~AllEncodable(call)
    <2>1. st' = "AssertionError" /\ UNCHANGED <<code, ends>>
      BY <1>6 DEF Encode
    <2>2. Unencoded' /\ ~AllEncodable(call)'
      BY <1>1, <1>2, <1>4, <1>6, <2>1 DEF InBuilt, Unencoded
    <2> QED BY <1>1, <1>2, <1>3, <2>1, <2>2 DEF IInv, InAssertion
  <1> QED BY <1>5, <1>6

LEMMA EncodedKeeps ==
  ASSUME IsEncoded, UNCHANGED <<call, code, ends>>
  PROVE  IsEncoded'
  <1>1. Encoded'
    BY DEF IsEncoded, Encoded
  <1>2. NoneRefused'
    BY DEF IsEncoded, NoneRefused
  <1> QED BY <1>1, <1>2 DEF IsEncoded

\* The first byte of the code is the first part.
LEMMA FirstByte ==
  ASSUME Encoded
  PROVE  /\ NumberOf(Low(code[1], 7)) = Opcode[call.op]
         /\ (code[1][8] = 1) = IsRmw(call)
  <1>1. Ready(call) /\ code = FlattenSeq(Parts(call))
    BY DEF Encoded
  <1>2. Parts(call) \in Seq(Seq(Byte)) /\ Len(Parts(call)) \in Nat \ {0}
    BY <1>1, PlaceFacts
  <1>3. Parts(call)[1] = HeadPart(call)
    BY <1>1, SrcPartsFacts, PartsFacts
  <1>4. /\ HeadPart(call) \in Seq(Byte) /\ Len(HeadPart(call)) = 1
        /\ NumberOf(Low(HeadPart(call)[1], 7)) = Opcode[call.op]
        /\ HeadPart(call)[1][8] = IF IsRmw(call) THEN 1 ELSE 0
    BY <1>1, HeadFacts
  <1>5. code[1] = HeadPart(call)[1]
    <2> DEFINE P == Parts(call)
    <2>0. P \in Seq(Seq(Byte)) /\ Len(P) \in Nat \ {0} /\ Len(P[1]) = 1
      BY <1>2, <1>3, <1>4
    <2> HIDE DEF P
    <2>5. 0 + 1 = 1 /\ 1 \in 1 .. Len(P[1])
      BY <2>0
    <2>6. P[0 + 1] = P[1]
      OBVIOUS
    <2>1. 0 \in 0 .. Len(P) - 1 /\ 1 \in 1 .. Len(P[0 + 1])
      <3>1. 0 \in 0 .. Len(P) - 1
        BY <2>0
      <3>2. 1 \in 1 .. Len(P[0 + 1])
        BY <2>5, <2>6, Zenon
      <3> QED BY <3>1, <3>2
    <2>4. Len(Upto(P, 0)) = 0
      BY <2>0, UptoLen
    <2>2. FlattenSeq(P)[Len(Upto(P, 0)) + 1] = P[0 + 1][1]
      BY <2>0, <2>1, FlattenElement
    <2>3. FlattenSeq(P)[1] = P[1][1]
      BY <2>2, <2>4, <2>6
    <2> QED BY <1>1, <1>3, <2>3 DEF P
  <1>6. IsRmw(call) \in BOOLEAN
    BY DEF IsRmw
  <1> QED BY <1>4, <1>5, <1>6

LEMMA FetchOpcodeKeeps ==
  ASSUME IInv, FetchOpcode
  PROVE  IInv'
  <1>1. InOpcode /\ call \in Calls
    BY Phase DEF FetchOpcode
  <1>2. UNCHANGED <<call, code, ends>> /\ pos' = 1
    BY DEF FetchOpcode
  <1>3. Encoded /\ Ready(call) /\ call.op \in Classes
    BY <1>1 DEF InOpcode, IsEncoded, Encoded, Ready
  <1> DEFINE n == NumberOf(Low(code[1], 7))
  <1>4. n = Opcode[call.op] /\ ~(n > MAX_OPCODE) /\ ClassOf[n] = call.op
    <2>1. n = Opcode[call.op]
      BY <1>3, FirstByte
    <2>2. Opcode[call.op] <= MAX_OPCODE /\ MAX_OPCODE \in 0 .. 71 /\ Opcode[call.op] \in 0 .. 71
      BY <1>3, OpcodesKnown, OpcodeFacts
    <2>3. ClassOf[Opcode[call.op]] = call.op
      BY <1>3, OpcodeFacts
    <2> HIDE DEF n
    <2> QED BY <2>1, <2>2, <2>3
  <1>5. /\ op' = ClassOf[n] /\ m' = (code[1][8] = 1)
        /\ IF C!VarTgts(op') THEN st' = "ntgts" /\ UNCHANGED ntgts
           ELSE st' = "tgts" /\ ntgts' = C!Arity(op')[1]
        /\ UNCHANGED <<nsrcs, tgts, srcs>>
    BY <1>4 DEF FetchOpcode
  <1>6. op' = call.op /\ m' = IsRmw(call)
    BY <1>3, <1>4, <1>5, FirstByte
  <1> HIDE DEF n
  <1>7. IsEncoded'
    BY <1>1, <1>2, EncodedKeeps DEF InOpcode
  <1>8. HeadRead'
    BY <1>2, <1>6, <1>7 DEF HeadRead
  <1>9. tgts' = <<>> /\ srcs' = <<>>
    BY <1>1, <1>5 DEF InOpcode, Fresh
  <1>10. Agrees(call.op)
    BY <1>3, TablesAgree
  <1>11. Place(call, 1) = 1 /\ 1 \in 1 .. Len(Parts(call)) /\ AtPart(1)'
    <2>1. Place(call, 1) = 1 /\ 1 \in 1 .. Len(Parts(call))
      BY <1>3, PlaceFacts
    <2> QED BY <1>2, <2>1 DEF AtPart
  <1>12. CASE Signature[call.op].more_tgts
    <2>1. st' = "ntgts"
      BY <1>5, <1>6, <1>10, <1>12 DEF Agrees
    <2>2. InTgtCount'
      BY <1>2, <1>8, <1>9, <1>11, <1>12, <2>1 DEF InTgtCount
    <2> QED BY <1>1, <1>2, <2>2 DEF IInv
  <1>13. CASE ~Signature[call.op].more_tgts
    <2>1. st' = "tgts" /\ ntgts' = Signature[call.op].tgts
      BY <1>5, <1>6, <1>10, <1>13 DEF Agrees
    <2>2. Len(call.tgts) = Signature[call.op].tgts
      BY <1>3, <1>13 DEF Ready, Accepts
    <2>3. TgtsCounted'
      BY <1>2, <1>8, <1>13, <2>1, <2>2 DEF TgtsCounted
    <2>4. BeforeTgts(call) + 0 = 1
      BY <1>3, <1>13, CountSame DEF BeforeTgts
    <2>5. At(call.tgts, <<>>, 0)
      BY <1>3, AtStart DEF Ready
    <2>6. \E q : At(call'.tgts, tgts', q) /\ AtPart(BeforeTgts(call) + q)'
      <3>1. At(call'.tgts, tgts', 0) /\ AtPart(BeforeTgts(call) + 0)'
        BY <1>2, <1>9, <1>11, <2>4, <2>5 DEF AtPart
      <3> QED BY <3>1
    <2>7. InTgts'
      BY <1>2, <1>9, <2>1, <2>3, <2>6 DEF InTgts
    <2> QED BY <1>1, <1>2, <2>7 DEF IInv
  <1> QED BY <1>12, <1>13

LEMMA HeadKeeps ==
  ASSUME HeadRead, UNCHANGED <<call, code, ends, op, m>>
  PROVE  HeadRead'
  <1>1. IsEncoded'
    BY EncodedKeeps DEF HeadRead
  <1> QED BY <1>1 DEF HeadRead

LEMMA TgtsCountedKeeps ==
  ASSUME TgtsCounted, UNCHANGED <<call, code, ends, op, m, ntgts>>
  PROVE  TgtsCounted'
  <1>1. HeadRead'
    BY HeadKeeps DEF TgtsCounted
  <1> QED BY <1>1 DEF TgtsCounted

LEMMA TgtsKnownKeeps ==
  ASSUME TgtsKnown, UNCHANGED <<call, code, ends, op, m, ntgts, tgts>>
  PROVE  TgtsKnown'
  <1>1. TgtsCounted'
    BY TgtsCountedKeeps DEF TgtsKnown
  <1> QED BY <1>1 DEF TgtsKnown

LEMMA SrcsCountedKeeps ==
  ASSUME SrcsCounted, UNCHANGED <<call, code, ends, op, m, ntgts, nsrcs, tgts>>
  PROVE  SrcsCounted'
  <1>1. TgtsKnown'
    BY TgtsKnownKeeps DEF SrcsCounted
  <1> QED BY <1>1 DEF SrcsCounted

LEMMA HeadReady ==
  ASSUME HeadRead
  PROVE  /\ Encoded /\ Ready(call) /\ GoodOperands(call.tgts) /\ GoodOperands(call.srcs)
         /\ Len(call.tgts) \in Nat /\ Len(call.srcs) \in Nat
         /\ op = call.op /\ m = IsRmw(call) /\ call.op \in Classes
         /\ HasSizes(call) /\ Agrees(call.op)
  <1>1. Encoded /\ Ready(call) /\ op = call.op /\ m = IsRmw(call)
    BY DEF HeadRead, IsEncoded, Encoded
  <1>2. HasSizes(call)
    BY <1>1, Sizes
  <1>3. call.op \in Classes
    BY <1>1 DEF Ready
  <1>4. Agrees(call.op)
    BY <1>3, TablesAgree
  <1> QED BY <1>1, <1>2, <1>3, <1>4 DEF Ready

LEMMA CountTgtsKeeps ==
  ASSUME IInv, CountTgts
  PROVE  IInv'
  <1>1. InTgtCount /\ call \in Calls
    BY Phase DEF CountTgts
  <1>2. HeadRead /\ Signature[call.op].more_tgts /\ pos = Place(call, 1) /\ tgts = <<>> /\ srcs = <<>>
    BY <1>1 DEF InTgtCount, AtPart
  <1>3. Encoded /\ GoodOperands(call.tgts) /\ Len(call.tgts) \in Nat
    BY <1>2, HeadReady
  <1>4. /\ GoodCount /\ VarintEnd = Place(call, BeforeTgts(call)) /\ NumberOf(SrcCell.v) = Len(call.tgts)
        /\ BeforeTgts(call) \in 1 .. Len(Parts(call))
    BY <1>2, <1>3, ReadsTgtCount
  <1>5. /\ ntgts' = Len(call.tgts) /\ pos' = Place(call, BeforeTgts(call))
        /\ st' = IF ntgts' > MaxTgts THEN "BAD_OPERAND" ELSE "tgts"
        /\ UNCHANGED <<call, code, ends, op, m, nsrcs, tgts, srcs>>
    BY <1>4 DEF CountTgts
  <1>6. HeadRead'
    BY <1>2, <1>5, HeadKeeps
  <1>7. AtPart(BeforeTgts(call))'
    BY <1>4, <1>5 DEF AtPart
  <1>8. MaxTgts \in Nat
    BY LimitsAssumption
  <1>9. CASE ntgts' > MaxTgts
    <2>1. st' = "BAD_OPERAND" /\ TooMany'
      BY <1>5, <1>9 DEF TooMany
    <2>2. \E k : AtPart(k)'
      BY <1>7
    <2>3. InBadOperand'
      BY <1>2, <1>5, <1>6, <2>1, <2>2 DEF InBadOperand
    <2> QED BY <1>1, <1>5, <2>3 DEF IInv
  <1>10. CASE ~(ntgts' > MaxTgts)
    <2>1. st' = "tgts" /\ ntgts' <= MaxTgts
      BY <1>3, <1>5, <1>8, <1>10
    <2>2. TgtsCounted'
      BY <1>5, <1>6, <2>1 DEF TgtsCounted
    <2>3. At(call.tgts, <<>>, 0)
      BY <1>3, AtStart
    <2>4. BeforeTgts(call) + 0 = BeforeTgts(call)
      BY <1>4
    <2>5. At(call'.tgts, tgts', 0) /\ AtPart(BeforeTgts(call) + 0)'
      BY <1>2, <1>5, <1>7, <2>3, <2>4 DEF AtPart
    <2>6. \E q : At(call'.tgts, tgts', q) /\ AtPart(BeforeTgts(call) + q)'
      BY <2>5
    <2>7. InTgts'
      BY <1>2, <1>5, <2>1, <2>2, <2>6 DEF InTgts
    <2> QED BY <1>1, <1>5, <2>7 DEF IInv
  <1> QED BY <1>9, <1>10

LEMMA ReadTgtKeeps ==
  ASSUME IInv, ReadTgt
  PROVE  IInv'
  <1>1. InTgts /\ call \in Calls
    BY Phase DEF ReadTgt
  <1>2. TgtsCounted /\ HeadRead /\ srcs = <<>> /\ ntgts = Len(call.tgts)
    BY <1>1 DEF InTgts, TgtsCounted
  <1>3. PICK q : At(call.tgts, tgts, q) /\ AtPart(BeforeTgts(call) + q)
    BY <1>1 DEF InTgts
  <1>4. Encoded /\ HasSizes(call)
    BY <1>2, HeadReady
  <1>5. pos = Place(call, BeforeTgts(call) + q)
    BY <1>3 DEF AtPart
  <1>6. ~(Len(tgts) = Len(call.tgts) /\ AllComplete(tgts))
    BY <1>2 DEF ReadTgt
  <1>7. /\ GoodVarint /\ VarintEnd = Place(call, BeforeTgts(call) + (q + 1))
        /\ q \in Nat /\ q + 1 <= Len(TgtParts(call))
        /\ At(call.tgts, Extend(tgts, IF AllComplete(tgts) THEN TgtCell ELSE SrcCell), q + 1)
    BY <1>3, <1>4, <1>5, <1>6, ReadsTgt
  <1>8. /\ tgts' = Extend(tgts, IF AllComplete(tgts) THEN TgtCell ELSE SrcCell)
        /\ pos' = Place(call, BeforeTgts(call) + (q + 1)) /\ st' = "tgts"
        /\ UNCHANGED <<call, code, ends, op, m, ntgts, nsrcs, srcs>>
    BY <1>7 DEF ReadTgt
  <1>9. BeforeTgts(call) + (q + 1) \in 1 .. Len(Parts(call))
    BY <1>4, <1>7 DEF HasSizes
  <1>10. At(call'.tgts, tgts', q + 1) /\ AtPart(BeforeTgts(call) + (q + 1))'
    BY <1>7, <1>8, <1>9 DEF AtPart
  <1>11. \E r : At(call'.tgts, tgts', r) /\ AtPart(BeforeTgts(call) + r)'
    BY <1>10
  <1>12. TgtsCounted'
    BY <1>2, <1>8, TgtsCountedKeeps
  <1>13. InTgts'
    BY <1>2, <1>8, <1>11, <1>12 DEF InTgts
  <1> QED BY <1>1, <1>8, <1>13 DEF IInv

LEMMA TgtsReadKeeps ==
  ASSUME IInv, TgtsRead
  PROVE  IInv'
  <1>1. InTgts /\ call \in Calls
    BY Phase DEF TgtsRead
  <1>2. TgtsCounted /\ HeadRead /\ srcs = <<>> /\ ntgts = Len(call.tgts)
    BY <1>1 DEF InTgts, TgtsCounted
  <1>3. PICK q : At(call.tgts, tgts, q) /\ AtPart(BeforeTgts(call) + q)
    BY <1>1 DEF InTgts
  <1>4. /\ Encoded /\ Ready(call) /\ HasSizes(call) /\ GoodOperands(call.tgts) /\ op = call.op
        /\ Agrees(call.op)
    BY <1>2, HeadReady
  <1>5. tgts = Meanings(call.tgts) /\ q = Len(FlattenSeq(call.tgts))
    BY <1>2, <1>3, <1>4, AtEnd DEF TgtsRead
  <1>6. Len(TgtParts(call)) = Len(FlattenSeq(call.tgts))
    BY <1>4, AllPartsFacts DEF TgtParts
  <1>7. BeforeTgts(call) + q = BeforeSrcCount(call)
    BY <1>4, <1>5, <1>6 DEF HasSizes
  <1>8. AtPart(BeforeSrcCount(call))
    BY <1>3, <1>7
  <1>9. /\ IF C!VarSrcs(op) THEN st' = "nsrcs" /\ UNCHANGED nsrcs
           ELSE st' = "rmw" /\ nsrcs' = C!Arity(op)[2]
        /\ UNCHANGED <<call, code, ends, pos, op, m, ntgts, tgts, srcs>>
    BY DEF TgtsRead
  <1>10. TgtsKnown'
    <2>1. TgtsKnown
      BY <1>2, <1>5 DEF TgtsKnown
    <2> QED BY <1>9, <2>1, TgtsKnownKeeps
  <1>11. CASE Signature[call.op].more_srcs
    <2>1. st' = "nsrcs"
      BY <1>4, <1>9, <1>11 DEF Agrees
    <2>2. AtPart(BeforeSrcCount(call))'
      BY <1>8, <1>9 DEF AtPart
    <2>3. InSrcCount'
      BY <1>2, <1>9, <1>10, <1>11, <2>1, <2>2 DEF InSrcCount
    <2> QED BY <1>1, <1>9, <2>3 DEF IInv
  <1>12. CASE ~Signature[call.op].more_srcs
    <2>1. st' = "rmw" /\ nsrcs' = Signature[call.op].srcs
      BY <1>4, <1>9, <1>12 DEF Agrees
    <2>2. Len(call.srcs) = Signature[call.op].srcs
      BY <1>4, <1>12 DEF Ready, Accepts
    <2>3. SrcsCounted'
      BY <1>9, <1>10, <1>12, <2>1, <2>2 DEF SrcsCounted
    <2>4. BeforeSrcs(call) = BeforeSrcCount(call)
      <3>1. Len(SrcCount(call)) = 0
        BY <1>4, <1>12, CountSame
      <3> QED BY <1>4, <3>1 DEF HasSizes
    <2>5. AtPart(BeforeSrcs(call))'
      BY <1>8, <1>9, <2>4 DEF AtPart
    <2>6. InRmw'
      BY <1>2, <1>9, <2>1, <2>3, <2>5 DEF InRmw
    <2> QED BY <1>1, <1>9, <2>6 DEF IInv
  <1> QED BY <1>11, <1>12

LEMMA CountSrcsKeeps ==
  ASSUME IInv, CountSrcs
  PROVE  IInv'
  <1>1. InSrcCount /\ call \in Calls
    BY Phase DEF CountSrcs
  <1>2. /\ TgtsKnown /\ HeadRead /\ Signature[call.op].more_srcs /\ pos = Place(call, BeforeSrcCount(call))
        /\ srcs = <<>> /\ tgts = Meanings(call.tgts)
    BY <1>1 DEF InSrcCount, AtPart, TgtsKnown, TgtsCounted
  <1>3. Encoded /\ Len(call.srcs) \in Nat
    BY <1>2, HeadReady
  <1>4. /\ GoodCount /\ VarintEnd = Place(call, BeforeSrcs(call)) /\ NumberOf(SrcCell.v) = Len(call.srcs)
        /\ BeforeSrcs(call) \in 1 .. Len(Parts(call))
    BY <1>2, <1>3, ReadsSrcCount
  <1>5. /\ nsrcs' = Len(call.srcs) /\ pos' = Place(call, BeforeSrcs(call))
        /\ st' = IF nsrcs' > MaxSrcs THEN "BAD_OPERAND" ELSE "rmw"
        /\ UNCHANGED <<call, code, ends, op, m, ntgts, tgts, srcs>>
    BY <1>4 DEF CountSrcs
  <1>6. AtPart(BeforeSrcs(call))'
    BY <1>4, <1>5 DEF AtPart
  <1>7. MaxSrcs \in Nat
    BY LimitsAssumption
  <1>8. CASE nsrcs' > MaxSrcs
    <2>1. st' = "BAD_OPERAND" /\ TooMany'
      BY <1>5, <1>8 DEF TooMany
    <2>2. \E k : AtPart(k)'
      BY <1>6
    <2>3. HeadRead'
      BY <1>2, <1>5, HeadKeeps
    <2>4. InBadOperand'
      BY <1>2, <1>5, <2>1, <2>2, <2>3 DEF InBadOperand
    <2> QED BY <1>1, <1>5, <2>4 DEF IInv
  <1>9. CASE ~(nsrcs' > MaxSrcs)
    <2>1. st' = "rmw" /\ nsrcs' <= MaxSrcs
      BY <1>3, <1>5, <1>7, <1>9
    <2>2. TgtsKnown'
      BY <1>2, <1>5, TgtsKnownKeeps
    <2>3. SrcsCounted'
      BY <1>5, <2>1, <2>2 DEF SrcsCounted
    <2>4. InRmw'
      BY <1>2, <1>5, <1>6, <2>1, <2>3 DEF InRmw
    <2> QED BY <1>1, <1>5, <2>4 DEF IInv
  <1> QED BY <1>8, <1>9

LEMMA InSrcsNext ==
  ASSUME NEW q, At(call.srcs, srcs, q)', q >= LeftOut(call),
         AtPart(BeforeSrcs(call) + (q - LeftOut(call)))',
         SrcsCounted', st' = "srcs", UNCHANGED call
  PROVE  InSrcs'
  <1>1. LeftOut(call)' = LeftOut(call)
    OBVIOUS
  <1>2. At(call.srcs, srcs, q)' /\ q >= LeftOut(call)' /\ AtPart(BeforeSrcs(call) + (q - LeftOut(call)))'
    BY <1>1
  <1> HIDE DEF At, AtPart
  <1> QED BY <1>2 DEF InSrcs

LEMMA SrcsBound ==
  ASSUME NEW x \in Nat, NEW y \in Nat, NEW l \in Nat, NEW q \in Nat, (q + 1) - l \in 1 .. y
  PROVE  x + ((q + 1) - l) \in 1 .. x + y /\ q + 1 >= l
  OBVIOUS

LEMMA RmwKeeps ==
  ASSUME IInv, Rmw
  PROVE  IInv'
  <1>1. InRmw /\ call \in Calls
    BY Phase DEF Rmw
  <1>2. /\ SrcsCounted /\ HeadRead /\ AtPart(BeforeSrcs(call)) /\ srcs = <<>>
        /\ tgts = Meanings(call.tgts) /\ ntgts = Len(call.tgts) /\ nsrcs = Len(call.srcs)
    BY <1>1 DEF InRmw, SrcsCounted, TgtsKnown, TgtsCounted
  <1>3. /\ Ready(call) /\ HasSizes(call) /\ m = IsRmw(call)
        /\ GoodOperands(call.tgts) /\ GoodOperands(call.srcs)
    BY <1>2, HeadReady
  <1>4. UNCHANGED <<call, code, ends, pos, op, m, ntgts, nsrcs, tgts>>
    BY DEF Rmw
  <1>5. SrcsCounted'
    BY <1>2, <1>4, SrcsCountedKeeps
  <1>6. ASSUME st' = "srcs", At(call.srcs, srcs', LeftOut(call))
        PROVE  IInv'
    <2> DEFINE l == LeftOut(call)
    <2>1. l \in Nat /\ BeforeSrcs(call) + (l - l) = BeforeSrcs(call)
      BY <1>3 DEF HasSizes
    <2>2. AtPart(BeforeSrcs(call) + (l - l))'
      BY <1>2, <1>4, <2>1 DEF AtPart
    <2>3. At(call.srcs, srcs, l)' /\ l >= l
      BY <1>4, <1>6, <2>1
    <2>5. InSrcs'
      BY <1>4, <1>5, <1>6, <2>2, <2>3, InSrcsNext
    <2> QED BY <1>1, <1>4, <2>5 DEF IInv
  <1>7. CASE ~m
    <2>1. st' = "srcs" /\ srcs' = <<>>
      BY <1>2, <1>7 DEF Rmw
    <2>2. LeftOut(call) = 0
      BY <1>3, <1>7 DEF LeftOut
    <2>3. At(call.srcs, <<>>, 0)
      BY <1>3, AtStart
    <2> QED BY <1>6, <2>1, <2>2, <2>3
  <1>8. CASE m
    <2>1. call.srcs # <<>> /\ call.tgts # <<>> /\ Meaning(call.srcs[1]) = Meaning(call.tgts[1])
      BY <1>3, <1>8, RmwMeans
    <2>2. 1 \in 1 .. Len(call.tgts) /\ Len(call.tgts) \in Nat \ {0} /\ Len(call.srcs) \in Nat \ {0}
      BY <1>3, <2>1, FirstGood
    <2>3. st' = "srcs" /\ srcs' = <<tgts[1]>>
      BY <1>2, <1>8, <2>2 DEF Rmw
    <2>4. tgts[1] = Meaning(call.srcs[1])
      BY <1>2, <1>3, <2>1, <2>2, MeaningsFacts
    <2>5. At(call.srcs, <<Meaning(call.srcs[1])>>, Len(call.srcs[1]))
      BY <1>3, <2>1, AtFirst
    <2>6. LeftOut(call) = Len(call.srcs[1])
      BY <1>3, <1>8 DEF LeftOut
    <2> QED BY <1>6, <2>3, <2>4, <2>5, <2>6
  <1> QED BY <1>7, <1>8

LEMMA ReadSrcKeeps ==
  ASSUME IInv, ReadSrc
  PROVE  IInv'
  <1>1. InSrcs /\ call \in Calls
    BY Phase DEF ReadSrc
  <1>2. SrcsCounted /\ HeadRead /\ nsrcs = Len(call.srcs)
    BY <1>1 DEF InSrcs, SrcsCounted, TgtsKnown, TgtsCounted
  <1>3. PICK q : /\ At(call.srcs, srcs, q) /\ q >= LeftOut(call)
                 /\ AtPart(BeforeSrcs(call) + (q - LeftOut(call)))
    BY <1>1 DEF InSrcs
  <1>4. Encoded /\ HasSizes(call)
    BY <1>2, HeadReady
  <1>5. pos = Place(call, BeforeSrcs(call) + (q - LeftOut(call)))
    BY <1>3 DEF AtPart
  <1>6. ~(Len(srcs) = Len(call.srcs) /\ AllComplete(srcs))
    BY <1>2 DEF ReadSrc
  <1>7. /\ GoodVarint /\ VarintEnd = Place(call, BeforeSrcs(call) + ((q + 1) - LeftOut(call)))
        /\ q \in Nat /\ (q + 1) - LeftOut(call) \in 1 .. Len(SrcParts(call))
        /\ At(call.srcs, Extend(srcs, SrcCell), q + 1)
    BY <1>3, <1>4, <1>5, <1>6, ReadsSrc
  <1>8. /\ srcs' = Extend(srcs, SrcCell)
        /\ pos' = Place(call, BeforeSrcs(call) + ((q + 1) - LeftOut(call))) /\ st' = "srcs"
        /\ UNCHANGED <<call, code, ends, op, m, ntgts, nsrcs, tgts>>
    BY <1>7 DEF ReadSrc
  <1>9. BeforeSrcs(call) + ((q + 1) - LeftOut(call)) \in 1 .. Len(Parts(call)) /\ q + 1 >= LeftOut(call)
    <2>1. /\ BeforeSrcs(call) \in Nat /\ Len(SrcParts(call)) \in Nat /\ LeftOut(call) \in Nat
          /\ Len(Parts(call)) = BeforeSrcs(call) + Len(SrcParts(call))
      BY <1>4 DEF HasSizes
    <2>2. /\ BeforeSrcs(call) + ((q + 1) - LeftOut(call)) \in 1 .. BeforeSrcs(call) + Len(SrcParts(call))
          /\ q + 1 >= LeftOut(call)
      BY <1>7, <2>1, SrcsBound
    <2> QED BY <2>1, <2>2
  <1>10. AtPart(BeforeSrcs(call) + ((q + 1) - LeftOut(call)))'
    BY <1>8, <1>9 DEF AtPart
  <1>11. At(call.srcs, srcs, q + 1)'
    BY <1>7, <1>8
  <1>12. SrcsCounted'
    BY <1>2, <1>8, SrcsCountedKeeps
  <1>13. InSrcs'
    BY <1>8, <1>9, <1>10, <1>11, <1>12, InSrcsNext
  <1> QED BY <1>1, <1>8, <1>13 DEF IInv

LEMMA SrcsReadKeeps ==
  ASSUME IInv, SrcsRead
  PROVE  IInv'
  <1>1. InSrcs /\ call \in Calls
    BY Phase DEF SrcsRead
  <1>2. SrcsCounted /\ HeadRead /\ nsrcs = Len(call.srcs)
    BY <1>1 DEF InSrcs, SrcsCounted, TgtsKnown, TgtsCounted
  <1>3. PICK q : /\ At(call.srcs, srcs, q) /\ q >= LeftOut(call)
                 /\ AtPart(BeforeSrcs(call) + (q - LeftOut(call)))
    BY <1>1 DEF InSrcs
  <1>4. Ready(call) /\ HasSizes(call) /\ GoodOperands(call.srcs)
    BY <1>2, HeadReady
  <1>5. srcs = Meanings(call.srcs) /\ q = Len(FlattenSeq(call.srcs))
    BY <1>2, <1>3, <1>4, AtEnd DEF SrcsRead
  <1>6. q = LeftOut(call) + Len(SrcParts(call))
    <2>1. Len(AllParts(call.srcs, TRUE)) = Len(FlattenSeq(call.srcs))
      BY <1>4, AllPartsFacts
    <2>2. Len(AllParts(call.srcs, TRUE)) = LeftOut(call) + Len(SrcParts(call))
      BY <1>4, SrcPartsFacts
    <2> QED BY <1>5, <2>1, <2>2
  <1>7. BeforeSrcs(call) + (q - LeftOut(call)) = Len(Parts(call))
    BY <1>4, <1>6 DEF HasSizes
  <1>8. st' = "done" /\ UNCHANGED <<call, code, ends, pos, op, m, ntgts, nsrcs, tgts, srcs>>
    BY DEF SrcsRead, decoded
  <1>9. AtPart(Len(Parts(call)))'
    BY <1>3, <1>7, <1>8 DEF AtPart
  <1>10. SrcsCounted'
    BY <1>2, <1>8, SrcsCountedKeeps
  <1>11. InDone'
    BY <1>5, <1>8, <1>9, <1>10 DEF InDone
  <1> QED BY <1>1, <1>8, <1>11 DEF IInv


LEMMA StutterKeeps ==
  ASSUME IInv, UNCHANGED vars
  PROVE  IInv'
  <1> HIDE DEF At
  <1>1. UNCHANGED <<call, code, ends, st, pos, op, m, ntgts, nsrcs, tgts, srcs>>
    BY DEF vars
  <1> QED BY <1>1 DEF IInv, InCall, InBuilt, InAssertion, InOpcode, InTgtCount, InTgts, InSrcCount,
    InRmw, InSrcs, InDone, InBadOperand, Unencoded, Fresh, NoneRefused, IsEncoded, Encoded, AtPart,
    HeadRead, TgtsCounted, TgtsKnown, SrcsCounted, TooMany

LEMMA StepKeeps ==
  ASSUME IInv, [Next]_vars
  PROVE  IInv'
  BY ConstructKeeps, EncodeKeeps, FetchOpcodeKeeps, CountTgtsKeeps, ReadTgtKeeps, TgtsReadKeeps,
     CountSrcsKeeps, RmwKeeps, ReadSrcKeeps, SrcsReadKeeps, StutterKeeps DEF Next

\* The inductive invariant holds: the decoder is always at the end of a part of the
\* encoding and has the meanings of the operands before it.
THEOREM Inductive == Spec => []IInv
  <1>1. Init => IInv
    BY InitHolds
  <1>2. IInv /\ [Next]_vars => IInv'
    BY StepKeeps
  <1> QED BY <1>1, <1>2, PTL DEF Spec

-----------------------------------------------------------------------------
(* What follows from it.                                                   *)

LEMMA WordsHave32Bits ==
  ASSUME NEW ds \in Seq(Seq(WordCell)), NEW c \in CellsOf(ds)
  PROVE  Len(c.v) = 32
  <1>1. PICK j \in DOMAIN ds : c \in {ds[j][k] : k \in DOMAIN ds[j]}
    BY DEF CellsOf
  <1>2. ds[j] \in Seq(WordCell)
    BY <1>1
  <1>3. c \in WordCell
    BY <1>1, <1>2
  <1> QED BY <1>3 DEF WordCell, WordBits

LEMMA DecodedWords ==
  ASSUME IInv
  PROVE  tgts \in Seq(Seq(WordCell)) /\ srcs \in Seq(Seq(WordCell))
  <1>1. <<>> \in Seq(Seq(WordCell))
    OBVIOUS
  <1>2. ASSUME HeadRead PROVE /\ Meanings(call.tgts) \in Seq(Seq(WordCell))
                              /\ Meanings(call.srcs) \in Seq(Seq(WordCell))
    BY <1>2, HeadReady, MeaningsFacts
  <1>3. CASE InCall \/ InBuilt \/ InAssertion \/ InOpcode \/ InTgtCount
    BY <1>1, <1>3 DEF InCall, InBuilt, InAssertion, InOpcode, InTgtCount, Unencoded, Fresh
  <1>4. CASE InTgts
    BY <1>1, <1>4 DEF InTgts, At
  <1>5. CASE InSrcCount \/ InRmw
    BY <1>1, <1>2, <1>5 DEF InSrcCount, InRmw, SrcsCounted, TgtsKnown, TgtsCounted
  <1>6. CASE InSrcs
    BY <1>2, <1>6 DEF InSrcs, At, SrcsCounted, TgtsKnown, TgtsCounted
  <1>7. CASE InDone
    BY <1>2, <1>7 DEF InDone, SrcsCounted, TgtsKnown, TgtsCounted
  <1>8. CASE InBadOperand
    BY <1>1, <1>2, <1>8 DEF InBadOperand
  <1> QED BY <1>3, <1>4, <1>5, <1>6, <1>7, <1>8 DEF IInv

LEMMA NopIsClass == "NOP" \in Classes
  <1>1. 1 \in DOMAIN Numbered /\ Numbered[1] = "NOP"
    BY DEF Numbered
  <1> QED BY <1>1 DEF Classes

\* Where the decoder stands.
LEMMA Positions ==
  ASSUME IInv
  PROVE  /\ Unencoded \/ (IsEncoded /\ (pos = 0 \/ \E k : AtPart(k)))
         /\ op \in Classes /\ m \in BOOLEAN
         /\ st \in Ended \cup {"call", "built", "opcode", "ntgts", "tgts", "nsrcs", "rmw", "srcs"}
         /\ st # "malformed"
  <1>1. ASSUME Fresh PROVE op \in Classes /\ m \in BOOLEAN
    BY <1>1, NopIsClass DEF Fresh
  <1>2. ASSUME HeadRead PROVE op \in Classes /\ m \in BOOLEAN /\ IsEncoded
    BY <1>2, HeadReady DEF HeadRead, IsRmw
  <1>3. CASE InCall \/ InBuilt \/ InAssertion
    BY <1>1, <1>3 DEF InCall, InBuilt, InAssertion, Unencoded, Ended
  <1>4. CASE InOpcode
    BY <1>1, <1>4 DEF InOpcode, Fresh
  <1>5. CASE InTgtCount
    BY <1>2, <1>5 DEF InTgtCount
  <1>6. CASE InTgts
    BY <1>2, <1>6 DEF InTgts, TgtsCounted
  <1>7. CASE InSrcCount \/ InRmw
    BY <1>2, <1>7 DEF InSrcCount, InRmw, SrcsCounted, TgtsKnown, TgtsCounted
  <1>8. CASE InSrcs
    BY <1>2, <1>8 DEF InSrcs, SrcsCounted, TgtsKnown, TgtsCounted
  <1>9. CASE InDone
    BY <1>2, <1>9 DEF InDone, SrcsCounted, TgtsKnown, TgtsCounted, Ended
  <1>10. CASE InBadOperand
    BY <1>2, <1>10 DEF InBadOperand, Ended
  <1> QED BY <1>3, <1>4, <1>5, <1>6, <1>7, <1>8, <1>9, <1>10 DEF IInv

\* The encoder makes bytes and the decoder words of 32 bits, and does not leave the code.
THEOREM TypeCorrect == Spec => []TypeOK
  <1>1. IInv => TypeOK
    <2> SUFFICES ASSUME IInv PROVE TypeOK
      OBVIOUS
    <2>1. \A c \in CellsOf(tgts) \cup CellsOf(srcs) : Len(c.v) = 32
      BY DecodedWords, WordsHave32Bits
    <2>2. /\ \A k \in DOMAIN code : code[k] \in Byte
          /\ pos \in 0 .. Len(code) /\ ends \subseteq 1 .. Len(code)
      <3>1. CASE Unencoded
        BY <3>1 DEF Unencoded, Fresh
      <3>2. CASE IsEncoded /\ (pos = 0 \/ \E k : AtPart(k))
        <4>1. Ready(call) /\ code = FlattenSeq(Parts(call)) /\ ends = {Place(call, k) : k \in 1 .. Len(Parts(call))}
          BY <3>2 DEF IsEncoded, Encoded
        <4>2. code \in Seq(Byte) /\ \A k \in 1 .. Len(Parts(call)) : Place(call, k) \in 1 .. Len(code)
          BY <4>1, PlaceFacts
        <4>3. pos \in 0 .. Len(code)
          BY <3>2, <4>2 DEF AtPart
        <4> QED BY <4>1, <4>2, <4>3
      <3> QED BY <3>1, <3>2, Positions
    <2> QED BY <2>1, <2>2, Positions DEF TypeOK
  <1> QED BY <1>1, Inductive, PTL

\* What Op.encode_for() encodes, bajo_step() decodes to the same operation and operands,
\* whatever the class, the values of the operands, their indirections and their number.
THEOREM OperandsArrive == Spec => []RoundTrip
  <1>1. IInv => RoundTrip
    <2> SUFFICES ASSUME IInv, st = "done" PROVE op = call.op /\ tgts = Meanings(call.tgts) /\ srcs = Meanings(call.srcs)
      BY DEF RoundTrip
    <2> QED BY Phase DEF InDone, SrcsCounted, TgtsKnown, TgtsCounted, HeadRead
  <1> QED BY <1>1, Inductive, PTL

\* The m flag is set exactly if the first source means what the first target does.
THEOREM SharedFirstSource == Spec => []SharedIffSame
  <1>1. IInv => SharedIffSame
    <2> SUFFICES ASSUME IInv, st = "done"
                 PROVE  m <=> /\ call.srcs # <<>> /\ call.tgts # <<>>
                              /\ Meaning(call.srcs[1]) = Meaning(call.tgts[1])
      BY DEF SharedIffSame
    <2>1. HeadRead
      BY Phase DEF InDone, SrcsCounted, TgtsKnown, TgtsCounted
    <2>2. Ready(call) /\ m = IsRmw(call)
      BY <2>1, HeadReady
    <2> QED BY <2>2, RmwMeans
  <1> QED BY <1>1, Inductive, PTL

\* Each read begins where the encoder began a part, and the last one ends at the end.
THEOREM StaysInStep == Spec => []DecoderInStep
  <1>1. IInv => DecoderInStep
    <2> SUFFICES ASSUME IInv PROVE DecoderInStep
      OBVIOUS
    <2>1. ASSUME NEW k, AtPart(k), HeadRead PROVE pos \in ends
      BY <2>1 DEF AtPart, HeadRead, IsEncoded
    <2>2. st = "ntgts" => pos \in ends
      BY <2>1, Phase DEF InTgtCount
    <2>3. st = "tgts" => pos \in ends
      BY <2>1, Phase DEF InTgts, TgtsCounted
    <2>4. st = "nsrcs" => pos \in ends
      BY <2>1, Phase DEF InSrcCount, TgtsKnown, TgtsCounted
    <2>5. st = "rmw" => pos \in ends
      BY <2>1, Phase DEF InRmw, SrcsCounted, TgtsKnown, TgtsCounted
    <2>6. st = "srcs" => pos \in ends
      BY <2>1, Phase DEF InSrcs, SrcsCounted, TgtsKnown, TgtsCounted
    <2>7. ASSUME st = "done" PROVE pos \in ends /\ pos = Len(code)
      <3>1. HeadRead /\ AtPart(Len(Parts(call)))
        BY <2>7, Phase DEF InDone, SrcsCounted, TgtsKnown, TgtsCounted
      <3>2. Ready(call) /\ code = FlattenSeq(Parts(call))
        BY <3>1, HeadReady DEF Encoded
      <3>3. Place(call, Len(Parts(call))) = Len(code)
        BY <3>2, PlaceFacts
      <3> QED BY <2>1, <3>1, <3>3 DEF AtPart
    <2> QED BY <2>2, <2>3, <2>4, <2>5, <2>6, <2>7 DEF DecoderInStep
  <1> QED BY <1>1, Inductive, PTL

\* Only an instruction with too many operands is refused, and each of these is.
THEOREM InstructionsDecode == Spec => []DecodesUnlessTooMany
  <1>1. IInv => DecodesUnlessTooMany
    <2> SUFFICES ASSUME IInv PROVE DecodesUnlessTooMany
      OBVIOUS
    <2>1. st = "BAD_OPERAND" => TooMany
      BY Phase DEF InBadOperand
    <2>2. st = "done" => /\ Signature[call.op].more_tgts => Len(call.tgts) <= MaxTgts
                         /\ Signature[call.op].more_srcs => Len(call.srcs) <= MaxSrcs
      BY Phase DEF InDone, SrcsCounted, TgtsKnown, TgtsCounted
    <2> QED BY <2>1, <2>2, Positions DEF DecodesUnlessTooMany, TooMany
  <1> QED BY <1>1, Inductive, PTL

\* A plain int that is not refused has an encoding.
LEMMA LiteralEncodable ==
  ASSUME NEW c \in Cell, c.mode = "lit", InRange(c.v)
  PROVE  c.v \in Immediate /\ Encodable(c.v) /\ BitLength(c.v.mag) <= 31
  <1>1. c.v \in Immediate
    <2>1. CASE c \in [mode : {"lit", "imm"}, v : Immediate]
      BY <2>1
    <2>2. CASE c \in [mode : {"bool", "mem", "ind"}, v : Seq(Bit)]
      BY <2>2
    <2> QED BY <2>1, <2>2 DEF Cell
  <1>2. BitLength(c.v.mag) \in Nat
    BY <1>1, BitLengthFacts DEF Immediate
  <1>3. BitLength(c.v.mag) <= 31
    BY DEF InRange
  <1> QED BY <1>1, <1>2, <1>3 DEF Encodable

LEMMA CellPlace ==
  ASSUME NEW os \in Seq(Seq(Cell)), NEW x \in CellsOf(os)
  PROVE  \E j \in 1 .. Len(os) : \E k \in DOMAIN os[j] : x = os[j][k] /\ x \in Cell
  <1>1. PICK j \in DOMAIN os : x \in {os[j][k] : k \in DOMAIN os[j]}
    BY DEF CellsOf
  <1>2. j \in 1 .. Len(os) /\ os[j] \in Seq(Cell)
    BY <1>1
  <1>3. PICK k \in DOMAIN os[j] : x = os[j][k]
    BY <1>1
  <1>4. x \in Cell
    BY <1>2, <1>3
  <1> QED BY <1>2, <1>3, <1>4

\* Whatever cannot be encoded is the result of an expression.
LEMMA OnlyExpressionsFail ==
  ASSUME NEW c \in Calls, \A j \in DOMAIN c.srcs : ~Refused(c.srcs[j]), ~AllEncodable(c)
  PROVE  \E x \in CellsOf(c.tgts) \cup CellsOf(c.srcs) : x.mode = "imm" /\ ~Encodable(x.v)
  <1>1. /\ c.tgts \in Seq(Seq(Cell)) /\ c.srcs \in Seq(Seq(Cell))
        /\ \A j \in 1 .. Len(c.tgts) : IsOperand(c.tgts[j]) /\ c.tgts[j][1].mode \in {"mem", "ind"}
        /\ \A j \in 1 .. Len(c.srcs) : IsOperand(c.srcs[j])
    BY CallFacts
  <1>2. PICK x \in CellsOf(c.tgts) \cup CellsOf(c.srcs) : x.mode \in {"lit", "imm"} /\ ~Encodable(x.v)
    BY DEF AllEncodable
  <1> SUFFICES ASSUME x.mode = "lit" PROVE FALSE
    BY <1>2
  <1>3. CASE x \in CellsOf(c.tgts)
    <2>1. PICK j \in 1 .. Len(c.tgts) : \E k \in DOMAIN c.tgts[j] : x = c.tgts[j][k] /\ x \in Cell
      BY <1>1, <1>3, CellPlace
    <2>2. PICK k \in DOMAIN c.tgts[j] : x = c.tgts[j][k] /\ x \in Cell
      BY <2>1
    <2>3. k = 1
      BY <1>1, <2>2 DEF IsOperand
    <2> QED BY <1>1, <2>2, <2>3
  <1>4. CASE x \in CellsOf(c.srcs)
    <2>1. PICK j \in 1 .. Len(c.srcs) : \E k \in DOMAIN c.srcs[j] : x = c.srcs[j][k] /\ x \in Cell
      BY <1>1, <1>4, CellPlace
    <2>2. PICK k \in DOMAIN c.srcs[j] : x = c.srcs[j][k] /\ x \in Cell
      BY <2>1
    <2>3. k = 1
      BY <1>1, <2>2 DEF IsOperand
    <2>4. InRange(x.v)
      BY <1>1, <2>2, <2>3 DEF Refused
    <2> QED BY <1>2, <2>2, <2>4, LiteralEncodable
  <1> QED BY <1>3, <1>4

\* The range that Op.__init__() checks of a plain int lies within what Imm.encode()
\* asserts, and its sign survives.
THEOREM LiteralsAreKept == Spec => []LiteralsArrive
  <1>1. IInv => LiteralsArrive
    <2> SUFFICES ASSUME IInv PROVE LiteralsArrive
      OBVIOUS
    <2>1. ASSUME st = "AssertionError"
          PROVE  \E c \in CellsOf(call.tgts) \cup CellsOf(call.srcs) : c.mode = "imm" /\ ~Encodable(c.v)
      <3>1. call \in Calls /\ NoneRefused /\ ~AllEncodable(call)
        BY <2>1, Phase DEF InAssertion
      <3> QED BY <3>1, OnlyExpressionsFail DEF NoneRefused
    <2>2. ASSUME st = "done", NEW j \in DOMAIN srcs, call.srcs[j][1].mode = "lit"
          PROVE  srcs[j][1].v[32] = 1 <=> call.srcs[j][1].v.neg
      <3> DEFINE c == call.srcs[j][1]
      <3>1. HeadRead /\ srcs = Meanings(call.srcs)
        BY <2>2, Phase DEF InDone, SrcsCounted, TgtsKnown, TgtsCounted
      <3>2. GoodOperands(call.srcs) /\ NoneRefused
        BY <3>1, HeadReady DEF HeadRead, IsEncoded
      <3>3. j \in 1 .. Len(call.srcs) /\ srcs[j] = Meaning(call.srcs[j])
        <4>1. Len(srcs) = Len(call.srcs) /\ DOMAIN srcs = 1 .. Len(srcs)
          BY <3>1, <3>2, MeaningsFacts
        <4> QED BY <2>2, <3>1, <3>2, <4>1, MeaningsFacts
      <3>4. GoodOperand(call.srcs[j]) /\ ~Refused(call.srcs[j])
        <4>1. DOMAIN call.srcs = 1 .. Len(call.srcs)
          BY <3>2 DEF GoodOperands
        <4> QED BY <3>2, <3>3, <4>1 DEF GoodOperands, NoneRefused
      <3>5. srcs[j][1] = MeaningCell(c) /\ c \in Cell
        <4>1. Len(call.srcs[j]) \in Nat \ {0} /\ 1 \in 1 .. Len(call.srcs[j])
          BY <3>4, MeaningFacts
        <4>2. EncodableCell(c)
          BY <3>4, <4>1 DEF GoodOperand
        <4> QED BY <3>3, <3>4, <4>1, <4>2, MeaningFacts DEF EncodableCell
      <3>6. c.mode = "lit" /\ InRange(c.v)
        BY <2>2, <3>4 DEF Refused
      <3> HIDE DEF c
      <3>7. c.v \in Immediate /\ BitLength(c.v.mag) <= 31
        BY <3>5, <3>6, LiteralEncodable
      <3>8. c.v.neg \in BOOLEAN /\ c.v.mag \in Seq(Bit)
        BY <3>7 DEF Immediate
      <3>9. srcs[j][1].v = SignedWord(c.v.neg, c.v.mag)
        BY <3>5, <3>6, MeaningFields DEF Word, SignedWord
      <3>10. srcs[j][1].v[32] = IF c.v.neg THEN 1 ELSE 0
        BY <3>7, <3>8, <3>9, SignedWordFacts
      <3>11. srcs[j][1].v[32] = 1 <=> c.v.neg
        BY <3>8, <3>10
      <3> QED BY <3>11 DEF c
    <2> QED BY <2>1, <2>2 DEF LiteralsArrive
  <1> QED BY <1>1, Inductive, PTL

-----------------------------------------------------------------------------
(* The size of a varint.                                                   *)

LEMMA PowerMonotone ==
  ASSUME NEW i \in Nat, NEW j \in Nat, i <= j
  PROVE  2 ^ i <= 2 ^ j
  <1>1. j - i \in Nat /\ i + (j - i) = j
    OBVIOUS
  <1>2. 2 ^ j = 2 ^ i * 2 ^ (j - i)
    BY <1>1, PowerSum
  <1>3. 2 ^ i \in Nat /\ 2 ^ (j - i) \in Nat /\ 2 ^ (j - i) >= 1
    BY <1>1, PowerPositive
  <1>4. \A x, y \in Nat : y >= 1 => x <= x * y
    OBVIOUS
  <1> QED BY <1>2, <1>3, <1>4

\* The sums of the digits of b stay below the next power and keep the two
\* lowest digits.
SumsOf(f, b) ==
  /\ \A k \in 0 .. 29 : f[k] \in Nat /\ f[k] < 2 ^ k
  /\ \A k \in 0 .. 28 : f[k + 1] = f[k] + BitOf(b, k + 1) * 2 ^ k

LEMMA BitOfType ==
  ASSUME NEW b \in Seq(Bit), NEW k \in Places
  PROVE  BitOf(b, k) \in {0, 1}
  BY DEF BitOf, Bit, Places

LEMMA NumberSums ==
  ASSUME NEW b \in Seq(Bit), BitLength(b) <= 29
  PROVE  \E f : SumsOf(f, b) /\ NumberOf(b) = f[29]
  <1> DEFINE s == Weighed(b)
  <1>1. NumberOf(b) = Total(s)
    BY DEF NumberOf, Weighed
  <1>2. /\ Len(s) = 29
        /\ \A k \in 0 .. 28 : s[k + 1] = BitOf(b, k + 1) * 2 ^ k
        /\ \A k \in 1 .. 29 : s[k] \in Int
    BY WeighedFacts
  <1> HIDE DEF s
  <1>a. Len(s) \in Nat /\ \A k \in 1 .. Len(s) : s[k] \in Int
    BY <1>2
  <1>3. PICK f : Adds(f, s, Len(s))
    BY <1>a, AddsExist
  <1>4. NumberOf(b) = f[29]
    BY <1>1, <1>2, <1>a, <1>3, TotalIs
  <1>5. f[0] = 0 /\ \A k \in 0 .. 28 : f[k + 1] = f[k] + BitOf(b, k + 1) * 2 ^ k
    <2>1. f[0] = 0 /\ \A k \in 0 .. 29 - 1 : f[k + 1] = f[k] + s[k + 1]
      <3>1. Adds(f, s, 29)
        BY <1>2, <1>3
      <3> QED BY <3>1 DEF Adds
    <2>2. 29 - 1 = 28
      OBVIOUS
    <2> QED BY <1>2, <2>1, <2>2
  <1> DEFINE Good == {k \in Nat : k <= 29 => f[k] \in Nat /\ f[k] < 2 ^ k}
  <1>6. 0 \in Good
    <2>1. 2 ^ 0 = 1 /\ 0 \in Nat /\ 0 < 1
      OBVIOUS
    <2>2. f[0] \in Nat /\ f[0] < 2 ^ 0
      BY <1>5, <2>1
    <2> QED BY <2>1, <2>2
  <1>7. ASSUME NEW k \in Nat, k \in Good PROVE k + 1 \in Good
    <2> SUFFICES ASSUME k + 1 <= 29 PROVE f[k + 1] \in Nat /\ f[k + 1] < 2 ^ (k + 1)
      OBVIOUS
    <2>1. k \in 0 .. 28 /\ k + 1 \in Places
      BY DEF Places
    <2>2. f[k] \in Nat /\ f[k] < 2 ^ k
      BY <1>7, <2>1
    <2>3. f[k + 1] = f[k] + BitOf(b, k + 1) * 2 ^ k
      BY <1>5, <2>1
    <2>4. 2 ^ k \in Nat /\ 2 ^ (k + 1) = 2 * 2 ^ k
      BY PowerPositive, PowerNext
    <2>5. BitOf(b, k + 1) \in {0, 1}
      BY <2>1, BitOfType
    <2>6. CASE BitOf(b, k + 1) = 0
      BY <2>2, <2>3, <2>4, <2>6
    <2>7. CASE BitOf(b, k + 1) = 1
      BY <2>2, <2>3, <2>4, <2>7
    <2> QED BY <2>5, <2>6, <2>7
  <1>8. \A k \in Nat : k \in Good
    <2> HIDE DEF Good
    <2> QED BY <1>6, <1>7, SetInduction
  <1>9. SumsOf(f, b)
    <2>1. \A k \in 0 .. 29 : f[k] \in Nat /\ f[k] < 2 ^ k
      <3> TAKE k \in 0 .. 29
      <3>1. k \in Nat /\ k <= 29
        OBVIOUS
      <3> QED BY <1>8, <3>1
    <2> QED BY <1>5, <2>1 DEF SumsOf
  <1> QED BY <1>4, <1>9

LEMMA SumsStay ==
  ASSUME NEW b \in Seq(Bit), NEW f, SumsOf(f, b), BitLength(b) <= 29
  PROVE  f[29] = f[BitLength(b)] /\ BitLength(b) \in 0 .. 29
  <1> DEFINE L == BitLength(b)
             Good == {j \in Nat : L + j <= 29 => f[L + j] = f[L]}
  <1>1. L \in 0 .. 29
    <2>1. BitLength(b) \in Nat /\ BitLength(b) <= 29
      BY BitLengthFacts
    <2>2. L \in Nat /\ L <= 29
      BY <2>1
    <2> HIDE DEF L
    <2> QED BY <2>2
  <1>2. \A k \in Places : k > L => BitOf(b, k) = 0
    BY BitOfAbove
  <1> HIDE DEF L
  <1>3. 0 \in Good
    <2>1. L + 0 = L
      BY <1>1
    <2> QED BY <2>1
  <1>4. ASSUME NEW j \in Nat, j \in Good PROVE j + 1 \in Good
    <2> SUFFICES ASSUME L + (j + 1) <= 29 PROVE f[L + (j + 1)] = f[L]
      OBVIOUS
    <2> DEFINE k == L + j
    <2>1. k \in 0 .. 28 /\ L + (j + 1) = k + 1 /\ k + 1 \in Places /\ k + 1 > L /\ k <= 29
      BY <1>1 DEF Places
    <2>2. f[k] = f[L]
      BY <1>4, <2>1
    <2> HIDE DEF k
    <2>3. f[k + 1] = f[k] + BitOf(b, k + 1) * 2 ^ k
      BY <2>1 DEF SumsOf
    <2>4. BitOf(b, k + 1) = 0
      BY <1>2, <2>1
    <2>5. 2 ^ k \in Nat /\ f[k] \in Nat
      <3>1. k \in Nat /\ k \in 0 .. 29
        BY <2>1
      <3> QED BY <3>1, PowerPositive DEF SumsOf
    <2> QED BY <2>1, <2>2, <2>3, <2>4, <2>5
  <1>5. \A j \in Nat : j \in Good
    <2> HIDE DEF Good
    <2> QED BY <1>3, <1>4, SetInduction
  <1>6. 29 - L \in Nat /\ L + (29 - L) = 29
    BY <1>1
  <1>7. 29 - L \in Good
    <2> HIDE DEF Good
    <2> QED BY <1>5, <1>6
  <1>8. f[29] = f[L]
    BY <1>6, <1>7
  <1> QED BY <1>1, <1>8 DEF L

\* A comparison with a power of two, up to 2^w, tells v from a number of L bits
\* nowhere.
IsLen(v, L, w) == v \in Nat /\ \A k \in 0 .. w : v < 2 ^ k <=> L <= k

LEMMA NumberLength ==
  ASSUME NEW b \in Seq(Bit)
  PROVE  IsLen(NumberOf(b), BitLength(b), 28)
  <1>1. BitLength(b) \in Nat
    BY BitLengthFacts
  <1>2. CASE BitLength(b) > 29
    <2>1. NumberOf(b) = 2 ^ 29
      BY <1>1, <1>2 DEF NumberOf, Huge
    <2>2. 2 ^ 29 \in Nat
      BY PowerPositive
    <2>3. ASSUME NEW k \in 0 .. 28 PROVE 2 ^ k <= 2 ^ 29 /\ 2 ^ k \in Nat
      <3>1. k \in Nat /\ 29 \in Nat /\ k <= 29
        OBVIOUS
      <3> QED BY <3>1, PowerMonotone, PowerPositive
    <2> QED BY <1>1, <1>2, <2>1, <2>2, <2>3 DEF IsLen
  <1>3. CASE BitLength(b) <= 29
    <2>1. PICK f : SumsOf(f, b) /\ NumberOf(b) = f[29]
      BY <1>3, NumberSums
    <2> DEFINE L == BitLength(b)
    <2>2. f[29] = f[L] /\ L \in 0 .. 29
      BY <1>3, <2>1, SumsStay
    <2>3. L # 0 => BitOf(b, L) = 1
      BY BitLengthFacts DEF BitOf
    <2> HIDE DEF L
    <2>4. f[L] \in Nat /\ f[L] < 2 ^ L
      BY <2>1, <2>2 DEF SumsOf
    <2>5. L # 0 => 2 ^ (L - 1) <= f[L]
      <3> SUFFICES ASSUME L # 0 PROVE 2 ^ (L - 1) <= f[L]
        OBVIOUS
      <3>1. L - 1 \in 0 .. 28 /\ (L - 1) + 1 = L
        BY <2>2
      <3>2. f[L] = f[L - 1] + BitOf(b, L) * 2 ^ (L - 1)
        BY <2>1, <3>1, Zenon DEF SumsOf
      <3>3. f[L - 1] \in Nat /\ 2 ^ (L - 1) \in Nat
        <4>1. L - 1 \in 0 .. 29 /\ L - 1 \in Nat
          BY <2>2, <3>1
        <4> QED BY <2>1, <4>1, PowerPositive DEF SumsOf
      <3> QED BY <2>3, <3>2, <3>3
    <2>6. ASSUME NEW k \in 0 .. 28 PROVE f[L] < 2 ^ k <=> L <= k
      <3>1. CASE L <= k
        <4>1. 2 ^ L <= 2 ^ k /\ 2 ^ L \in Nat /\ 2 ^ k \in Nat
          BY <2>2, <3>1, PowerMonotone, PowerPositive
        <4> QED BY <2>4, <3>1, <4>1
      <3>2. CASE L > k
        <4>1. L # 0 /\ L - 1 \in Nat /\ k <= L - 1 /\ k \in Nat
          BY <2>2, <3>2
        <4>2. 2 ^ k <= 2 ^ (L - 1) /\ 2 ^ k \in Nat /\ 2 ^ (L - 1) \in Nat
          BY <4>1, PowerMonotone, PowerPositive
        <4>3. ~(f[L] < 2 ^ k)
          BY <2>4, <2>5, <4>1, <4>2
        <4> QED BY <2>2, <3>2, <4>3
      <3> QED BY <2>2, <3>1, <3>2
    <2> QED BY <2>1, <2>2, <2>4, <2>6 DEF IsLen, L
  <1> QED BY <1>1, <1>2, <1>3

\* The two lowest digits are what is left when b is divided by four.
LEMMA NumberByFour ==
  ASSUME NEW b \in Seq(Bit), BitLength(b) <= 29
  PROVE  \E q \in Nat : NumberOf(b) = 4 * q + BitOf(b, 1) + 2 * BitOf(b, 2)
  <1>1. PICK f : SumsOf(f, b) /\ NumberOf(b) = f[29]
    BY NumberSums
  <1>2. f[0] \in Nat /\ f[0] < 2 ^ 0 /\ 2 ^ 0 = 1
    <2>1. 0 \in 0 .. 29 /\ 2 ^ 0 = 1
      OBVIOUS
    <2> QED BY <1>1, <2>1, Zenon DEF SumsOf
  <1>3. f[0 + 1] = f[0] + BitOf(b, 0 + 1) * 2 ^ 0 /\ f[1 + 1] = f[1] + BitOf(b, 1 + 1) * 2 ^ 1 /\ 2 ^ 1 = 2
    BY <1>1 DEF SumsOf
  <1>4. BitOf(b, 1) \in Nat /\ BitOf(b, 2) \in Nat
    <2>1. 1 \in Places /\ 2 \in Places
      BY DEF Places
    <2>2. BitOf(b, 1) \in {0, 1} /\ BitOf(b, 2) \in {0, 1}
      BY <2>1, BitOfType
    <2> QED BY <2>2
  <1>5. f[2] = BitOf(b, 1) + 2 * BitOf(b, 2)
    BY <1>2, <1>3, <1>4
  <1> DEFINE Good == {j \in Nat : j <= 27 => \E q \in Nat : f[2 + j] = 4 * q + f[2]}
  <1>6. 0 \in Good
    <2>1. f[2 + 0] = 4 * 0 + f[2] /\ 0 \in Nat
      BY <1>4, <1>5
    <2> QED BY <2>1
  <1>7. ASSUME NEW j \in Nat, j \in Good PROVE j + 1 \in Good
    <2> SUFFICES ASSUME j + 1 <= 27 PROVE \E q \in Nat : f[2 + (j + 1)] = 4 * q + f[2]
      OBVIOUS
    <2>1. j <= 27 /\ 2 + j \in 0 .. 28 /\ 2 + (j + 1) = (2 + j) + 1 /\ (2 + j) + 1 \in Places
      BY DEF Places
    <2>2. PICK q \in Nat : f[2 + j] = 4 * q + f[2]
      BY <1>7, <2>1
    <2>3. f[(2 + j) + 1] = f[2 + j] + BitOf(b, (2 + j) + 1) * 2 ^ (2 + j)
      BY <1>1, <2>1 DEF SumsOf
    <2>4. 2 ^ (2 + j) = 4 * 2 ^ j /\ 2 ^ j \in Nat
      <3>1. 2 ^ (2 + j) = 2 ^ 2 * 2 ^ j
        BY PowerSum, Zenon
      <3>2. 2 ^ 2 = 4
        OBVIOUS
      <3> QED BY <3>1, <3>2, PowerPositive
    <2>5. BitOf(b, (2 + j) + 1) \in {0, 1}
      BY <2>1, BitOfType
    <2>6. f[2] \in Nat
      BY <1>4, <1>5
    <2>7. CASE BitOf(b, (2 + j) + 1) = 0
      <3>1. f[2 + (j + 1)] = 4 * q + f[2]
        BY <2>1, <2>2, <2>3, <2>4, <2>6, <2>7
      <3> QED BY <3>1
    <2>8. CASE BitOf(b, (2 + j) + 1) = 1
      <3>1. f[2 + (j + 1)] = 4 * (q + 2 ^ j) + f[2] /\ q + 2 ^ j \in Nat
        BY <2>1, <2>2, <2>3, <2>4, <2>6, <2>8
      <3> QED BY <3>1
    <2> QED BY <2>5, <2>7, <2>8
  <1>8. \A j \in Nat : j \in Good
    <2> HIDE DEF Good
    <2> QED BY <1>6, <1>7, SetInduction
  <1>9. \E q \in Nat : f[2 + 27] = 4 * q + f[2]
    <2>1. 27 \in Good
      <3> HIDE DEF Good
      <3> QED BY <1>8
    <2> QED BY <2>1
  <1>10. PICK q \in Nat : f[29] = 4 * q + f[2]
    BY <1>9
  <1>11. NumberOf(b) = 4 * q + BitOf(b, 1) + 2 * BitOf(b, 2)
    BY <1>1, <1>4, <1>5, <1>10
  <1> QED BY <1>11

LEMMA AlignedBits ==
  ASSUME NEW a \in Seq(Bit)
  PROVE  Aligned(a) <=> BitOf(a, 1) = 0 /\ BitOf(a, 2) = 0
  <1>1. Aligned(a) => BitOf(a, 1) = 0 /\ BitOf(a, 2) = 0
    BY AlignedTail
  <1>2. ASSUME BitOf(a, 1) = 0, BitOf(a, 2) = 0
        PROVE  Aligned(a)
    <2>1. 2 \in Nat /\ \A k \in 1 .. 2 : Low(a, 2)[k] = BitOf(a, k)
      BY BitOfLow
    <2>2. Low(a, 2) \in [1 .. 2 -> Bit]
      BY LowFacts
    <2>3. \A k \in 1 .. 2 : Low(a, 2)[k] = 0
      BY <1>2, <2>1
    <2>4. Low(a, 2) = [k \in 1 .. 2 |-> 0]
      BY <2>2, <2>3
    <2> QED BY <2>4 DEF Aligned, Zeros
  <1> QED BY <1>1, <1>2

\* Whether an address is a multiple of four is told by its lowest bits; an
\* address from Huge on counts as one.
LEMMA NumberAligned ==
  ASSUME NEW a \in Seq(Bit), BitLength(a) <= 29
  PROVE  /\ NumberOf(a) % 4 = 0 <=> Aligned(a)
         /\ Aligned(a) => NumberOf(a) = 4 * (NumberOf(a) \div 4) /\ NumberOf(a) \div 4 \in Nat
  <1>1. PICK q \in Nat : NumberOf(a) = 4 * q + BitOf(a, 1) + 2 * BitOf(a, 2)
    BY NumberByFour
  <1> DEFINE r == BitOf(a, 1) + 2 * BitOf(a, 2)
  <1>2. BitOf(a, 1) \in {0, 1} /\ BitOf(a, 2) \in {0, 1}
    <2>1. 1 \in Places /\ 2 \in Places
      BY DEF Places
    <2> QED BY <2>1, BitOfType
  <1>3. r \in 0 .. 3 /\ (r = 0 <=> BitOf(a, 1) = 0 /\ BitOf(a, 2) = 0) /\ NumberOf(a) = 4 * q + r
    BY <1>1, <1>2
  <1> HIDE DEF r
  <1>4. NumberOf(a) \div 4 = q /\ NumberOf(a) % 4 = r
    <2>1. 4 * q + r \in Int /\ 4 \in Nat \ {0} /\ q \in Int /\ r \in Int /\ 0 <= r /\ r < 4
      BY <1>3
    <2> QED BY <1>3, <2>1, DivModUnique
  <1>5. Aligned(a) <=> r = 0
    BY <1>3, AlignedBits
  <1> QED BY <1>3, <1>4, <1>5

\* Dropping the two lowest bits makes an address two bits shorter.
LEMMA TailLength ==
  ASSUME NEW a \in Seq(Bit), Len(a) <= 32, Aligned(a), NEW k \in Nat
  PROVE  BitLength(AddrTail(a)) <= k <=> BitLength(a) <= k + 2
  <1>1. /\ AddrTail(a) \in Seq(Bit)
        /\ \A j \in Places : BitOf(AddrTail(a), j) = IF j + 2 <= 32 THEN BitOf(a, j + 2) ELSE 0
    BY AlignedTail
  <1>2. BitLength(a) \in Nat /\ BitLength(AddrTail(a)) \in Nat
    BY <1>1, BitLengthFacts
  <1>3. ASSUME BitLength(a) <= k + 2
        PROVE  BitLength(AddrTail(a)) <= k
    <2>1. ASSUME NEW j \in Places, j > k
          PROVE  BitOf(AddrTail(a), j) = 0
      <3>1. j + 2 \in Places /\ j + 2 > BitLength(a)
        BY <1>2, <1>3, <2>1 DEF Places
      <3>2. BitOf(a, j + 2) = 0
        BY <3>1, BitOfAbove
      <3> QED BY <1>1, <3>2
    <2> QED BY <1>1, <2>1, BitOfLength
  <1>4. ASSUME BitLength(AddrTail(a)) <= k
        PROVE  BitLength(a) <= k + 2
    <2>1. ASSUME NEW j \in Places, j > k + 2
          PROVE  BitOf(a, j) = 0
      <3>1. CASE j > 32
        <4>1. ~(j <= Len(a))
          BY <3>1 DEF Places
        <4> QED BY <4>1 DEF BitOf
      <3>2. CASE j <= 32
        <4>1. j - 2 \in Places /\ j - 2 > BitLength(AddrTail(a)) /\ (j - 2) + 2 = j
          BY <1>2, <1>4, <2>1 DEF Places
        <4>2. BitOf(AddrTail(a), j - 2) = 0
          BY <1>1, <4>1, BitOfAbove
        <4>3. BitOf(AddrTail(a), j - 2) = BitOf(a, j)
          BY <1>1, <3>2, <4>1
        <4> QED BY <4>2, <4>3
      <3>3. j \in Int
        BY DEF Places
      <3> QED BY <3>1, <3>2, <3>3
    <2>2. k + 2 \in Nat
      OBVIOUS
    <2> QED BY <2>1, <2>2, BitOfLength
  <1> QED BY <1>3, <1>4

\* The number that an address is encoded as.
TailNumber(n) == IF n % 4 = 0 THEN n \div 4 ELSE n

LEMMA AddressLength ==
  ASSUME NEW a \in Seq(Bit), Len(a) <= 32
  PROVE  IsLen(TailNumber(NumberOf(a)), BitLength(AddrTail(a)), 26)
  <1> DEFINE n == NumberOf(a)
             T == BitLength(AddrTail(a))
  <1>1. IsLen(n, BitLength(a), 28)
    BY NumberLength
  <1>2. BitLength(a) \in Nat /\ AddrTail(a) \in Seq(Bit)
    BY BitLengthFacts, AddrTailFacts
  <1>3. T \in Nat
    BY <1>2, BitLengthFacts
  <1>4. CASE BitLength(a) > 29
    <2>1. n = 2 ^ 29
      BY <1>2, <1>4 DEF NumberOf, Huge
    <2>2. 2 ^ 29 = 4 * 2 ^ 27 /\ 2 ^ 27 \in Nat
      <3>1. 2 ^ (28 + 1) = 2 * 2 ^ 28 /\ 2 ^ (27 + 1) = 2 * 2 ^ 27
        BY PowerNext
      <3>2. 2 ^ 27 \in Nat
        BY PowerPositive
      <3> QED BY <3>1, <3>2
    <2> DEFINE h == 2 ^ 27
    <2>3. TailNumber(n) = h
      <3>1. n = 4 * h + 0 /\ h \in Nat
        BY <2>1, <2>2
      <3> HIDE DEF n, h
      <3>2. n \div 4 = h /\ n % 4 = 0
        BY <3>1, DivModUnique
      <3> QED BY <3>2 DEF TailNumber
    <2>4. ASSUME NEW k \in 0 .. 26 PROVE 2 ^ k <= 2 ^ 27 /\ 2 ^ k \in Nat
      <3>1. k \in Nat /\ 27 \in Nat /\ k <= 27
        OBVIOUS
      <3> QED BY <3>1, PowerMonotone, PowerPositive
    <2>5. ASSUME NEW k \in 0 .. 26 PROVE ~(T <= k)
      <3>1. k \in Nat
        OBVIOUS
      <3>2. CASE Aligned(a)
        <4>1. T <= k <=> BitLength(a) <= k + 2
          BY <3>1, <3>2, TailLength
        <4> HIDE DEF T
        <4> QED BY <1>2, <1>4, <4>1
      <3>3. CASE ~Aligned(a)
        BY <1>2, <1>4, <3>1, <3>3 DEF AddrTail
      <3> QED BY <3>2, <3>3
    <2>6. TailNumber(n) \in Nat
      BY <2>2, <2>3
    <2> HIDE DEF n, T
    <2>7. ASSUME NEW k \in 0 .. 26 PROVE TailNumber(n) < 2 ^ k <=> T <= k
      <3>1. h \in Nat /\ 2 ^ k \in Nat /\ 2 ^ k <= h
        BY <2>2, <2>4
      <3> HIDE DEF h
      <3> DEFINE p == 2 ^ k
      <3>2. h \in Nat /\ p \in Nat /\ p <= h
        BY <3>1
      <3> HIDE DEF p
      <3>3. ~(h < p)
        BY <3>2
      <3> QED BY <2>3, <2>5, <3>3, Zenon DEF p
    <2> QED BY <2>6, <2>7 DEF IsLen, n, T
  <1>5. CASE BitLength(a) <= 29 /\ Aligned(a)
    <2> DEFINE q == n \div 4
    <2>1. n % 4 = 0 /\ n = 4 * q /\ q \in Nat
      BY <1>5, NumberAligned
    <2>2. TailNumber(n) = q
      BY <2>1 DEF TailNumber
    <2>3. \A k \in Nat : T <= k <=> BitLength(a) <= k + 2
      BY <1>5, TailLength
    <2> HIDE DEF q, n, T
    <2>4. ASSUME NEW k \in 0 .. 26 PROVE q < 2 ^ k <=> T <= k
      <3>1. k \in Nat /\ k + 2 \in 0 .. 28 /\ k + 2 = 2 + k
        OBVIOUS
      <3>2. n < 2 ^ (k + 2) <=> BitLength(a) <= k + 2
        BY <1>1, <3>1 DEF IsLen
      <3>3. 2 ^ (k + 2) = 4 * 2 ^ k /\ 2 ^ k \in Nat
        <4>1. 2 ^ (2 + k) = 2 ^ 2 * 2 ^ k
          BY <3>1, PowerSum, Zenon
        <4>2. 2 ^ 2 = 4
          OBVIOUS
        <4> QED BY <3>1, <4>1, <4>2, PowerPositive
      <3>4. n < 4 * 2 ^ k <=> q < 2 ^ k
        BY <2>1, <3>3
      <3>5. T <= k <=> BitLength(a) <= k + 2
        BY <2>3, <3>1
      <3> QED BY <3>2, <3>3, <3>4, <3>5
    <2> QED BY <2>1, <2>2, <2>4 DEF IsLen, n, T
  <1>6. CASE BitLength(a) <= 29 /\ ~Aligned(a)
    <2>1. TailNumber(n) = n
      BY <1>6, NumberAligned DEF TailNumber
    <2>2. T = BitLength(a)
      BY <1>6 DEF AddrTail
    <2> HIDE DEF n, T
    <2>3. \A k \in 0 .. 26 : k \in 0 .. 28
      OBVIOUS
    <2> QED BY <1>1, <2>1, <2>2, <2>3 DEF IsLen, n, T
  <1> QED BY <1>2, <1>4, <1>5, <1>6

\* What x stands in front of is longer by x.
LEMMA PrefixedLength ==
  ASSUME NEW b \in Seq(Bit), NEW x \in Seq(Bit), NEW a \in Seq(Bit), Prefixed(b, x, a)
  PROVE  /\ BitLength(a) # 0 => BitLength(b) = Len(x) + BitLength(a)
         /\ BitLength(a) = 0 => BitLength(b) <= Len(x)
  <1> DEFINE L == Len(x) + BitLength(a)
  <1>1. BitLength(a) \in Nat /\ BitLength(b) \in Nat /\ Len(x) \in Nat /\ L \in Nat
    BY BitLengthFacts
  <1>2. BitLength(b) <= L
    <2>1. ASSUME NEW k \in Places, k > L
          PROVE  BitOf(b, k) = 0
      <3>1. ~(k <= Len(x)) /\ k - Len(x) \in Places /\ k - Len(x) > BitLength(a)
        BY <1>1, <2>1 DEF Places
      <3>2. BitOf(b, k) = BitOf(a, k - Len(x))
        BY <3>1 DEF Prefixed
      <3> QED BY <3>1, <3>2, BitOfAbove
    <2> HIDE DEF L
    <2> QED BY <1>1, <2>1, BitOfLength
  <1>3. ASSUME BitLength(a) # 0
        PROVE  BitLength(b) >= L
    <2>1. L \in Places /\ ~(L <= Len(x)) /\ L - Len(x) = BitLength(a)
      BY <1>1, <1>3 DEF Places
    <2>2. BitOf(a, BitLength(a)) = 1
      BY <1>3, BitLengthFacts DEF BitOf
    <2>3. BitOf(b, L) = 1
      BY <2>1, <2>2 DEF Prefixed
    <2> HIDE DEF L
    <2>4. ~(L > BitLength(b))
      BY <2>1, <2>3, BitOfAbove
    <2> QED BY <1>1, <2>4
  <1> QED BY <1>1, <1>2, <1>3

LEMMA SizeIs ==
  ASSUME NEW B \in 0 .. 35, NEW L \in Nat, NEW mode \in {2, 3}, NEW v, IsLen(v, L, 26),
         L # 0 => B = mode + L, L = 0 => B <= mode
  PROVE  (IF (B + 6) \div 7 = 0 THEN 1 ELSE (B + 6) \div 7) = VarintSize(v, mode)
  <1>1. v < 2 ^ (7 - mode) <=> B <= 7
    <2>1. 7 - mode \in 0 .. 26
      OBVIOUS
    <2>2. v < 2 ^ (7 - mode) <=> L <= 7 - mode
      BY <2>1 DEF IsLen
    <2> QED BY <2>2
  <1>2. v < 2 ^ (14 - mode) <=> B <= 14
    <2>1. 14 - mode \in 0 .. 26
      OBVIOUS
    <2>2. v < 2 ^ (14 - mode) <=> L <= 14 - mode
      BY <2>1 DEF IsLen
    <2> QED BY <2>2
  <1>3. v < 2 ^ (21 - mode) <=> B <= 21
    <2>1. 21 - mode \in 0 .. 26
      OBVIOUS
    <2>2. v < 2 ^ (21 - mode) <=> L <= 21 - mode
      BY <2>1 DEF IsLen
    <2> QED BY <2>2
  <1>4. v < 2 ^ (28 - mode) <=> B <= 28
    <2>1. 28 - mode \in 0 .. 26
      OBVIOUS
    <2>2. v < 2 ^ (28 - mode) <=> L <= 28 - mode
      BY <2>1 DEF IsLen
    <2> QED BY <2>2
  <1>5. VarintSize(v, mode) =
          IF B <= 7 THEN 1 ELSE IF B <= 14 THEN 2 ELSE IF B <= 21 THEN 3 ELSE IF B <= 28 THEN 4 ELSE 5
    BY <1>1, <1>2, <1>3, <1>4, Zenon DEF VarintSize
  <1> QED BY <1>5

LEMMA PrefixedSize ==
  ASSUME NEW b \in Seq(Bit), NEW x \in Seq(Bit), NEW a \in Seq(Bit), Prefixed(b, x, a),
         BitLength(b) <= 35, Len(x) \in {2, 3}, NEW v, IsLen(v, BitLength(a), 26)
  PROVE  NBytes(b) = VarintSize(v, Len(x))
  <1> DEFINE B == BitLength(b)
             L == BitLength(a)
  <1>1. /\ L # 0 => B = Len(x) + L
        /\ L = 0 => B <= Len(x)
    BY PrefixedLength
  <1>2. B \in 0 .. 35 /\ L \in Nat
    <2>1. B \in Nat /\ L \in Nat /\ B <= 35
      BY BitLengthFacts
    <2> HIDE DEF B, L
    <2> QED BY <2>1
  <1>3. NBytes(b) = IF (B + 6) \div 7 = 0 THEN 1 ELSE (B + 6) \div 7
    BY DEF NBytes
  <1>4. IsLen(v, L, 26)
    OBVIOUS
  <1> DEFINE mode == Len(x)
  <1>5. mode \in {2, 3}
    OBVIOUS
  <1> HIDE DEF B, L, mode
  <1>6. (IF (B + 6) \div 7 = 0 THEN 1 ELSE (B + 6) \div 7) = VarintSize(v, mode)
    <2>1. /\ L # 0 => B = mode + L
          /\ L = 0 => B <= mode
      BY <1>1 DEF mode
    <2> QED BY <1>2, <1>4, <1>5, <2>1, SizeIs
  <1> QED BY <1>3, <1>6 DEF mode

\* A cell is as long as it was laid out.
LEMMA ImmediateSize ==
  ASSUME NEW v \in Immediate, Encodable(v)
  PROVE  NBytes(ImmBits(v)) = ImmSize(NumberOf(CastS32(v).mag))
  <1> DEFINE mag == CastS32(v).mag
             x == <<0, SignOf(v)>>
             n == NumberOf(mag)
  <1>1. mag \in Seq(Bit)
    BY CastFacts
  <1>2. /\ ImmBits(v) \in Seq(Bit) /\ BitLength(ImmBits(v)) <= 33
        /\ x \in Seq(Bit) /\ Len(x) = 2 /\ Prefixed(ImmBits(v), x, mag)
    BY ImmBitsFacts
  <1>3. BitLength(ImmBits(v)) <= 35
    <2>1. BitLength(ImmBits(v)) \in Nat
      BY <1>2, BitLengthFacts
    <2> QED BY <1>2, <2>1
  <1> HIDE DEF mag, x
  <1>4. IsLen(n, BitLength(mag), 26) /\ n \in Nat
    <2>1. IsLen(n, BitLength(mag), 28)
      BY <1>1, NumberLength
    <2> HIDE DEF n
    <2>2. \A k \in 0 .. 26 : k \in 0 .. 28
      OBVIOUS
    <2> QED BY <2>1, <2>2 DEF IsLen
  <1> HIDE DEF n
  <1>5. Len(x) \in {2, 3}
    BY <1>2
  <1>6. NBytes(ImmBits(v)) = VarintSize(n, Len(x))
    BY <1>1, <1>2, <1>3, <1>4, <1>5, PrefixedSize
  <1>7. (IF n >= 0 THEN n ELSE -n - 1) = n
    BY <1>4
  <1>8. ImmSize(n) = VarintSize(n, 2)
    BY <1>7, Zenon DEF ImmSize
  <1> QED BY <1>2, <1>6, <1>8 DEF n, mag

LEMMA CellSizeIs ==
  ASSUME NEW c, EncodableCell(c), NEW as_src \in BOOLEAN
  PROVE  Len(EncodeVarint(CellBits(c, as_src))) = CellSize(c, as_src) /\ CellSize(c, as_src) \in 1 .. 5
  <1> DEFINE b == CellBits(c, as_src)
  <1>1. b \in Seq(Bit) /\ BitLength(b) <= 35
    BY CellBitsFacts
  <1>2. Len(EncodeVarint(b)) = NBytes(b) /\ NBytes(b) \in 1 .. 5
    <2> HIDE DEF b
    <2> QED BY <1>1, EncodeVarintFacts, PayloadIs
  <1>3. CASE c.mode \in {"lit", "imm"}
    <2>1. c.v \in Immediate /\ Encodable(c.v)
      BY <1>3, ImmediateCell
    <2>2. b = ImmBits(c.v)
      BY <1>3, ImmediateCellBits
    <2>3. CellSize(c, as_src) = ImmSize(NumberOf(CastS32(c.v).mag))
      BY <1>3 DEF CellSize
    <2> HIDE DEF b
    <2>4. NBytes(b) = CellSize(c, as_src)
      BY <2>1, <2>2, <2>3, ImmediateSize
    <2> QED BY <1>2, <2>4 DEF b
  <1>4. CASE c.mode \in {"mem", "ind"}
    <2> DEFINE a == c.v
               x == MemPrefix(a, IndBit(c), as_src)
               v == TailNumber(NumberOf(a))
    <2>1. a \in Seq(Bit) /\ Len(a) <= 32
      BY <1>4, AddressCell
    <2>2. x \in Seq(Bit) /\ Len(x) = (IF as_src THEN 3 ELSE 2) /\ Prefixed(b, x, AddrTail(a))
      BY <1>4, AddressCellBits
    <2>3. c.mode \notin {"lit", "imm"}
      BY <1>4
    <2>4. CellSize(c, as_src) = VarintSize(v, IF as_src THEN 3 ELSE 2)
      BY <2>3, Zenon DEF CellSize, MemSize, TailNumber
    <2> HIDE DEF a, b, x
    <2>5. AddrTail(a) \in Seq(Bit) /\ IsLen(v, BitLength(AddrTail(a)), 26)
      BY <2>1, AddrTailFacts, AddressLength
    <2>6. Len(x) \in {2, 3}
      BY <2>2
    <2> HIDE DEF v
    <2>7. NBytes(b) = VarintSize(v, Len(x))
      BY <1>1, <2>2, <2>5, <2>6, PrefixedSize
    <2>8. NBytes(b) = CellSize(c, as_src)
      BY <2>2, <2>4, <2>7
    <2> QED BY <1>2, <2>8 DEF b
  <1> QED BY <1>3, <1>4 DEF EncodableCell

LEMMA CountSize ==
  ASSUME NEW n \in 0 .. Huge - 1
  PROVE  Len(EncodeVarint(ImmBits(CountCell(n)))) = ImmSize(n) /\ ImmSize(n) \in 1 .. 5
  <1> DEFINE v == CountCell(n)
             b == ImmBits(v)
  <1>1. v \in Immediate /\ Encodable(v) /\ CastS32(v) = v /\ b \in Seq(Bit) /\ BitLength(b) <= 35
    BY CountFacts
  <1>2. v.mag = Bits(n, 29)
    BY DEF CountCell
  <1>3. n \in Nat /\ 29 \in Nat
    <2>1. Huge \in Nat
      BY PowerPositive DEF Huge
    <2> QED BY <2>1
  <1>4. NumberOf(v.mag) = n
    <2>1. Bits(n, 29) \in Seq(Bit)
      BY <1>3, BitsFacts
    <2>2. SameBits(Bits(n, 29), Bits(n, 29))
      BY DEF SameBits
    <2> HIDE DEF v
    <2> QED BY <1>2, <2>1, <2>2, CountReads
  <1> HIDE DEF v
  <1>5. NBytes(b) = ImmSize(n)
    <2>1. NBytes(b) = ImmSize(NumberOf(CastS32(v).mag))
      BY <1>1, ImmediateSize
    <2> QED BY <1>1, <1>4, <2>1
  <1> HIDE DEF b
  <1>6. Len(EncodeVarint(b)) = NBytes(b) /\ NBytes(b) \in 1 .. 5
    BY <1>1, EncodeVarintFacts, PayloadIs
  <1> QED BY <1>5, <1>6 DEF b, v

-----------------------------------------------------------------------------
(* The size of an instruction.                                             *)

Bytes(P) == Len(FlattenSeq(P))

LEMMA BytesAddUp ==
  ASSUME NEW X, NEW s \in Seq(Seq(X)), NEW z, Len(z) = Len(s), \A k \in 1 .. Len(s) : z[k] = Len(s[k])
  PROVE  Total(z) = Bytes(s)
  <1> DEFINE f == [j \in 0 .. Len(s) |-> Len(Upto(s, j))]
  <1>1. /\ Len(Upto(s, 0)) = 0
        /\ \A j \in 0 .. Len(s) : Len(Upto(s, j)) \in Nat
        /\ \A j \in 0 .. Len(s) - 1 : Len(Upto(s, j + 1)) = Len(Upto(s, j)) + Len(s[j + 1])
        /\ Len(Upto(s, Len(s))) = Bytes(s)
    BY UptoLen DEF Bytes
  <1>2. Len(s) \in Nat
    OBVIOUS
  <1>3. f \in [0 .. Len(s) -> Int]
    <2>1. \A j \in 0 .. Len(s) : Len(Upto(s, j)) \in Int
      BY <1>1
    <2> QED BY <2>1
  <1>4. f[0] = 0
    BY <1>1, <1>2
  <1>5. ASSUME NEW j \in 0 .. Len(s) - 1 PROVE f[j + 1] = f[j] + z[j + 1]
    <2>1. j \in 0 .. Len(s) /\ j + 1 \in 0 .. Len(s) /\ j + 1 \in 1 .. Len(s)
      BY <1>2
    <2>2. f[j] = Len(Upto(s, j)) /\ f[j + 1] = Len(Upto(s, j + 1)) /\ z[j + 1] = Len(s[j + 1])
      BY <2>1
    <2> QED BY <1>1, <2>2
  <1>6. f[Len(s)] = Bytes(s)
    BY <1>1, <1>2
  <1> HIDE DEF f
  <1>7. Len(z) \in Nat /\ Adds(f, z, Len(z))
    BY <1>2, <1>3, <1>4, <1>5 DEF Adds
  <1>8. Total(z) = f[Len(z)]
    BY <1>7, TotalIs
  <1> QED BY <1>6, <1>8

LEMMA BytesConcat ==
  ASSUME NEW X, NEW a \in Seq(Seq(X)), NEW b \in Seq(Seq(X))
  PROVE  /\ Bytes(a \o b) = Bytes(a) + Bytes(b) /\ a \o b \in Seq(Seq(X))
         /\ Bytes(a) \in Nat /\ Bytes(b) \in Nat
  <1> DEFINE s == a \o b
             n == Len(a)
  <1>1. IsConcat(s, a, b, Seq(X))
    BY TwoParts
  <1>2. n \in Nat /\ Len(b) \in Nat /\ Len(s) = n + Len(b) /\ s \in Seq(Seq(X))
    BY <1>1 DEF IsConcat
  <1>3. SubSeq(s, 1, n) = a
    OBVIOUS
  <1> HIDE DEF s
  <1>4. Upto(s, n) = FlattenSeq(a)
    BY <1>3 DEF Upto
  <1>5. \A j \in 1 .. Len(b) : s[n + j] = b[j]
    BY <1>1 DEF IsConcat
  <1> HIDE DEF n
  <1>6. /\ \A j \in 0 .. Len(s) : Len(Upto(s, j)) \in Nat
        /\ \A j \in 0 .. Len(s) - 1 : Len(Upto(s, j + 1)) = Len(Upto(s, j)) + Len(s[j + 1])
        /\ Len(Upto(s, Len(s))) = Bytes(s)
    BY <1>2, UptoLen DEF Bytes
  <1>7. /\ Len(Upto(b, 0)) = 0
        /\ \A j \in 0 .. Len(b) : Len(Upto(b, j)) \in Nat
        /\ \A j \in 0 .. Len(b) - 1 : Len(Upto(b, j + 1)) = Len(Upto(b, j)) + Len(b[j + 1])
        /\ Len(Upto(b, Len(b))) = Bytes(b)
    BY UptoLen DEF Bytes
  <1>8. Bytes(a) \in Nat /\ Len(Upto(s, n)) = Bytes(a)
    <2>1. n \in 0 .. Len(s)
      BY <1>2
    <2> QED BY <1>4, <1>6, <2>1 DEF Bytes
  <1> DEFINE Good == {j \in Nat : j <= Len(b) => Len(Upto(s, n + j)) = Bytes(a) + Len(Upto(b, j))}
  <1>9. 0 \in Good
    <2>1. n + 0 = n
      BY <1>2
    <2> QED BY <1>7, <1>8, <2>1
  <1>10. ASSUME NEW j \in Nat, j \in Good PROVE j + 1 \in Good
    <2> SUFFICES ASSUME j + 1 <= Len(b)
                 PROVE  Len(Upto(s, n + (j + 1))) = Bytes(a) + Len(Upto(b, j + 1))
      OBVIOUS
    <2>1. /\ j <= Len(b) /\ n + j \in 0 .. Len(s) - 1 /\ n + (j + 1) = (n + j) + 1
          /\ j \in 0 .. Len(b) - 1 /\ j + 1 \in 1 .. Len(b) /\ j \in 0 .. Len(b)
      BY <1>2
    <2>2. Len(Upto(s, n + j)) = Bytes(a) + Len(Upto(b, j))
      BY <1>10, <2>1
    <2>3. Len(Upto(s, (n + j) + 1)) = Len(Upto(s, n + j)) + Len(s[(n + j) + 1])
      BY <1>6, <2>1
    <2>4. Len(Upto(b, j + 1)) = Len(Upto(b, j)) + Len(b[j + 1])
      BY <1>7, <2>1
    <2>5. s[(n + j) + 1] = b[j + 1]
      BY <1>5, <2>1
    <2>6. Len(b[j + 1]) \in Nat /\ Len(Upto(b, j)) \in Nat
      <3>1. b[j + 1] \in Seq(X)
        BY <2>1
      <3> QED BY <1>7, <2>1, <3>1
    <2>7. Len(Upto(s, (n + j) + 1)) = (Bytes(a) + Len(Upto(b, j))) + Len(b[j + 1])
      BY <2>2, <2>3, <2>5, Zenon
    <2>8. Len(Upto(s, (n + j) + 1)) = Bytes(a) + Len(Upto(b, j + 1))
      <3> DEFINE x == Len(Upto(b, j))
                 y == Len(b[j + 1])
      <3>1. x \in Nat /\ y \in Nat /\ Bytes(a) \in Nat
        BY <1>8, <2>6
      <3> HIDE DEF x, y
      <3>2. (Bytes(a) + x) + y = Bytes(a) + (x + y)
        BY <3>1
      <3> QED BY <2>4, <2>7, <3>2 DEF x, y
    <2> QED BY <2>1, <2>8, Zenon
  <1>11. \A j \in Nat : j \in Good
    <2> HIDE DEF Good
    <2> QED BY <1>9, <1>10, SetInduction
  <1>12. Len(Upto(s, n + Len(b))) = Bytes(a) + Len(Upto(b, Len(b)))
    BY <1>2, <1>11
  <1>13. Len(b) \in 0 .. Len(b)
    BY <1>2
  <1> QED BY <1>2, <1>6, <1>7, <1>8, <1>12, <1>13 DEF s

\* The parts of the first j operands, counted in bytes.
LEMMA BytesUpto ==
  ASSUME NEW X, NEW S \in Seq(Seq(Seq(X)))
  PROVE  /\ Bytes(Upto(S, 0)) = 0
         /\ \A j \in 0 .. Len(S) : Bytes(Upto(S, j)) \in Nat
         /\ \A j \in 0 .. Len(S) - 1 : Bytes(Upto(S, j + 1)) = Bytes(Upto(S, j)) + Bytes(S[j + 1])
         /\ Bytes(Upto(S, Len(S))) = Bytes(FlattenSeq(S))
  <1>1. /\ Upto(S, 0) = <<>>
        /\ \A j \in 0 .. Len(S) : Upto(S, j) \in Seq(Seq(X))
        /\ \A j \in 0 .. Len(S) - 1 : Upto(S, j + 1) = Upto(S, j) \o S[j + 1]
        /\ Upto(S, Len(S)) = FlattenSeq(S)
    BY UptoFacts
  <1>2. Bytes(<<>>) = 0
    <2> DEFINE e == <<>>
    <2>1. e \in Seq(Seq(X)) /\ Len(e) = 0
      OBVIOUS
    <2> HIDE DEF e
    <2>2. Len(Upto(e, 0)) = 0 /\ Len(Upto(e, Len(e))) = Len(FlattenSeq(e))
      BY <2>1, UptoLen
    <2>3. Bytes(e) = 0
      BY <2>1, <2>2 DEF Bytes
    <2> QED BY <2>3 DEF e
  <1>3. ASSUME NEW j \in 0 .. Len(S) - 1
        PROVE  Bytes(Upto(S, j + 1)) = Bytes(Upto(S, j)) + Bytes(S[j + 1])
    <2>1. j \in 0 .. Len(S) /\ j + 1 \in 1 .. Len(S)
      OBVIOUS
    <2>2. Upto(S, j) \in Seq(Seq(X)) /\ S[j + 1] \in Seq(Seq(X))
      BY <1>1, <2>1
    <2>3. Upto(S, j + 1) = Upto(S, j) \o S[j + 1]
      BY <1>1
    <2> QED BY <2>2, <2>3, BytesConcat
  <1>4. ASSUME NEW j \in 0 .. Len(S)
        PROVE  Bytes(Upto(S, j)) \in Nat
    <2>1. Upto(S, j) \in Seq(Seq(X))
      BY <1>1
    <2> QED BY <2>1, BytesConcat
  <1> QED BY <1>1, <1>2, <1>3, <1>4

\* A sequence of parts of at most five bytes.
LEMMA BytesAtMost ==
  ASSUME NEW X, NEW s \in Seq(Seq(X)), \A k \in 1 .. Len(s) : Len(s[k]) <= 5
  PROVE  Bytes(s) <= 5 * Len(s)
  <1>1. /\ Len(Upto(s, 0)) = 0
        /\ \A j \in 0 .. Len(s) : Len(Upto(s, j)) \in Nat
        /\ \A j \in 0 .. Len(s) - 1 : Len(Upto(s, j + 1)) = Len(Upto(s, j)) + Len(s[j + 1])
        /\ Len(Upto(s, Len(s))) = Bytes(s)
    BY UptoLen DEF Bytes
  <1>2. Len(s) \in Nat
    OBVIOUS
  <1> DEFINE Good == {j \in Nat : j <= Len(s) => Len(Upto(s, j)) <= 5 * j}
  <1>3. 0 \in Good
    BY <1>1
  <1>4. ASSUME NEW j \in Nat, j \in Good PROVE j + 1 \in Good
    <2> SUFFICES ASSUME j + 1 <= Len(s) PROVE Len(Upto(s, j + 1)) <= 5 * (j + 1)
      OBVIOUS
    <2>1. j \in 0 .. Len(s) - 1 /\ j \in 0 .. Len(s) /\ j + 1 \in 1 .. Len(s)
      BY <1>2
    <2>2. Len(Upto(s, j)) <= 5 * j /\ Len(Upto(s, j)) \in Nat
      BY <1>1, <1>2, <1>4, <2>1
    <2>3. Len(s[j + 1]) <= 5 /\ Len(s[j + 1]) \in Nat
      <3>1. s[j + 1] \in Seq(X)
        BY <2>1
      <3> QED BY <2>1, <3>1
    <2>4. Len(Upto(s, j + 1)) = Len(Upto(s, j)) + Len(s[j + 1])
      BY <1>1, <2>1
    <2> QED BY <2>2, <2>3, <2>4
  <1>5. \A j \in Nat : j \in Good
    <2> HIDE DEF Good
    <2> QED BY <1>3, <1>4, SetInduction
  <1> QED BY <1>1, <1>2, <1>5

LEMMA OperandBytes ==
  ASSUME NEW o, GoodOperand(o), NEW as_src \in BOOLEAN
  PROVE  /\ Bytes(OperandParts(o, as_src)) = OperandSize(o, as_src)
         /\ OperandParts(o, as_src) \in Seq(Seq(Byte)) /\ Len(OperandParts(o, as_src)) = Len(o)
         /\ Bytes(OperandParts(o, as_src)) <= 5 * Len(o)
  <1> DEFINE P == OperandParts(o, as_src)
             z == [k \in DOMAIN o |-> CellSize(o[k], as_src \/ k > 1)]
  <1>1. /\ P \in Seq(Seq(Byte)) /\ Len(P) = Len(o)
        /\ \A k \in 1 .. Len(o) : P[k] = EncodeVarint(CellBits(o[k], as_src \/ k > 1))
    BY OperandPartsFacts
  <1>2. OperandSize(o, as_src) = Total(z)
    BY DEF OperandSize
  <1>3. o \in Seq(Cell) /\ \A k \in 1 .. Len(o) : EncodableCell(o[k])
    BY DEF GoodOperand
  <1>4. DOMAIN o = 1 .. Len(o) /\ Len(o) \in Nat
    BY <1>3
  <1>5. ASSUME NEW k \in 1 .. Len(o)
        PROVE  z[k] = Len(P[k]) /\ z[k] \in 1 .. 5
    <2>1. z[k] = CellSize(o[k], as_src \/ k > 1)
      BY <1>4
    <2>2. (as_src \/ k > 1) \in BOOLEAN
      OBVIOUS
    <2>3. Len(EncodeVarint(CellBits(o[k], as_src \/ k > 1))) = CellSize(o[k], as_src \/ k > 1)
          /\ CellSize(o[k], as_src \/ k > 1) \in 1 .. 5
      BY <1>3, <2>2, CellSizeIs
    <2> HIDE DEF P, z
    <2> QED BY <1>1, <2>1, <2>3
  <1>6. Len(z) = Len(o)
    <2>1. z \in [1 .. Len(o) -> Int]
      <3>1. \A k \in 1 .. Len(o) : z[k] \in Int
        <4> TAKE k \in 1 .. Len(o)
        <4>1. z[k] \in 1 .. 5
          BY <1>5
        <4> HIDE DEF z
        <4> QED BY <4>1
      <3>2. z = [k \in 1 .. Len(o) |-> z[k]]
        BY <1>4
      <3> HIDE DEF z
      <3> QED BY <3>1, <3>2
    <2> HIDE DEF z
    <2> QED BY <1>4, <2>1, TupleIsSeq
  <1> HIDE DEF P, z
  <1>7. \A k \in 1 .. Len(P) : z[k] = Len(P[k]) /\ Len(P[k]) <= 5
    <2> TAKE k \in 1 .. Len(P)
    <2>1. k \in 1 .. Len(o)
      BY <1>1
    <2>2. z[k] = Len(P[k]) /\ z[k] \in 1 .. 5
      BY <1>5, <2>1
    <2>3. \A x \in 1 .. 5 : x <= 5
      OBVIOUS
    <2> QED BY <2>2, <2>3, Zenon
  <1>8. Total(z) = Bytes(P)
    BY <1>1, <1>6, <1>7, BytesAddUp
  <1>9. Bytes(P) <= 5 * Len(P)
    BY <1>1, <1>7, BytesAtMost
  <1> QED BY <1>1, <1>2, <1>8, <1>9 DEF P

LEMMA OperandsBytes ==
  ASSUME NEW os, GoodOperands(os), NEW as_src \in BOOLEAN
  PROVE  /\ Bytes(AllParts(os, as_src)) = OperandSizes(os, as_src)
         /\ Bytes(AllParts(os, as_src)) <= 5 * Varints(os) /\ Varints(os) \in Nat
  <1> DEFINE S == PartsOf(os, as_src)
             z == [j \in DOMAIN os |-> OperandSize(os[j], as_src)]
             f == [j \in 0 .. Len(os) |-> Bytes(Upto(S, j))]
  <1>1. /\ S \in Seq(Seq(Seq(Byte))) /\ Len(S) = Len(os)
        /\ \A j \in 1 .. Len(os) : S[j] = OperandParts(os[j], as_src)
        /\ AllParts(os, as_src) = FlattenSeq(S)
        /\ \A j \in 0 .. Len(os) : Len(Upto(S, j)) = Len(Upto(os, j))
    BY AllPartsFacts
  <1>2. os \in Seq(Seq(Cell)) /\ \A j \in 1 .. Len(os) : GoodOperand(os[j])
    BY DEF GoodOperands
  <1>3. DOMAIN os = 1 .. Len(os) /\ Len(os) \in Nat
    BY <1>2
  <1> HIDE DEF S
  <1>4. /\ Bytes(Upto(S, 0)) = 0
        /\ \A j \in 0 .. Len(os) : Bytes(Upto(S, j)) \in Nat
        /\ \A j \in 0 .. Len(os) - 1 : Bytes(Upto(S, j + 1)) = Bytes(Upto(S, j)) + Bytes(S[j + 1])
        /\ Bytes(Upto(S, Len(os))) = Bytes(FlattenSeq(S))
    BY <1>1, BytesUpto
  <1>5. ASSUME NEW j \in 1 .. Len(os)
        PROVE  z[j] = Bytes(S[j]) /\ Bytes(S[j]) <= 5 * Len(S[j]) /\ z[j] \in Nat
    <2>1. z[j] = OperandSize(os[j], as_src)
      BY <1>3
    <2>2. GoodOperand(os[j])
      BY <1>2
    <2> HIDE DEF z
    <2>3. S[j] = OperandParts(os[j], as_src)
      BY <1>1
    <2>4. S[j] \in Seq(Seq(Byte)) /\ z[j] = Bytes(S[j]) /\ Bytes(S[j]) <= 5 * Len(S[j])
      BY <2>1, <2>2, <2>3, OperandBytes
    <2> QED BY <2>4, BytesConcat
  <1>6. Len(z) = Len(os)
    <2>1. z \in [1 .. Len(os) -> Int]
      <3>1. \A j \in 1 .. Len(os) : z[j] \in Int
        BY <1>5
      <3>2. z = [j \in 1 .. Len(os) |-> z[j]]
        BY <1>3
      <3> HIDE DEF z
      <3> QED BY <3>1, <3>2
    <2> HIDE DEF z
    <2> QED BY <1>3, <2>1, TupleIsSeq
  <1>7. OperandSizes(os, as_src) = Total(z)
    BY DEF OperandSizes
  <1> HIDE DEF z
  <1>8. f \in [0 .. Len(os) -> Int] /\ f[0] = 0
    <2>1. \A j \in 0 .. Len(os) : Bytes(Upto(S, j)) \in Int
      BY <1>4
    <2>2. 0 \in 0 .. Len(os)
      BY <1>3
    <2> QED BY <1>4, <2>1, <2>2
  <1>9. ASSUME NEW j \in 0 .. Len(os) - 1 PROVE f[j + 1] = f[j] + z[j + 1]
    <2>1. j \in 0 .. Len(os) /\ j + 1 \in 0 .. Len(os) /\ j + 1 \in 1 .. Len(os)
      BY <1>3
    <2>2. f[j] = Bytes(Upto(S, j)) /\ f[j + 1] = Bytes(Upto(S, j + 1)) /\ z[j + 1] = Bytes(S[j + 1])
      BY <1>5, <2>1
    <2> QED BY <1>4, <2>2
  <1>10. f[Len(os)] = Bytes(FlattenSeq(S))
    <2>1. Len(os) \in 0 .. Len(os)
      BY <1>3
    <2> QED BY <1>4, <2>1
  <1> HIDE DEF f
  <1>11. Total(z) = Bytes(FlattenSeq(S))
    <2>1. Len(z) \in Nat /\ Adds(f, z, Len(z))
      BY <1>3, <1>6, <1>8, <1>9 DEF Adds
    <2>2. Total(z) = f[Len(z)]
      BY <2>1, TotalIs
    <2> QED BY <1>6, <1>10, <2>2
  <1> DEFINE Good == {j \in Nat : j <= Len(os) => Bytes(Upto(S, j)) <= 5 * Len(Upto(os, j))}
  <1>12. /\ Len(Upto(os, 0)) = 0
         /\ \A j \in 0 .. Len(os) : Len(Upto(os, j)) \in Nat
         /\ \A j \in 0 .. Len(os) - 1 : Len(Upto(os, j + 1)) = Len(Upto(os, j)) + Len(os[j + 1])
         /\ Len(Upto(os, Len(os))) = Varints(os)
    BY <1>2, UptoLen DEF Varints
  <1>13. 0 \in Good
    BY <1>4, <1>12
  <1>14. ASSUME NEW j \in Nat, j \in Good PROVE j + 1 \in Good
    <2> SUFFICES ASSUME j + 1 <= Len(os)
                 PROVE  Bytes(Upto(S, j + 1)) <= 5 * Len(Upto(os, j + 1))
      OBVIOUS
    <2>1. j <= Len(os) /\ j \in 0 .. Len(os) - 1 /\ j \in 0 .. Len(os) /\ j + 1 \in 1 .. Len(os)
      BY <1>3
    <2> DEFINE x == Bytes(Upto(S, j))
               y == Len(Upto(os, j))
               u == Bytes(S[j + 1])
               v == Len(os[j + 1])
    <2>2. x <= 5 * y /\ x \in Nat /\ y \in Nat
      BY <1>4, <1>12, <1>14, <2>1
    <2>3. Bytes(Upto(S, j + 1)) = x + u /\ Len(Upto(os, j + 1)) = y + v
      BY <1>4, <1>12, <2>1
    <2>4. u \in Nat /\ v \in Nat /\ u <= 5 * v
      <3>1. GoodOperand(os[j + 1]) /\ S[j + 1] = OperandParts(os[j + 1], as_src)
        BY <1>1, <1>2, <2>1
      <3>2. S[j + 1] \in Seq(Seq(Byte)) /\ u <= 5 * v
        BY <3>1, OperandBytes
      <3>3. os[j + 1] \in Seq(Cell)
        BY <3>1 DEF GoodOperand
      <3> QED BY <3>2, <3>3, BytesConcat
    <2> HIDE DEF x, y, u, v
    <2>5. x + u <= 5 * (y + v)
      BY <2>2, <2>4
    <2> QED BY <2>3, <2>5
  <1>15. \A j \in Nat : j \in Good
    <2> HIDE DEF Good
    <2> QED BY <1>13, <1>14, SetInduction
  <1>16. Bytes(FlattenSeq(S)) <= 5 * Varints(os) /\ Varints(os) \in Nat
    <2>1. Len(os) \in 0 .. Len(os) /\ Len(os) \in Nat
      BY <1>3
    <2>2. Bytes(Upto(S, Len(os))) <= 5 * Len(Upto(os, Len(os)))
      BY <1>15, <2>1
    <2>3. Len(Upto(os, Len(os))) \in Nat
      BY <1>12, <2>1
    <2> QED BY <1>4, <1>12, <2>2, <2>3
  <1> QED BY <1>1, <1>7, <1>11, <1>16

\* What the operand that is left out saves.
Saved(c) == IF IsRmw(c) THEN OperandSize(c.srcs[1], TRUE) ELSE 0

LEMMA SrcBytes ==
  ASSUME NEW c, Ready(c)
  PROVE  /\ Bytes(SrcParts(c)) = OperandSizes(c.srcs, TRUE) - Saved(c)
         /\ Bytes(SrcParts(c)) <= 5 * Varints(c.srcs) /\ Varints(c.srcs) \in Nat
         /\ Bytes(SrcParts(c)) \in Nat /\ OperandSizes(c.srcs, TRUE) \in Nat /\ Saved(c) \in Nat
  <1> DEFINE os == c.srcs
  <1>1. GoodOperands(os)
    BY DEF Ready
  <1>2. TRUE \in BOOLEAN
    OBVIOUS
  <1> HIDE DEF os
  <1>3. /\ Bytes(AllParts(os, TRUE)) = OperandSizes(os, TRUE)
        /\ Bytes(AllParts(os, TRUE)) <= 5 * Varints(os) /\ Varints(os) \in Nat
    BY <1>1, <1>2, OperandsBytes
  <1>4. AllParts(os, TRUE) \in Seq(Seq(Byte))
    BY <1>1, <1>2, AllPartsFacts
  <1>5. Bytes(AllParts(os, TRUE)) \in Nat
    BY <1>4, BytesConcat
  <1>6. /\ OperandSizes(os, TRUE) = Saved(c) + Bytes(SrcParts(c))
        /\ Saved(c) \in Nat /\ Bytes(SrcParts(c)) \in Nat
    <2>1. CASE IsRmw(c)
      <3>1. os # <<>>
        BY <2>1 DEF IsRmw, os
      <3> DEFINE A == OperandParts(os[1], TRUE)
                 B == AllParts(Tail(os), TRUE)
      <3>2. AllParts(os, TRUE) = A \o B /\ GoodOperands(Tail(os))
        BY <1>1, <3>1, TailParts
      <3>3. GoodOperand(os[1])
        BY <1>1, <3>1, FirstGood
      <3>4. Bytes(A) = OperandSize(os[1], TRUE) /\ A \in Seq(Seq(Byte))
        BY <1>2, <3>3, OperandBytes
      <3>5. B \in Seq(Seq(Byte))
        BY <1>2, <3>2, AllPartsFacts
      <3>6. SrcParts(c) = B
        BY <2>1 DEF SrcParts, os
      <3>7. Saved(c) = OperandSize(os[1], TRUE)
        BY <2>1 DEF Saved, os
      <3> HIDE DEF A, B
      <3>8. Bytes(A \o B) = Bytes(A) + Bytes(B) /\ Bytes(A) \in Nat /\ Bytes(B) \in Nat
        BY <3>4, <3>5, BytesConcat
      <3> QED BY <1>3, <3>2, <3>4, <3>6, <3>7, <3>8
    <2>2. CASE ~IsRmw(c)
      <3>1. SrcParts(c) = AllParts(os, TRUE) /\ Saved(c) = 0
        BY <2>2 DEF SrcParts, Saved, os
      <3>2. OperandSizes(os, TRUE) \in Nat
        BY <1>3, <1>5, Zenon
      <3>3. Bytes(SrcParts(c)) = OperandSizes(os, TRUE)
        BY <1>3, <3>1, Zenon
      <3>4. \A n \in Nat : n = 0 + n
        OBVIOUS
      <3>5. 0 \in Nat
        OBVIOUS
      <3> QED BY <3>1, <3>2, <3>3, <3>4, <3>5, Zenon
    <2> QED BY <2>1, <2>2
  <1> DEFINE x == OperandSizes(os, TRUE)
             y == Bytes(SrcParts(c))
             s == Saved(c)
             v == Varints(os)
  <1>7. x = s + y /\ s \in Nat /\ y \in Nat /\ x <= 5 * v /\ v \in Nat
    BY <1>3, <1>6
  <1> HIDE DEF x, y, s, v
  <1>8. y = x - s /\ y <= 5 * v /\ v \in Nat /\ y \in Nat /\ x \in Nat /\ s \in Nat
    BY <1>7
  <1> QED BY <1>8 DEF x, y, s, v, os

\* The size of a count, if there is one.
Counted(more, n) == IF more THEN ImmSize(n) ELSE 0

LEMMA CountBytes ==
  ASSUME NEW more, NEW n \in 0 .. Huge - 1
  PROVE  /\ CountParts(more, n) \in Seq(Seq(Byte))
         /\ Bytes(CountParts(more, n)) = Counted(more, n)
         /\ Counted(more, n) \in Nat /\ Counted(more, n) <= 5 * (IF more THEN 1 ELSE 0)
  <1> DEFINE P == CountParts(more, n)
  <1>1. P \in Seq(Seq(Byte))
    BY CountPartsFacts
  <1>2. Len(Upto(P, 0)) = 0 /\ Len(Upto(P, Len(P))) = Bytes(P)
        /\ \A j \in 0 .. Len(P) - 1 : Len(Upto(P, j + 1)) = Len(Upto(P, j)) + Len(P[j + 1])
    <2> HIDE DEF P
    <2> QED BY <1>1, UptoLen DEF Bytes
  <1>3. CASE more
    <2>1. Len(P) = 1 /\ P[1] = EncodeVarint(ImmBits(CountCell(n)))
      BY <1>3, CountPartsFacts
    <2>2. Len(P[1]) = ImmSize(n) /\ ImmSize(n) \in 1 .. 5
      <3> HIDE DEF P
      <3> QED BY <2>1, CountSize
    <2> HIDE DEF P
    <2>3. 0 \in 0 .. Len(P) - 1 /\ 0 + 1 = 1
      BY <2>1
    <2>4. Bytes(P) = 0 + ImmSize(n)
      BY <1>2, <2>1, <2>2, <2>3
    <2>5. Counted(more, n) = ImmSize(n) /\ (IF more THEN 1 ELSE 0) = 1
      BY <1>3 DEF Counted
    <2> QED BY <1>1, <2>2, <2>4, <2>5 DEF P
  <1>4. CASE ~more
    <2>1. Len(P) = 0
      BY <1>4, CountPartsFacts
    <2>2. Counted(more, n) = 0 /\ (IF more THEN 1 ELSE 0) = 0
      BY <1>4 DEF Counted
    <2> HIDE DEF P
    <2>3. Bytes(P) = 0
      BY <1>2, <2>1
    <2> QED BY <1>1, <2>2, <2>3 DEF P
  <1> QED BY <1>3, <1>4

LEMMA HeadBytes ==
  ASSUME NEW c, Ready(c)
  PROVE  <<HeadPart(c)>> \in Seq(Seq(Byte)) /\ Bytes(<<HeadPart(c)>>) = 1
  <1> DEFINE P == <<HeadPart(c)>>
  <1>1. HeadPart(c) \in Seq(Byte) /\ Len(HeadPart(c)) = 1
    BY HeadFacts
  <1>2. P \in Seq(Seq(Byte)) /\ Len(P) = 1 /\ P[1] = HeadPart(c)
    BY <1>1
  <1> HIDE DEF P
  <1>3. Len(Upto(P, 0)) = 0 /\ Len(Upto(P, Len(P))) = Bytes(P)
        /\ \A j \in 0 .. Len(P) - 1 : Len(Upto(P, j + 1)) = Len(Upto(P, j)) + Len(P[j + 1])
    BY <1>2, UptoLen DEF Bytes
  <1>4. 0 \in 0 .. Len(P) - 1 /\ 0 + 1 = 1
    BY <1>2
  <1>5. Bytes(P) = 0 + 1
    BY <1>1, <1>2, <1>3, <1>4
  <1> QED BY <1>2, <1>5 DEF P

LEMMA FiveBytes ==
  ASSUME NEW X, NEW a \in Seq(Seq(X)), NEW b \in Seq(Seq(X)), NEW c \in Seq(Seq(X)),
         NEW d \in Seq(Seq(X)), NEW e \in Seq(Seq(X))
  PROVE  Bytes(a \o b \o c \o d \o e) = Bytes(a) + Bytes(b) + Bytes(c) + Bytes(d) + Bytes(e)
  <1>1. a \o b \in Seq(Seq(X)) /\ Bytes(a \o b) = Bytes(a) + Bytes(b)
    BY BytesConcat
  <1>2. a \o b \o c \in Seq(Seq(X)) /\ Bytes(a \o b \o c) = Bytes(a \o b) + Bytes(c)
    BY <1>1, BytesConcat
  <1>3. a \o b \o c \o d \in Seq(Seq(X)) /\ Bytes(a \o b \o c \o d) = Bytes(a \o b \o c) + Bytes(d)
    BY <1>2, BytesConcat
  <1>4. Bytes(a \o b \o c \o d \o e) = Bytes(a \o b \o c \o d) + Bytes(e)
    BY <1>3, BytesConcat
  <1> QED BY <1>1, <1>2, <1>3, <1>4, Zenon

\* What stands for an operand or a count takes five bytes at the most.
LEMMA PartsBytes ==
  ASSUME NEW c, Ready(c)
  PROVE  Bytes(Parts(c)) = LaidOutSize(c) /\ Bytes(Parts(c)) <= MaxSize(c)
  <1> DEFINE mt == Signature[c.op].more_tgts
             ms == Signature[c.op].more_srcs
             nt == Len(c.tgts)
             ns == Len(c.srcs)
             P == Bytes(TgtCount(c))
             Q == Bytes(TgtParts(c))
             R == Bytes(SrcCount(c))
             U == Bytes(SrcParts(c))
             QS == OperandSizes(c.tgts, FALSE)
             US == OperandSizes(c.srcs, TRUE)
             S == Saved(c)
             vt == Varints(c.tgts)
             vs == Varints(c.srcs)
             it == IF mt THEN 1 ELSE 0
             is == IF ms THEN 1 ELSE 0
  <1>1. GoodOperands(c.tgts) /\ FALSE \in BOOLEAN /\ nt \in 0 .. Huge - 1 /\ ns \in 0 .. Huge - 1
    BY DEF Ready
  <1>2. <<HeadPart(c)>> \in Seq(Seq(Byte)) /\ Bytes(<<HeadPart(c)>>) = 1
    BY HeadBytes
  <1>3. TgtCount(c) \in Seq(Seq(Byte)) /\ P = Counted(mt, nt) /\ P \in Nat /\ P <= 5 * it
    <2> HIDE DEF mt, nt
    <2> QED BY <1>1, CountBytes DEF TgtCount, mt, nt
  <1>4. SrcCount(c) \in Seq(Seq(Byte)) /\ R = Counted(ms, ns) /\ R \in Nat /\ R <= 5 * is
    <2> HIDE DEF ms, ns
    <2> QED BY <1>1, CountBytes DEF SrcCount, ms, ns
  <1>5. TgtParts(c) \in Seq(Seq(Byte)) /\ Q = QS /\ Q <= 5 * vt /\ vt \in Nat
    BY <1>1, AllPartsFacts, OperandsBytes DEF TgtParts
  <1>6. Q \in Nat
    BY <1>5, BytesConcat
  <1>7. SrcParts(c) \in Seq(Seq(Byte))
    BY SrcPartsFacts
  <1>8. U = US - S /\ U <= 5 * vs /\ vs \in Nat /\ U \in Nat /\ US \in Nat /\ S \in Nat
    BY SrcBytes
  <1>9. Parts(c) = <<HeadPart(c)>> \o TgtCount(c) \o TgtParts(c) \o SrcCount(c) \o SrcParts(c)
    BY DEF Parts, HeadPart, TgtCount, TgtParts, SrcCount, SrcParts
  <1>10. Bytes(Parts(c)) = 1 + P + Q + R + U
    <2> DEFINE a == <<HeadPart(c)>>
               b == TgtCount(c)
               d == TgtParts(c)
               e == SrcCount(c)
               f == SrcParts(c)
    <2>1. Bytes(a \o b \o d \o e \o f) = Bytes(a) + Bytes(b) + Bytes(d) + Bytes(e) + Bytes(f)
      <3>1. {a, b, d, e, f} \subseteq Seq(Seq(Byte))
        BY <1>2, <1>3, <1>4, <1>5, <1>7
      <3> HIDE DEF a, b, d, e, f
      <3> QED BY <3>1, FiveBytes
    <2> QED BY <1>2, <1>9, <2>1, Zenon
  <1>11. LaidOutSize(c) = 1 + QS + US - S + P + R
    <2>1. LaidOutSize(c) = 1 + QS + US - S + Counted(mt, nt) + Counted(ms, ns)
      BY Zenon DEF LaidOutSize, Saved, Counted
    <2> QED BY <1>3, <1>4, <2>1, Zenon
  <1>12. MaxSize(c) = 1 + 5 * (vt + vs + it + is)
    BY Zenon DEF MaxSize, MaxVarintSize
  <1>13. it \in Nat /\ is \in Nat
    OBVIOUS
  <1> HIDE DEF mt, ms, nt, ns, P, Q, R, U, QS, US, S, vt, vs, it, is
  <1>14. 1 + P + Q + R + U = 1 + QS + US - S + P + R
    BY <1>3, <1>4, <1>5, <1>6, <1>8
  <1>15. 1 + P + Q + R + U <= 1 + 5 * (vt + vs + it + is)
    BY <1>3, <1>4, <1>5, <1>6, <1>8, <1>13
  <1> QED BY <1>10, <1>11, <1>12, <1>14, <1>15

\* An instruction has the size that the layout engine computes for it, and no
\* more than max_size(), whatever its operands and however many: the addresses
\* that layout() found are the places of the code.
THEOREM SizesAsLaidOut == Spec => []SizeAsLaidOut
  <1>1. ASSUME IInv
        PROVE  SizeAsLaidOut
    <2> SUFFICES ASSUME code # <<>>
                 PROVE  Len(code) = LaidOutSize(call) /\ Len(code) <= MaxSize(call)
      BY DEF SizeAsLaidOut
    <2>1. Encoded
      BY <1>1, Positions DEF Unencoded, IsEncoded
    <2>2. Len(code) = Bytes(Parts(call))
      BY <2>1 DEF Encoded, Bytes
    <2> QED BY <2>1, <2>2, PartsBytes DEF Encoded
  <1> QED BY <1>1, Inductive, PTL
====
