----------------------------- MODULE WordProofs -----------------------------
(***************************************************************************)
(* Facts about words, bits and memory for every width of a byte, and the   *)
(* induction they and the proofs of the interpreter need.  Induction is    *)
(* done on sets, from the smallest number outside of one: a predicate is   *)
(* written as the set of the numbers it holds for.                         *)
(***************************************************************************)
EXTENDS Alu, FiniteSetTheorems, WellFoundedInduction, TLAPS

-----------------------------------------------------------------------------
(* Induction and recursion.                                                *)

\* Every set of naturals that is not empty has a smallest element.
LEMMA LeastOf ==
  ASSUME NEW T, T \subseteq Nat, T # {}
  PROVE  \E m \in T : \A k \in T : m <= k
  <1> DEFINE R == {p \in Nat \X Nat : p[1] < p[2]}
  <1>1. IsWellFoundedOn(R, Nat)
    BY NatLessThanWellFounded DEF OpToRel
  <1>2. PICK m \in T : \A k \in T : ~ (<<k, m>> \in R)
    <2> HIDE DEF R
    <2> QED BY <1>1, WFMin
  <1>3. \A k \in T : ~ (k < m)
    BY <1>2
  <1> QED BY <1>3

\* Induction: a set with 0 and with the successor of each of its naturals.
LEMMA SetInduction ==
  ASSUME NEW S, 0 \in S, \A n \in Nat : n \in S => n + 1 \in S
  PROVE  \A n \in Nat : n \in S
  <1> SUFFICES ASSUME Nat \ S # {} PROVE FALSE
    OBVIOUS
  <1>1. PICK m \in Nat \ S : \A k \in Nat \ S : m <= k
    BY LeastOf
  <1>2. m # 0
    BY <1>1
  <1>3. m - 1 \in Nat /\ m - 1 \in S
    BY <1>1, <1>2
  <1>4. (m - 1) + 1 = m
    BY <1>1
  <1> QED BY <1>1, <1>3, <1>4

\* The first n + 1 values of a function given by its first value and the
\* step h from one value to the next.
Unrolled(S, a, h, n) ==
  {f \in [0 .. n -> S] : f[0] = a /\ \A i \in 0 .. n - 1 : f[i + 1] = h[<<f[i], i + 1>>]}

LEMMA UnrolledExists ==
  ASSUME NEW S, NEW a \in S, NEW h \in [S \X Nat -> S]
  PROVE  \A n \in Nat : Unrolled(S, a, h, n) # {}
  <1> DEFINE Good == {n \in Nat : Unrolled(S, a, h, n) # {}}
  <1>1. 0 \in Good
    <2>1. [i \in 0 .. 0 |-> a] \in Unrolled(S, a, h, 0)
      BY DEF Unrolled
    <2> QED BY <2>1
  <1>2. ASSUME NEW n \in Nat, n \in Good PROVE n + 1 \in Good
    <2>1. PICK f : f \in Unrolled(S, a, h, n)
      BY <1>2
    <2>2. /\ f \in [0 .. n -> S] /\ f[0] = a
          /\ \A i \in 0 .. n - 1 : f[i + 1] = h[<<f[i], i + 1>>]
      BY <2>1 DEF Unrolled
    <2> DEFINE v == h[<<f[n], n + 1>>]
               g == [i \in 0 .. n + 1 |-> IF i = n + 1 THEN v ELSE f[i]]
    <2>3. f[n] \in S /\ v \in S
      BY <2>2
    <2>4. g \in [0 .. n + 1 -> S]
      <3> HIDE DEF v
      <3> QED BY <2>2, <2>3
    <2>5. g[0] = a
      BY <2>2
    <2>6. ASSUME NEW i \in 0 .. (n + 1) - 1
          PROVE  g[i + 1] = h[<<g[i], i + 1>>]
      <3>1. CASE i = n
        <4>1. g[n] = f[n] /\ g[n + 1] = v
          <5> HIDE DEF v
          <5> QED OBVIOUS
        <4> HIDE DEF g
        <4> QED BY <3>1, <4>1
      <3>2. CASE i # n
        <4>1. i \in 0 .. n - 1 /\ g[i] = f[i] /\ g[i + 1] = f[i + 1]
          BY <3>2
        <4> QED BY <4>1, <2>2
      <3> QED BY <3>1, <3>2
    <2>7. g \in Unrolled(S, a, h, n + 1)
      <3> HIDE DEF g
      <3> QED BY <2>4, <2>5, <2>6 DEF Unrolled
    <2> QED BY <2>7
  <1>3. \A n \in Nat : n \in Good
    <2> HIDE DEF Good
    <2> QED BY <1>1, <1>2, SetInduction
  <1> QED BY <1>3

LEMMA UnrolledAgree ==
  ASSUME NEW S, NEW a, NEW h, NEW m \in Nat, NEW n \in Nat, m <= n,
         NEW f \in Unrolled(S, a, h, m), NEW g \in Unrolled(S, a, h, n)
  PROVE  \A i \in 0 .. m : f[i] = g[i]
  <1> DEFINE Same == {i \in Nat : i <= m => f[i] = g[i]}
  <1>1. 0 \in Same
    BY DEF Unrolled
  <1>2. ASSUME NEW i \in Nat, i \in Same PROVE i + 1 \in Same
    <2> SUFFICES ASSUME i + 1 <= m PROVE f[i + 1] = g[i + 1]
      OBVIOUS
    <2>1. f[i] = g[i] /\ i \in 0 .. m - 1 /\ i \in 0 .. n - 1
      BY <1>2
    <2>2. f[i + 1] = h[<<f[i], i + 1>>] /\ g[i + 1] = h[<<g[i], i + 1>>]
      BY <2>1 DEF Unrolled
    <2> QED BY <2>1, <2>2
  <1>3. \A i \in Nat : i \in Same
    <2> HIDE DEF Same
    <2> QED BY <1>1, <1>2, SetInduction
  <1> QED BY <1>3

\* Primitive recursion: there is a function with a given first value and a
\* given step.
Recursive(S, a, h) ==
  {f \in [Nat -> S] : f[0] = a /\ \A i \in Nat : f[i + 1] = h[<<f[i], i + 1>>]}

LEMMA Recursion ==
  ASSUME NEW S, NEW a \in S, NEW h \in [S \X Nat -> S]
  PROVE  Recursive(S, a, h) # {}
  <1> DEFINE U(n) == CHOOSE f : f \in Unrolled(S, a, h, n)
             F == [n \in Nat |-> U(n)[n]]
  <1>1. \A n \in Nat : U(n) \in Unrolled(S, a, h, n)
    BY UnrolledExists
  <1> HIDE DEF U
  <1>2. F \in [Nat -> S]
    BY <1>1 DEF Unrolled
  <1>3. F[0] = a
    BY <1>1 DEF Unrolled
  <1>4. ASSUME NEW i \in Nat PROVE F[i + 1] = h[<<F[i], i + 1>>]
    <2>1. U(i + 1) \in Unrolled(S, a, h, i + 1) /\ U(i) \in Unrolled(S, a, h, i)
      BY <1>1
    <2>2. U(i + 1)[i + 1] = h[<<U(i + 1)[i], i + 1>>]
      BY <2>1 DEF Unrolled
    <2>3. U(i)[i] = U(i + 1)[i]
      <3>1. \A j \in 0 .. i : U(i)[j] = U(i + 1)[j]
        BY <2>1, UnrolledAgree, i <= i + 1, i + 1 \in Nat
      <3> QED BY <3>1
    <2> QED BY <2>2, <2>3
  <1> HIDE DEF F
  <1>5. F \in Recursive(S, a, h)
    BY <1>2, <1>3, <1>4 DEF Recursive
  <1> QED BY <1>5

-----------------------------------------------------------------------------
(* Powers of two.  The provers know nothing of 2 ^ n for a variable n but  *)
(* that it counts the subsets of a set of n elements.                      *)

LEMMA PowerIsCount ==
  ASSUME NEW n \in Nat
  PROVE  IsFiniteSet(SUBSET (1 .. n)) /\ Cardinality(SUBSET (1 .. n)) = 2 ^ n
  <1>1. IsFiniteSet(1 .. n) /\ Cardinality(1 .. n) = n
    <2>1. /\ IsFiniteSet(1 .. n)
          /\ Cardinality(1 .. n) = IF 1 > n THEN 0 ELSE n - 1 + 1
      BY FS_Interval
    <2> QED BY <2>1
  <1> QED BY <1>1, FS_SUBSET

LEMMA PowerInNat ==
  ASSUME NEW n \in Nat
  PROVE  2 ^ n \in Nat
  BY PowerIsCount, FS_CardinalityType

\* The subsets of 1 .. n + 1 are those of 1 .. n without and with n + 1.
LEMMA PowerNext ==
  ASSUME NEW n \in Nat
  PROVE  2 ^ (n + 1) = 2 * 2 ^ n
  <1> DEFINE A == SUBSET (1 .. n)
             With == {T \cup {n + 1} : T \in A}
  <1>1. SUBSET (1 .. n + 1) = A \cup With
    <2>1. ASSUME NEW T \in SUBSET (1 .. n + 1), T \notin A PROVE T \in With
      <3>1. n + 1 \in T
        BY <2>1
      <3>2. T \ {n + 1} \in A
        OBVIOUS
      <3>3. T = (T \ {n + 1}) \cup {n + 1}
        BY <3>1
      <3> QED BY <3>2, <3>3
    <2>2. A \subseteq SUBSET (1 .. n + 1)
      OBVIOUS
    <2>3. ASSUME NEW T \in A PROVE T \cup {n + 1} \in SUBSET (1 .. n + 1)
      OBVIOUS
    <2>4. \A T \in With : T \in SUBSET (1 .. n + 1)
      BY <2>3
    <2> HIDE DEF A, With
    <2> QED BY <2>1, <2>2, <2>4
  <1>2. A \cap With = {}
    <2> SUFFICES ASSUME NEW T \in A, NEW U \in A, T = U \cup {n + 1} PROVE FALSE
      OBVIOUS
    <2>1. n + 1 \in T
      OBVIOUS
    <2> QED BY <2>1
  <1>3. ExistsBijection(A, With)
    <2> DEFINE f == [T \in A |-> T \cup {n + 1}]
    <2>1. f \in [A -> With]
      OBVIOUS
    <2>2. ASSUME NEW T \in A, NEW U \in A, f[T] = f[U] PROVE T = U
      <3>1. n + 1 \notin T /\ n + 1 \notin U
        OBVIOUS
      <3>2. T \cup {n + 1} = U \cup {n + 1}
        BY <2>2
      <3> QED BY <3>1, <3>2
    <2>3. f \in Injection(A, With)
      BY <2>1, <2>2 DEF Injection, IsInjective
    <2>4. f \in Surjection(A, With)
      BY <2>1 DEF Surjection
    <2> QED BY <2>3, <2>4 DEF Bijection, ExistsBijection
  <1>4. IsFiniteSet(A) /\ Cardinality(A) = 2 ^ n
    BY PowerIsCount
  <1>5. Cardinality(A \cup With) = 2 ^ (n + 1)
    BY <1>1, PowerIsCount, n + 1 \in Nat
  <1> HIDE DEF A, With
  <1>6. IsFiniteSet(With) /\ Cardinality(With) = 2 ^ n
    BY <1>3, <1>4, FS_Bijection
  <1>7. Cardinality(A \cap With) = 0
    BY <1>2, FS_EmptySet
  <1>8. Cardinality(A \cup With) = Cardinality(A) + Cardinality(With) - Cardinality(A \cap With)
    BY <1>4, <1>6, FS_Union
  <1> QED BY <1>4, <1>5, <1>6, <1>7, <1>8, PowerInNat

LEMMA PowerPositive ==
  \A n \in Nat : 2 ^ n \in Nat /\ 2 ^ n >= 1
  <1> DEFINE Good == {n \in Nat : 2 ^ n >= 1}
  <1>1. 0 \in Good
    OBVIOUS
  <1>2. ASSUME NEW n \in Nat, n \in Good PROVE n + 1 \in Good
    BY <1>2, PowerNext, PowerInNat
  <1>3. \A n \in Nat : n \in Good
    <2> HIDE DEF Good
    <2> QED BY <1>1, <1>2, SetInduction
  <1> QED BY <1>3, PowerInNat

LEMMA PowerSum ==
  ASSUME NEW m \in Nat
  PROVE  \A n \in Nat : 2 ^ (m + n) = 2 ^ m * 2 ^ n
  <1> DEFINE Good == {n \in Nat : 2 ^ (m + n) = 2 ^ m * 2 ^ n}
  <1>1. 0 \in Good
    BY PowerInNat
  <1>2. ASSUME NEW n \in Nat, n \in Good PROVE n + 1 \in Good
    <2>1. m + (n + 1) = (m + n) + 1 /\ m + n \in Nat
      OBVIOUS
    <2>2. 2 ^ (m + (n + 1)) = 2 * 2 ^ (m + n)
      BY <2>1, PowerNext
    <2>3. 2 ^ (n + 1) = 2 * 2 ^ n /\ 2 ^ (m + n) = 2 ^ m * 2 ^ n
      BY <1>2, PowerNext
    <2>4. \A a, b \in Nat : 2 * (a * b) = a * (2 * b)
      OBVIOUS
    <2> QED BY <2>2, <2>3, <2>4, PowerInNat
  <1>3. \A n \in Nat : n \in Good
    <2> HIDE DEF Good
    <2> QED BY <1>1, <1>2, SetInduction
  <1> QED BY <1>3

-----------------------------------------------------------------------------
(* Division by a divisor the provers do not know.                          *)

LEMMA DivMod ==
  ASSUME NEW a \in Int, NEW n \in Nat \ {0}
  PROVE  /\ a \div n \in Int /\ a % n \in Int
         /\ a = n * (a \div n) + (a % n)
         /\ 0 <= a % n /\ a % n < n
  OBVIOUS

\* A quotient is the only number with a remainder in range.
LEMMA DivModUnique ==
  ASSUME NEW a \in Int, NEW n \in Nat \ {0}, NEW q \in Int, NEW r \in Int,
         a = n * q + r, 0 <= r, r < n
  PROVE  a \div n = q /\ a % n = r
  <1> DEFINE p == a \div n
             s == a % n
  <1>1. p \in Int /\ s \in Int /\ a = n * p + s /\ 0 <= s /\ s < n
    BY DivMod
  <1> HIDE DEF p, s
  <1>2. n * (p - q) = r - s
    BY <1>1
  <1>3. p = q
    <2>1. CASE p > q
      <3>1. n * (p - q) >= n
        BY <2>1, <1>1
      <3> QED BY <3>1, <1>1, <1>2
    <2>2. CASE p < q
      <3>1. n * (p - q) <= -n
        BY <2>2, <1>1
      <3> QED BY <3>1, <1>1, <1>2
    <2> QED BY <2>1, <2>2, <1>1
  <1> QED BY <1>1, <1>2, <1>3 DEF p, s

LEMMA DivNat ==
  ASSUME NEW a \in Nat, NEW n \in Nat \ {0}
  PROVE  a \div n \in Nat /\ a \div n <= a
  <1> DEFINE q == a \div n
  <1>1. q \in Int /\ a % n \in Int /\ a = n * q + (a % n) /\ 0 <= a % n /\ a % n < n
    BY DivMod
  <1> HIDE DEF q
  <1>2. q >= 0
    <2> SUFFICES ASSUME q <= -1 PROVE FALSE
      BY <1>1
    <2>1. n * q <= -n
      BY <1>1
    <2> QED BY <2>1, <1>1
  <1>3. n * q >= q
    BY <1>1, <1>2
  <1> QED BY <1>1, <1>2, <1>3 DEF q

-----------------------------------------------------------------------------
(* Words and bytes.                                                        *)

Half == 2 ^ (WordBits - 1)

LEMMA WidthFacts ==
  /\ Half \in Nat /\ Half >= 1
  /\ Values(4) = 2 * Half /\ Values(4) \div 2 = Half
  /\ IntMax = Half - 1 /\ IntMin = -Half
  <1>1. WordBits - 1 \in Nat /\ (WordBits - 1) + 1 = WordBits
    BY ByteBitsAssumption DEF WordBits
  <1>2. Half \in Nat /\ Half >= 1 /\ 2 ^ WordBits = 2 * Half
    <2>1. 2 ^ ((WordBits - 1) + 1) = 2 * 2 ^ (WordBits - 1)
      BY <1>1, PowerNext
    <2> QED BY <1>1, <2>1, PowerPositive DEF Half
  <1>3. Values(4) = 2 ^ WordBits
    BY DEF Values, WordBits
  <1> QED BY <1>2, <1>3 DEF IntMax, IntMin, Half

\* More bytes have more values, and no byte count is without one.
LEMMA ValuesFacts ==
  ASSUME NEW n \in Nat
  PROVE  Values(n) \in Nat /\ Values(n) >= 1
  <1>1. ByteBits * n \in Nat
    BY ByteBitsAssumption
  <1> QED BY <1>1, PowerPositive DEF Values

LEMMA ValuesSum ==
  ASSUME NEW m \in Nat, NEW n \in Nat
  PROVE  Values(m + n) = Values(m) * Values(n)
  <1>1. ByteBits * m \in Nat /\ ByteBits * n \in Nat
        /\ ByteBits * (m + n) = ByteBits * m + ByteBits * n
    BY ByteBitsAssumption
  <1> QED BY <1>1, PowerSum DEF Values

LEMMA ByteValues ==
  /\ Values(1) \in Nat /\ Values(1) >= 2
  /\ Values(1) <= Values(2) /\ Values(2) <= Values(4)
  /\ Values(2) \in Nat /\ Values(2) >= 4
  /\ Values(4) \in Nat /\ Values(4) >= 2 * Values(2)
  <1>1. Values(1) \in Nat /\ Values(1) >= 2
    <2>1. ByteBits - 1 \in Nat /\ (ByteBits - 1) + 1 = ByteBits /\ ByteBits * 1 = ByteBits
      BY ByteBitsAssumption
    <2>2. 2 ^ ((ByteBits - 1) + 1) = 2 * 2 ^ (ByteBits - 1)
      BY <2>1, PowerNext
    <2> QED BY <2>1, <2>2, PowerPositive DEF Values
  <1>2. Values(2) = Values(1) * Values(1) /\ Values(4) = Values(2) * Values(2)
    BY ValuesSum, 1 + 1 = 2, 2 + 2 = 4
  <1>3. \A a \in Nat : a >= 2 => a * a \in Nat /\ a * a >= 2 * a
    OBVIOUS
  <1> QED BY <1>1, <1>2, <1>3

LEMMA HalfFacts == Half \in Nat /\ Half >= 4 /\ Values(1) <= Half /\ Values(2) <= Half
  BY WidthFacts, ByteValues

LEMMA WordsAreIntegers == Words \subseteq Int /\ 0 \in Words /\ 1 \in Words /\ -1 \in Words
  BY WidthFacts, HalfFacts DEF Words

LEMMA WordRange ==
  ASSUME NEW v
  PROVE  v \in Words <=> v \in Int /\ -Half <= v /\ v < Half
  BY WidthFacts DEF Words

LEMMA AddrRange ==
  ASSUME NEW a
  PROVE  a \in Addrs <=> a \in Nat /\ a < 2 * Half
  BY WidthFacts DEF Addrs

LEMMA UnsignedType ==
  ASSUME NEW v \in Int
  PROVE  Unsigned(v) \in Addrs /\ Unsigned(v) \in Nat
  <1>1. Values(4) \in Nat \ {0}
    BY ByteValues
  <1>2. v % Values(4) \in Int /\ 0 <= v % Values(4) /\ v % Values(4) < Values(4)
    BY <1>1, DivMod
  <1> QED BY <1>1, <1>2 DEF Unsigned, Addrs

LEMMA UnsignedOfAddr ==
  ASSUME NEW a \in Addrs
  PROVE  Unsigned(a) = a
  <1>1. Values(4) \in Nat \ {0} /\ a \in Int /\ 0 <= a /\ a < Values(4) /\ a = Values(4) * 0 + a
    BY ByteValues DEF Addrs
  <1> QED BY <1>1, DivModUnique DEF Unsigned

LEMMA SignExtendType ==
  ASSUME NEW v \in Int, NEW size \in {1, 2, 4}
  PROVE  SignExtend(v, size) \in Words
  <1> DEFINE n == Values(size)
             u == v % n
  <1>1. n \in Nat /\ n >= 2 /\ n <= Values(4)
    BY ByteValues
  <1>2. u \in Int /\ 0 <= u /\ u < n
    BY <1>1, DivMod
  <1>3. n \div 2 \in Int /\ 2 * (n \div 2) <= n /\ n <= 2 * (n \div 2) + 1
    BY <1>1
  <1>4. SignExtend(v, size) = IF u < n \div 2 THEN u ELSE u - n
    BY DEF SignExtend
  <1> HIDE DEF n, u
  <1>5. n <= 2 * Half /\ Half \in Nat
    BY <1>1, WidthFacts
  <1>6. n - n \div 2 <= Half
    <2>1. CASE n = 2 * Half
      BY <2>1, <1>1, <1>3, <1>5
    <2>2. CASE n <= 2 * Half - 1
      BY <2>2, <1>1, <1>3, <1>5
    <2> QED BY <2>1, <2>2, <1>1, <1>5
  <1>7. n \div 2 <= Half
    BY <1>1, <1>3, <1>5
  <1> QED
    BY <1>1, <1>2, <1>3, <1>4, <1>5, <1>6, <1>7, WordRange

LEMMA WrapType ==
  ASSUME NEW v \in Int
  PROVE  Wrap(v) \in Words
  BY SignExtendType DEF Wrap

LEMMA ZeroExtendType ==
  ASSUME NEW v \in Int, NEW size \in {1, 2}
  PROVE  ZeroExtend(v, size) \in Words
  <1>1. Values(size) \in Nat \ {0} /\ Values(size) <= Half /\ Half \in Nat
    BY ByteValues, HalfFacts
  <1>2. v % Values(size) \in Int /\ 0 <= v % Values(size) /\ v % Values(size) < Values(size)
    BY <1>1, DivMod
  <1> QED BY <1>1, <1>2, WordRange DEF ZeroExtend

-----------------------------------------------------------------------------
(* Sums.                                                                   *)

\* One addition of a sum of the first N values of f.
Adding(f, N) == [p \in Int \X Nat |-> IF p[2] \in 1 .. N THEN p[1] + f[p[2]] ELSE 0]

\* SumTo is the function that adds up f, which there is.
LEMMA SumToUnrolled ==
  ASSUME NEW N \in Nat, NEW f, \A j \in 1 .. N : f[j] \in Int, NEW n \in 0 .. N
  PROVE  \E u \in Unrolled(Int, 0, Adding(f, N), n) : SumTo(f, n) = u[n]
  <1> DEFINE h == Adding(f, N)
  <1>1. h \in [Int \X Nat -> Int]
    BY DEF Adding
  <1>2. \A v \in Int, i \in 1 .. N : h[<<v, i>>] = v + f[i]
    BY DEF Adding
  <1> HIDE DEF h
  <1>3. PICK u : u \in Unrolled(Int, 0, h, n)
    <2>1. n \in Nat /\ 0 \in Int
      OBVIOUS
    <2> QED BY <1>1, <2>1, UnrolledExists
  <1>4. /\ u \in [0 .. n -> Int] /\ u[0] = 0
        /\ \A i \in 0 .. n - 1 : u[i + 1] = h[<<u[i], i + 1>>]
    BY <1>3 DEF Unrolled
  <1> DEFINE Is(g) == g = [k \in 0 .. n |-> IF k = 0 THEN 0 ELSE g[k - 1] + f[k]]
             Sum == CHOOSE g : Is(g)
  <1>5. Is(u)
    <2>1. ASSUME NEW k \in 0 .. n PROVE u[k] = IF k = 0 THEN 0 ELSE u[k - 1] + f[k]
      <3>1. CASE k = 0
        BY <3>1, <1>4
      <3>2. CASE k # 0
        <4>1. k - 1 \in 0 .. n - 1 /\ (k - 1) + 1 = k /\ k \in 1 .. N
          BY <3>2
        <4>2. u[k - 1] \in Int
          BY <4>1, <1>4
        <4>3. u[k] = h[<<u[k - 1], k>>]
          BY <4>1, <1>4
        <4> QED BY <3>2, <4>1, <4>2, <4>3, <1>2
      <3> QED BY <3>1, <3>2
    <2> QED BY <2>1, <1>4
  <1>6. Is(Sum)
    <2> HIDE DEF Is
    <2> QED BY <1>5
  <1>7. SumTo(f, n) = Sum[n]
    BY DEF SumTo
  <1> HIDE DEF Sum
  <1>8. Sum[n] = u[n]
    <2> DEFINE Same == {k \in Nat : k <= n => Sum[k] = u[k]}
    <2>1. 0 \in Same
      BY <1>5, <1>6
    <2>2. ASSUME NEW k \in Nat, k \in Same PROVE k + 1 \in Same
      <3> SUFFICES ASSUME k + 1 <= n PROVE Sum[k + 1] = u[k + 1]
        OBVIOUS
      <3>1. k + 1 \in 0 .. n /\ k + 1 # 0 /\ (k + 1) - 1 = k /\ Sum[k] = u[k]
        BY <2>2
      <3>2. Sum[k + 1] = Sum[k] + f[k + 1]
        BY <3>1, <1>6
      <3>3. u[k + 1] = u[k] + f[k + 1]
        BY <3>1, <1>5
      <3> QED BY <3>1, <3>2, <3>3
    <2>3. \A k \in Nat : k \in Same
      <3> HIDE DEF Same
      <3> QED BY <2>1, <2>2, SetInduction
    <2> QED BY <2>3
  <1> QED BY <1>3, <1>7, <1>8 DEF h

LEMMA SumToType ==
  ASSUME NEW N \in Nat, NEW f, \A j \in 1 .. N : f[j] \in Int, NEW n \in 0 .. N
  PROVE  SumTo(f, n) \in Int
  <1> DEFINE h == Adding(f, N)
  <1>1. PICK u \in Unrolled(Int, 0, h, n) : SumTo(f, n) = u[n]
    BY SumToUnrolled
  <1>2. u \in [0 .. n -> Int]
    BY <1>1 DEF Unrolled
  <1> QED BY <1>1, <1>2

LEMMA SumToZero ==
  ASSUME NEW f
  PROVE  SumTo(f, 0) = 0
  <1> DEFINE h == Adding(f, 0)
  <1>1. PICK u \in Unrolled(Int, 0, h, 0) : SumTo(f, 0) = u[0]
    <2>1. 0 \in Nat /\ (\A j \in 1 .. 0 : f[j] \in Int) /\ 0 \in 0 .. 0
      OBVIOUS
    <2> QED BY <2>1, SumToUnrolled
  <1> QED BY <1>1 DEF Unrolled

LEMMA SumToNext ==
  ASSUME NEW N \in Nat, NEW f, \A j \in 1 .. N : f[j] \in Int, NEW n \in Nat, n < N
  PROVE  SumTo(f, n + 1) = SumTo(f, n) + f[n + 1]
  <1> DEFINE h == Adding(f, N)
  <1>1. n \in 0 .. N /\ n + 1 \in 0 .. N /\ n + 1 \in Nat
    OBVIOUS
  <1>2. PICK u \in Unrolled(Int, 0, h, n) : SumTo(f, n) = u[n]
    BY <1>1, SumToUnrolled
  <1>3. PICK v \in Unrolled(Int, 0, h, n + 1) : SumTo(f, n + 1) = v[n + 1]
    BY <1>1, SumToUnrolled
  <1>4. u[n] = v[n] /\ u[n] \in Int
    <2>1. \A i \in 0 .. n : u[i] = v[i]
      <3> HIDE DEF h
      <3> QED BY <1>1, n <= n + 1, UnrolledAgree
    <2> QED BY <2>1 DEF Unrolled
  <1>5. v[n + 1] = h[<<v[n], n + 1>>]
    BY n \in 0 .. (n + 1) - 1 DEF Unrolled
  <1>6. h[<<v[n], n + 1>>] = v[n] + f[n + 1]
    BY <1>1, <1>4 DEF Adding
  <1> QED BY <1>2, <1>3, <1>4, <1>5, <1>6

\* A sum of naturals does not shrink as it goes on.
LEMMA SumToMonotone ==
  ASSUME NEW N \in Nat, NEW f, \A j \in 1 .. N : f[j] \in Nat,
         NEW m \in 0 .. N, NEW n \in 0 .. N, m <= n
  PROVE  SumTo(f, m) \in Nat /\ SumTo(f, m) <= SumTo(f, n)
  <1> DEFINE Good == {k \in Nat : k <= N => /\ SumTo(f, k) \in Nat
                                            /\ m <= k => SumTo(f, m) <= SumTo(f, k)}
  <1>1. 0 \in Good
    BY SumToZero
  <1>2. ASSUME NEW k \in Nat, k \in Good PROVE k + 1 \in Good
    <2> SUFFICES ASSUME k + 1 <= N
                 PROVE  /\ SumTo(f, k + 1) \in Nat
                        /\ m <= k + 1 => SumTo(f, m) <= SumTo(f, k + 1)
      OBVIOUS
    <2>1. k < N /\ f[k + 1] \in Nat
      OBVIOUS
    <2>2. SumTo(f, k + 1) = SumTo(f, k) + f[k + 1]
      <3>1. \A j \in 1 .. N : f[j] \in Int
        OBVIOUS
      <3> QED BY <2>1, <3>1, SumToNext
    <2>3. SumTo(f, k) \in Nat /\ (m <= k => SumTo(f, m) <= SumTo(f, k))
      BY <1>2
    <2>4. CASE m = k + 1
      BY <2>1, <2>2, <2>3, <2>4
    <2>5. CASE m # k + 1
      <3>1. m <= k + 1 => m <= k
        BY <2>5
      <3>2. SumTo(f, k + 1) \in Nat /\ SumTo(f, k) <= SumTo(f, k + 1)
        BY <2>1, <2>2, <2>3
      <3>3. m <= k => SumTo(f, m) \in Int
        <4>1. \A j \in 1 .. N : f[j] \in Int
          OBVIOUS
        <4> QED BY <4>1, SumToType
      <3> QED BY <2>3, <3>1, <3>2, <3>3
    <2> QED BY <2>4, <2>5
  <1>3. \A k \in Nat : k \in Good
    <2> HIDE DEF Good
    <2> QED BY <1>1, <1>2, SetInduction
  <1> QED BY <1>3

-----------------------------------------------------------------------------
(* What the operations compute are words. *)

LEMMA UnsignedOfWord ==
  ASSUME NEW v \in Words
  PROVE  /\ v >= 0 => Unsigned(v) = v
         /\ v < 0 => Unsigned(v) = v + 2 * Half
         /\ Unsigned(v) = 0 <=> v = 0
         /\ Unsigned(v) \in Nat
  <1>1. Half \in Nat /\ v \in Int /\ -Half <= v /\ v < Half /\ Values(4) = 2 * Half /\ Half >= 4
    BY WordRange, WidthFacts, HalfFacts
  <1>2. CASE v >= 0
    <2>1. v = (2 * Half) * 0 + v /\ v < 2 * Half /\ 2 * Half \in Nat \ {0}
      BY <1>1, <1>2
    <2>2. v % (2 * Half) = v
      BY <1>1, <1>2, <2>1, DivModUnique
    <2> QED BY <1>1, <1>2, <2>2 DEF Unsigned
  <1>3. CASE v < 0
    <2>1. v = (2 * Half) * (-1) + (v + 2 * Half) /\ 0 <= v + 2 * Half
          /\ v + 2 * Half < 2 * Half /\ 2 * Half \in Nat \ {0} /\ v + 2 * Half \in Int
      BY <1>1, <1>3
    <2>2. v % (2 * Half) = v + 2 * Half
      BY <1>1, <2>1, DivModUnique
    <2> QED BY <1>1, <1>3, <2>1, <2>2 DEF Unsigned
  <1> QED BY <1>1, <1>2, <1>3

LEMMA PowerExceeds == \A n \in Nat : n + 1 <= 2 ^ n
  <1> DEFINE Good == {n \in Nat : n + 1 <= 2 ^ n}
  <1>1. 0 \in Good
    OBVIOUS
  <1>2. ASSUME NEW n \in Nat, n \in Good PROVE n + 1 \in Good
    BY <1>2, PowerNext, PowerInNat
  <1>3. \A n \in Nat : n \in Good
    <2> HIDE DEF Good
    <2> QED BY <1>1, <1>2, SetInduction
  <1> QED BY <1>3

LEMMA WordBitsFacts == WordBits \in Nat /\ WordBits >= 4 /\ WordBits <= Half
  <1>1. WordBits \in Nat /\ WordBits >= 4 /\ WordBits - 1 \in Nat
    BY ByteBitsAssumption DEF WordBits
  <1>2. (WordBits - 1) + 1 <= 2 ^ (WordBits - 1)
    BY <1>1, PowerExceeds
  <1> QED BY <1>1, <1>2, PowerInNat DEF Half

\* A shift count that does not shift everything out is a bit's place.
LEMMA ShiftCount ==
  ASSUME NEW n \in Words, ~ShiftsOut(n)
  PROVE  n \in Nat /\ n < WordBits /\ Unsigned(n) = n /\ 2 ^ n \in Nat \ {0}
  <1>1. n \in Int /\ n >= -Half /\ Half \in Nat /\ WordBits \in Nat /\ WordBits <= Half
    BY WordRange, HalfFacts, WordBitsFacts
  <1>2. Unsigned(n) < WordBits
    BY <1>1, UnsignedOfWord DEF ShiftsOut
  <1>3. n >= 0
    BY <1>1, <1>2, UnsignedOfWord
  <1> QED BY <1>1, <1>2, <1>3, UnsignedOfWord, PowerPositive

LEMMA DivInWords ==
  ASSUME NEW v \in Words, NEW n \in Nat \ {0}
  PROVE  v \div n \in Words
  <1> DEFINE q == v \div n
  <1>1. v \in Int /\ -Half <= v /\ v < Half /\ Half \in Nat
    BY WordRange, HalfFacts
  <1>2. q \in Int /\ v % n \in Int /\ v = n * q + (v % n) /\ 0 <= v % n /\ v % n < n
    BY <1>1, DivMod
  <1> HIDE DEF q
  <1>3. q >= -Half
    <2> SUFFICES ASSUME q + 1 <= -Half PROVE FALSE
      BY <1>1, <1>2
    <2>1. n * (q + 1) <= n * (-Half)
      BY <1>1, <1>2
    <2>2. n * (-Half) <= -Half
      BY <1>1
    <2>3. n * (q + 1) = n * q + n
      BY <1>2
    <2> QED BY <1>1, <1>2, <2>1, <2>2, <2>3
  <1>4. q < Half
    <2> SUFFICES ASSUME q >= Half PROVE FALSE
      BY <1>1, <1>2
    <2>1. n * q >= n * Half
      BY <1>1, <1>2
    <2>2. n * Half >= Half
      BY <1>1
    <2> QED BY <1>1, <1>2, <2>1, <2>2
  <1> QED BY <1>1, <1>2, <1>3, <1>4, WordRange DEF q

LEMMA MagnitudeFacts ==
  ASSUME NEW v \in Int
  PROVE  Magnitude(v) \in Nat /\ (v >= 0 => Magnitude(v) = v) /\ (v <= 0 => Magnitude(v) = -v)
  BY DEF Magnitude

\* C's division: the remainder is smaller than the divisor and has the sign of
\* the dividend.
LEMMA TruncDivMeans ==
  ASSUME NEW a \in Int, NEW b \in Int, b # 0
  PROVE  /\ TruncDiv(a, b) \in Int /\ TruncRem(a, b) \in Int
         /\ a = b * TruncDiv(a, b) + TruncRem(a, b)
         /\ Magnitude(TruncRem(a, b)) < Magnitude(b)
         /\ TruncRem(a, b) = 0 \/ (TruncRem(a, b) < 0 <=> a < 0)
         /\ Magnitude(TruncDiv(a, b)) <= Magnitude(a)
  <1> DEFINE x == Magnitude(a)
             y == Magnitude(b)
             q == x \div y
             r == x % y
  <1>1. x \in Nat /\ y \in Nat \ {0}
    BY MagnitudeFacts
  <1>2. q \in Int /\ r \in Int /\ x = y * q + r /\ 0 <= r /\ r < y
    <2> HIDE DEF x, y
    <2>1. x \in Int
      BY <1>1
    <2> QED BY <1>1, <2>1, DivMod
  <1>3. q \in Nat /\ q <= x
    <2> HIDE DEF x, y
    <2> QED BY <1>1, DivNat
  <1>4. TruncDiv(a, b) = IF (a < 0) = (b < 0) THEN q ELSE -q
    BY DEF TruncDiv
  <1>5. TruncRem(a, b) = a - b * TruncDiv(a, b)
    BY DEF TruncRem
  <1>6. (a >= 0 => x = a) /\ (a <= 0 => x = -a) /\ (b >= 0 => y = b) /\ (b <= 0 => y = -b)
    BY MagnitudeFacts
  <1> HIDE DEF x, y, q, r
  <1>7. TruncRem(a, b) = IF a < 0 THEN -r ELSE r
    <2>1. CASE a < 0 /\ b < 0
      <3>1. b * q = -(y * q)
        BY <2>1, <1>1, <1>3, <1>6
      <3> QED BY <2>1, <3>1, <1>1, <1>2, <1>3, <1>4, <1>5, <1>6
    <2>2. CASE a < 0 /\ ~(b < 0)
      <3>1. b * (-q) = -(y * q)
        BY <2>2, <1>1, <1>3, <1>6
      <3> QED BY <2>2, <3>1, <1>1, <1>2, <1>3, <1>4, <1>5, <1>6
    <2>3. CASE ~(a < 0) /\ b < 0
      <3>1. b * (-q) = y * q
        BY <2>3, <1>1, <1>3, <1>6
      <3> QED BY <2>3, <3>1, <1>1, <1>2, <1>3, <1>4, <1>5, <1>6
    <2>4. CASE ~(a < 0) /\ ~(b < 0)
      <3>1. b * q = y * q
        BY <2>4, <1>1, <1>3, <1>6
      <3> QED BY <2>4, <3>1, <1>1, <1>2, <1>3, <1>4, <1>5, <1>6
    <2> QED BY <2>1, <2>2, <2>3, <2>4
  <1>8. TruncDiv(a, b) \in Int /\ b * TruncDiv(a, b) \in Int
    BY <1>3, <1>4
  <1>9. Magnitude(TruncRem(a, b)) = r
    BY <1>2, <1>7 DEF Magnitude
  <1>10. Magnitude(TruncDiv(a, b)) = q
    BY <1>3, <1>4 DEF Magnitude
  <1>11. a = b * TruncDiv(a, b) + TruncRem(a, b)
    BY <1>5, <1>8
  <1> QED
    BY <1>2, <1>3, <1>7, <1>8, <1>9, <1>10, <1>11 DEF x, y

LEMMA TruncRemInWords ==
  ASSUME NEW a \in Words, NEW b \in Words, b # 0
  PROVE  TruncRem(a, b) \in Words
  <1>1. a \in Int /\ b \in Int /\ -Half <= b /\ b < Half /\ Half \in Nat
    BY WordRange, HalfFacts
  <1>2. TruncRem(a, b) \in Int /\ Magnitude(TruncRem(a, b)) < Magnitude(b)
    BY <1>1, TruncDivMeans
  <1> QED BY <1>1, <1>2, WordRange DEF Magnitude

LEMMA TruncDivInWords ==
  ASSUME NEW a \in Words, NEW b \in Words, b # 0, ~(a = IntMin /\ b = -1)
  PROVE  TruncDiv(a, b) \in Words
  <1> DEFINE q == TruncDiv(a, b)
             r == TruncRem(a, b)
  <1>1. /\ a \in Int /\ b \in Int /\ -Half <= a /\ a < Half /\ Half \in Nat /\ Half >= 4
        /\ IntMin = -Half
    BY WordRange, HalfFacts, WidthFacts
  <1>2. /\ q \in Int /\ r \in Int /\ a = b * q + r /\ Magnitude(r) < Magnitude(b)
        /\ Magnitude(q) <= Magnitude(a)
    BY <1>1, TruncDivMeans
  <1> HIDE DEF q, r
  <1>3. q <= Half /\ q >= -Half
    BY <1>1, <1>2 DEF Magnitude
  <1>4. q # Half
    <2> SUFFICES ASSUME q = Half PROVE FALSE
      OBVIOUS
    <2>1. a = -Half
      BY <1>1, <1>2 DEF Magnitude
    <2>2. CASE b >= 1
      <3>1. r = -Half - b * Half /\ b * Half >= 0 /\ b * Half \in Int
        BY <1>1, <1>2, <2>1, <2>2
      <3>2. b * Half >= 4 * b
        BY <1>1, <2>2
      <3> QED BY <1>1, <1>2, <2>2, <3>1, <3>2 DEF Magnitude
    <2>3. CASE b <= -2
      <3>1. r = -Half - b * Half
        BY <1>1, <1>2, <2>1
      <3>2. -Half - b * Half = Half * (-b - 1)
        BY <1>1
      <3>3. Half * (-b - 1) >= 4 * (-b - 1)
        BY <1>1, <2>3
      <3> QED BY <1>1, <1>2, <2>3, <3>1, <3>2, <3>3 DEF Magnitude
    <2>4. b # -1
      BY <2>1, <1>1
    <2> QED BY <1>1, <2>2, <2>3, <2>4
  <1> QED BY <1>1, <1>2, <1>3, <1>4, WordRange DEF q

LEMMA MinFacts ==
  ASSUME NEW S, S \subseteq Int, S # {}, NEW low \in Int, \A v \in S : low <= v
  PROVE  Min(S) \in S /\ \A v \in S : Min(S) <= v
  <1> DEFINE T == {v - low : v \in S}
  <1>1. T \subseteq Nat /\ T # {}
    <2>1. ASSUME NEW v \in S PROVE v - low \in Nat
      OBVIOUS
    <2>2. T \subseteq Nat
      BY <2>1
    <2>3. PICK v : v \in S
      OBVIOUS
    <2>4. v - low \in T
      BY <2>3
    <2> QED BY <2>2, <2>4
  <1>2. PICK t \in T : \A u \in T : t <= u
    BY <1>1, LeastOf
  <1>3. PICK x \in S : t = x - low
    BY <1>2
  <1>4. \A v \in S : x <= v
    <2> TAKE v \in S
    <2>1. v - low \in T
      OBVIOUS
    <2> QED BY <1>2, <1>3, <2>1
  <1> QED BY <1>3, <1>4 DEF Min

LEMMA MaxFacts ==
  ASSUME NEW S, S \subseteq Int, S # {}, NEW high \in Int, \A v \in S : v <= high
  PROVE  Max(S) \in S /\ \A v \in S : v <= Max(S)
  <1> DEFINE T == {high - v : v \in S}
  <1>1. T \subseteq Nat /\ T # {}
    <2>1. ASSUME NEW v \in S PROVE high - v \in Nat
      OBVIOUS
    <2>2. T \subseteq Nat
      BY <2>1
    <2>3. PICK v : v \in S
      OBVIOUS
    <2>4. high - v \in T
      BY <2>3
    <2> QED BY <2>2, <2>4
  <1>2. PICK t \in T : \A u \in T : t <= u
    BY <1>1, LeastOf
  <1>3. PICK x \in S : t = high - x
    BY <1>2
  <1>4. \A v \in S : x >= v
    <2> TAKE v \in S
    <2>1. high - v \in T
      OBVIOUS
    <2> QED BY <1>2, <1>3, <2>1
  <1>5. Max(S) \in S /\ \A v \in S : Max(S) >= v
    BY <1>3, <1>4 DEF Max
  <1> QED BY <1>5

LEMMA FirstOrLastInWords ==
  ASSUME NEW s \in Seq(Words), s # <<>>, NEW stops \in SUBSET DOMAIN s
  PROVE  FirstOrLast(s, stops) \in Words
  <1>1. Len(s) \in DOMAIN s
    OBVIOUS
  <1>2. stops # {} => Min(stops) \in stops
    <2>1. stops \subseteq Int /\ \A v \in stops : 0 <= v
      OBVIOUS
    <2> QED BY <2>1, MinFacts, 0 \in Int
  <1> QED BY <1>1, <1>2 DEF FirstOrLast

LEMMA BitType ==
  ASSUME NEW v \in Int, NEW k \in Nat
  PROVE  Bit(v, k) \in {0, 1}
  <1>1. Unsigned(v) \in Nat /\ 2 ^ k \in Nat \ {0}
    BY UnsignedType, PowerPositive
  <1>2. Unsigned(v) \div 2 ^ k \in Nat
    BY <1>1, DivNat
  <1> QED BY <1>2 DEF Bit

LEMMA FromBitsType ==
  ASSUME NEW b \in [BitPlaces -> {0, 1}]
  PROVE  FromBits(b) \in Words
  <1> DEFINE f == [k \in 1 .. WordBits |-> b[k - 1] * 2 ^ (k - 1)]
  <1>1. WordBits \in Nat
    BY WordBitsFacts
  <1>2. ASSUME NEW j \in 1 .. WordBits PROVE f[j] \in Int
    <2>1. j - 1 \in BitPlaces /\ j - 1 \in Nat
      BY <1>1 DEF BitPlaces
    <2>2. b[j - 1] \in {0, 1} /\ 2 ^ (j - 1) \in Nat
      BY <2>1, PowerPositive
    <2>3. \A x \in {0, 1}, y \in Nat : x * y \in Int
      OBVIOUS
    <2> QED BY <2>2, <2>3
  <1> HIDE DEF f
  <1>3. SumTo(f, WordBits) \in Int
    <2>1. WordBits \in 0 .. WordBits
      BY <1>1
    <2> QED BY <1>1, <1>2, <2>1, SumToType
  <1> QED BY <1>3, WrapType DEF FromBits, f

LEMMA LoadType ==
  ASSUME NEW m, NEW a, NEW size \in {1, 2, 4},
         \A b \in Span(a, size) : m[b] \in Int, a \in Int
  PROVE  Load(m, a, size) \in Words
  <1>1. Values(1) \in Int /\ Values(2) \in Int /\ Values(3) \in Int
    BY ValuesFacts, 1 \in Nat, 2 \in Nat, 3 \in Nat
  <1>2. a \in Span(a, size) /\ (size > 1 => a + 1 \in Span(a, size))
        /\ (size > 2 => a + 2 \in Span(a, size) /\ a + 3 \in Span(a, size))
    BY DEF Span
  <1> DEFINE x == IF size > 1 THEN m[a + 1] * Values(1) ELSE 0
             y == IF size > 2 THEN m[a + 2] * Values(2) + m[a + 3] * Values(3) ELSE 0
  <1>3. m[a] \in Int
    BY <1>2
  <1>4. x \in Int
    BY <1>1, <1>2
  <1>5. y \in Int
    BY <1>1, <1>2
  <1> HIDE DEF x, y
  <1>6. m[a] + x + y \in Int
    BY <1>3, <1>4, <1>5
  <1> QED BY <1>6, WrapType DEF Load, x, y

LEMMA StoreType ==
  ASSUME NEW D \in SUBSET Int, NEW m \in [D -> 0 .. Values(1) - 1], NEW a \in Int,
         NEW size \in {1, 2, 4}, NEW v \in Int
  PROVE  Store(m, a, v, size) \in [D -> 0 .. Values(1) - 1]
  <1>1. DOMAIN m = D /\ \A b \in D : m[b] \in 0 .. Values(1) - 1
    OBVIOUS
  <1>2. Values(1) \in Nat \ {0}
    BY ByteValues
  <1>3. ASSUME NEW b \in D, b \in Span(a, size)
        PROVE  (Unsigned(v) \div Values(b - a)) % Values(1) \in 0 .. Values(1) - 1
    <2>1. b - a \in Nat
      BY <1>3 DEF Span
    <2>2. Unsigned(v) \in Nat /\ Values(b - a) \in Nat \ {0}
      BY <2>1, UnsignedType, ValuesFacts
    <2>3. Unsigned(v) \div Values(b - a) \in Int
      BY <2>2, DivNat
    <2> QED BY <1>2, <2>3, DivMod
  <1> QED BY <1>1, <1>3 DEF Store

-----------------------------------------------------------------------------
(* The table of operations, group by group. *)

SysNames == {"SYS00", "SYS01", "SYS02", "SYS03", "SYS04", "SYS10", "SYS11", "SYS12",
             "SYS13", "SYS14", "SYS20", "SYS21", "SYS22", "SYS23", "SYS24"}

LEMMA SysArityDomain == DOMAIN SysArity = SysNames
  BY DEF SysArity, SysNames

LEMMA ArityOfOne ==
  ASSUME NEW op \in UnaryOps \cup LoadOps \cup StoreOps \cup LinkOps
  PROVE  Arity(op) = <<1, 1>>
  <1>1. /\ op \notin DOMAIN SysArity
        /\ op \notin BinaryOps
        /\ op \notin LongOps
        /\ op \notin MoveIfOps
        /\ op \notin BranchIfOps
        /\ op \notin (JumpOps \cup {"EXIT"})
        /\ op \notin VarSrcOps
        /\ op # "NOP"
    BY SysArityDomain, SMT
    DEF SysNames, UnaryOps, LoadOps, StoreOps, LinkOps, BinaryOps, DivOps, TestOps, LongOps,
        MoveIfOps, BranchIfOps, JumpOps, VarSrcOps
  <1> QED BY <1>1, SMT DEF Arity

LEMMA ArityOfTwo ==
  ASSUME NEW op \in BinaryOps
  PROVE  Arity(op) = <<1, 2>>
  <1>1. /\ op \notin DOMAIN SysArity
        /\ op \notin (UnaryOps \cup LoadOps \cup StoreOps \cup LinkOps)
        /\ op \notin LongOps
        /\ op \notin MoveIfOps
        /\ op \notin BranchIfOps
        /\ op \notin (JumpOps \cup {"EXIT"})
        /\ op \notin VarSrcOps
        /\ op # "NOP"
    BY SysArityDomain, SMT
    DEF SysNames, UnaryOps, LoadOps, StoreOps, LinkOps, BinaryOps, DivOps, TestOps, LongOps,
        MoveIfOps, BranchIfOps, JumpOps, VarSrcOps
  <1> QED BY <1>1, SMT DEF Arity

LEMMA ArityOfLong ==
  ASSUME NEW op \in LongOps
  PROVE  Arity(op) = <<2, 2>>
  <1>1. /\ op \notin DOMAIN SysArity
        /\ op \notin (UnaryOps \cup LoadOps \cup StoreOps \cup LinkOps)
        /\ op \notin BinaryOps
        /\ op \notin MoveIfOps
        /\ op \notin BranchIfOps
        /\ op \notin (JumpOps \cup {"EXIT"})
        /\ op \notin VarSrcOps
        /\ op # "NOP"
    BY SysArityDomain, SMT
    DEF SysNames, UnaryOps, LoadOps, StoreOps, LinkOps, BinaryOps, DivOps, TestOps, LongOps,
        MoveIfOps, BranchIfOps, JumpOps, VarSrcOps
  <1> QED BY <1>1, SMT DEF Arity

LEMMA ArityOfMove ==
  ASSUME NEW op \in MoveIfOps
  PROVE  Arity(op) = <<1, 4>>
  <1>1. /\ op \notin DOMAIN SysArity
        /\ op \notin (UnaryOps \cup LoadOps \cup StoreOps \cup LinkOps)
        /\ op \notin BinaryOps
        /\ op \notin LongOps
        /\ op \notin BranchIfOps
        /\ op \notin (JumpOps \cup {"EXIT"})
        /\ op \notin VarSrcOps
        /\ op # "NOP"
    BY SysArityDomain, SMT
    DEF SysNames, UnaryOps, LoadOps, StoreOps, LinkOps, BinaryOps, DivOps, TestOps, LongOps,
        MoveIfOps, BranchIfOps, JumpOps, VarSrcOps
  <1> QED BY <1>1, SMT DEF Arity

LEMMA ArityOfBranch ==
  ASSUME NEW op \in BranchIfOps
  PROVE  Arity(op) = <<0, 3>>
  <1>1. /\ op \notin DOMAIN SysArity
        /\ op \notin (UnaryOps \cup LoadOps \cup StoreOps \cup LinkOps)
        /\ op \notin BinaryOps
        /\ op \notin LongOps
        /\ op \notin MoveIfOps
        /\ op \notin (JumpOps \cup {"EXIT"})
        /\ op \notin VarSrcOps
        /\ op # "NOP"
    BY SysArityDomain, SMT
    DEF SysNames, UnaryOps, LoadOps, StoreOps, LinkOps, BinaryOps, DivOps, TestOps, LongOps,
        MoveIfOps, BranchIfOps, JumpOps, VarSrcOps
  <1> QED BY <1>1, SMT DEF Arity

LEMMA ArityOfJump ==
  ASSUME NEW op \in JumpOps \cup {"EXIT"}
  PROVE  Arity(op) = <<0, 1>>
  <1>1. /\ op \notin DOMAIN SysArity
        /\ op \notin (UnaryOps \cup LoadOps \cup StoreOps \cup LinkOps)
        /\ op \notin BinaryOps
        /\ op \notin LongOps
        /\ op \notin MoveIfOps
        /\ op \notin BranchIfOps
        /\ op \notin VarSrcOps
        /\ op # "NOP"
    BY SysArityDomain, SMT
    DEF SysNames, UnaryOps, LoadOps, StoreOps, LinkOps, BinaryOps, DivOps, TestOps, LongOps,
        MoveIfOps, BranchIfOps, JumpOps, VarSrcOps
  <1> QED BY <1>1, SMT DEF Arity

LEMMA ArityOfVarSrc ==
  ASSUME NEW op \in VarSrcOps
  PROVE  Arity(op) = <<1, 0>>
  <1>1. /\ op \notin DOMAIN SysArity
        /\ op \notin (UnaryOps \cup LoadOps \cup StoreOps \cup LinkOps)
        /\ op \notin BinaryOps
        /\ op \notin LongOps
        /\ op \notin MoveIfOps
        /\ op \notin BranchIfOps
        /\ op \notin (JumpOps \cup {"EXIT"})
        /\ op # "NOP"
    BY SysArityDomain, SMT
    DEF SysNames, UnaryOps, LoadOps, StoreOps, LinkOps, BinaryOps, DivOps, TestOps, LongOps,
        MoveIfOps, BranchIfOps, JumpOps, VarSrcOps
  <1> QED BY <1>1, SMT DEF Arity

LEMMA ArityOfNop == Arity("NOP") = <<0, 0>>
  <1>1. /\ "NOP" \notin DOMAIN SysArity
        /\ "NOP" \notin (UnaryOps \cup LoadOps \cup StoreOps \cup LinkOps)
        /\ "NOP" \notin BinaryOps
        /\ "NOP" \notin LongOps
        /\ "NOP" \notin MoveIfOps
        /\ "NOP" \notin BranchIfOps
        /\ "NOP" \notin (JumpOps \cup {"EXIT"})
        /\ "NOP" \notin VarSrcOps
    BY SysArityDomain, SMT
    DEF SysNames, UnaryOps, LoadOps, StoreOps, LinkOps, BinaryOps, DivOps, TestOps, LongOps,
        MoveIfOps, BranchIfOps, JumpOps, VarSrcOps
  <1> QED BY <1>1, SMT DEF Arity

-----------------------------------------------------------------------------
(* The results of every operation are words, as many as it has targets.    *)

LEMMA TruthInWords == \A b : Truth(b) \in Words /\ Truth(b) \in {0, 1}
  BY WordsAreIntegers DEF Truth

LEMMA ArgInWords ==
  ASSUME NEW s \in Seq(Words), NEW k \in 1 .. Len(s)
  PROVE  s[k] \in Words /\ s[k] \in Int
  <1>1. s[k] \in Words
    OBVIOUS
  <1> QED BY <1>1, WordsAreIntegers

\* One or two operands: the arithmetic.
LEMMA ArithmeticInWords ==
  ASSUME NEW s \in Seq(Words), NEW op \in {"ADD", "SUB", "MUL", "NEG", "ABS", "INV"},
         Len(s) >= 1, op \in {"ADD", "SUB", "MUL"} => Len(s) >= 2
  PROVE  Result(op, s) \in Words
  <1>1. s[1] \in Words /\ s[1] \in Int /\ (Len(s) >= 2 => s[2] \in Int)
    BY ArgInWords, Len(s) \in Nat
  <1> USE DEF TestOps, MoveIfOps, StoreOps
  <1>2. CASE op = "ADD"
    BY <1>1, <1>2, WrapType DEF Result
  <1>3. CASE op = "SUB"
    BY <1>1, <1>3, WrapType DEF Result
  <1>4. CASE op = "MUL"
    <2>1. s[1] * s[2] \in Int
      BY <1>1, <1>4
    <2> QED BY <2>1, <1>4, WrapType DEF Result
  <1>5. CASE op = "NEG"
    BY <1>1, <1>5, WrapType DEF Result
  <1>6. CASE op = "ABS"
    BY <1>1, <1>6, WrapType, MagnitudeFacts DEF Result
  <1>7. CASE op = "INV"
    <2>1. -s[1] - 1 \in Words
      BY <1>1, WordRange, HalfFacts
    <2> QED BY <2>1, <1>7 DEF Result
  <1> QED BY <1>2, <1>3, <1>4, <1>5, <1>6, <1>7

LEMMA DivisionInWords ==
  ASSUME NEW s \in Seq(Words), Len(s) >= 2, NEW op \in DivOps, AluError(op, s) = "OK"
  PROVE  Result(op, s) \in Words
  <1>1. s[1] \in Words /\ s[2] \in Words /\ s[1] \in Int /\ s[2] \in Int
    BY ArgInWords, Len(s) \in Nat
  <1>2. s[2] # 0 /\ (op = "DIV" => ~(s[1] = IntMin /\ s[2] = -1))
    BY DEF AluError, VarSrcOps, DivOps
  <1>3. Unsigned(s[1]) \in Nat /\ Unsigned(s[2]) \in Nat \ {0}
    BY <1>1, <1>2, UnsignedOfWord
  <1> USE DEF TestOps, MoveIfOps, StoreOps
  <1>4. CASE op = "DIV"
    <2>1. TruncDiv(s[1], s[2]) \in Words
      BY <1>1, <1>2, <1>4, TruncDivInWords
    <2> QED BY <2>1, <1>4 DEF Result
  <1>5. CASE op = "REM"
    <2>1. TruncRem(s[1], s[2]) \in Words
      BY <1>1, <1>2, TruncRemInWords
    <2> QED BY <2>1, <1>5 DEF Result
  <1>6. CASE op = "DIV_U"
    <2>1. Unsigned(s[1]) \div Unsigned(s[2]) \in Int
      BY <1>3, DivMod
    <2> QED BY <2>1, <1>6, WrapType DEF Result
  <1>7. CASE op = "REM_U"
    <2>1. Unsigned(s[1]) % Unsigned(s[2]) \in Int
      BY <1>3, DivMod
    <2> QED BY <2>1, <1>7, WrapType DEF Result
  <1> QED BY <1>4, <1>5, <1>6, <1>7 DEF DivOps

LEMMA BitOpsInWords ==
  ASSUME NEW s \in Seq(Words), Len(s) >= 2, NEW op \in {"BIT_AND", "BIT_OR", "BIT_XOR"}
  PROVE  Result(op, s) \in Words
  <1>1. ASSUME NEW k \in BitPlaces
        PROVE  Bit(s[1], k) \in {0, 1} /\ Bit(s[2], k) \in {0, 1}
    <2>1. s[1] \in Int /\ s[2] \in Int /\ k \in Nat
      BY ArgInWords, WordBitsFacts, Len(s) \in Nat DEF BitPlaces
    <2> QED BY <2>1, BitType
  <1> USE DEF TestOps, MoveIfOps, StoreOps
  <1>2. CASE op = "BIT_AND"
    <2>1. [k \in BitPlaces |-> Bit(s[1], k) * Bit(s[2], k)] \in [BitPlaces -> {0, 1}]
      BY <1>1
    <2> QED BY <2>1, <1>2, FromBitsType DEF Result
  <1>3. CASE op = "BIT_OR"
    <2>1. [k \in BitPlaces |-> Truth(Bit(s[1], k) + Bit(s[2], k) # 0)] \in [BitPlaces -> {0, 1}]
      BY TruthInWords
    <2> QED BY <2>1, <1>3, FromBitsType DEF Result
  <1>4. CASE op = "BIT_XOR"
    <2>1. [k \in BitPlaces |-> (Bit(s[1], k) + Bit(s[2], k)) % 2] \in [BitPlaces -> {0, 1}]
      BY <1>1
    <2> QED BY <2>1, <1>4, FromBitsType DEF Result
  <1> QED BY <1>2, <1>3, <1>4

LEMMA ShiftsInWords ==
  ASSUME NEW s \in Seq(Words), Len(s) >= 2, NEW op \in {"L_SHIFT", "R_SHIFT", "R_SHIFT_U"}
  PROVE  Result(op, s) \in Words
  <1> DEFINE a == s[1]
             n == s[2]
  <1>1. a \in Words /\ n \in Words /\ a \in Int /\ Unsigned(a) \in Nat
    BY ArgInWords, UnsignedOfWord, Len(s) \in Nat
  <1>2. ~ShiftsOut(n) => 2 ^ n \in Nat \ {0}
    BY <1>1, ShiftCount
  <1>3. 0 \in Words /\ -1 \in Words
    BY WordsAreIntegers
  <1>4. /\ op = "L_SHIFT" => Result(op, s) = LShift(a, n)
        /\ op = "R_SHIFT" => Result(op, s) = RShift(a, n)
        /\ op = "R_SHIFT_U" => Result(op, s) = RShiftU(a, n)
    BY DEF Result, TestOps, MoveIfOps, StoreOps
  <1> HIDE DEF a, n
  <1>5. LShift(a, n) \in Words
    <2>1. \A p \in Nat : a * p \in Int
      BY <1>1
    <2> QED BY <1>2, <1>3, <2>1, WrapType DEF LShift
  <1>6. RShift(a, n) \in Words
    BY <1>1, <1>2, <1>3, DivInWords DEF RShift
  <1>7. RShiftU(a, n) \in Words
    <2>1. \A p \in Nat \ {0} : Unsigned(a) \div p \in Int
      BY <1>1, DivNat
    <2> QED BY <1>2, <1>3, <2>1, WrapType DEF RShiftU
  <1> QED BY <1>4, <1>5, <1>6, <1>7

LEMMA ChoicesInWords ==
  ASSUME NEW s \in Seq(Words), s # <<>>,
         NEW op \in {"AND", "AND2", "OR", "OR2", "MAX", "MIN"}
  PROVE  Result(op, s) \in Words
  <1> USE DEF TestOps, MoveIfOps, StoreOps
  <1>1. CASE op \in {"AND", "AND2"}
    <2>1. {k \in DOMAIN s : s[k] = 0} \in SUBSET DOMAIN s
      OBVIOUS
    <2> QED BY <2>1, <1>1, FirstOrLastInWords DEF Result
  <1>2. CASE op \in {"OR", "OR2"}
    <2>1. {k \in DOMAIN s : s[k] # 0} \in SUBSET DOMAIN s
      OBVIOUS
    <2> QED BY <2>1, <1>2, FirstOrLastInWords DEF Result
  <1>3. CASE op \in {"MAX", "MIN"}
    <2> DEFINE S == {s[k] : k \in DOMAIN s}
    <2>1. S \subseteq Words /\ S # {}
      <3>1. 1 \in DOMAIN s
        OBVIOUS
      <3> QED BY <3>1
    <2>2. Half \in Int /\ -Half \in Int /\ S \subseteq Int
          /\ \A v \in S : -Half <= v /\ v <= Half
      BY <2>1, WordRange, HalfFacts
    <2>3. /\ op = "MAX" => Result(op, s) = Max(S)
          /\ op = "MIN" => Result(op, s) = Min(S)
      BY DEF Result
    <2> HIDE DEF S
    <2> QED BY <1>3, <2>1, <2>2, <2>3, MaxFacts, MinFacts
  <1> QED BY <1>1, <1>2, <1>3

LEMMA MovesInWords ==
  ASSUME NEW s \in Seq(Words), Len(s) >= 1,
         NEW op \in {"NOT", "BOOL", "MOV"} \cup TestOps \cup MoveIfOps \cup LoadOps \cup StoreOps,
         op \in MoveIfOps => Len(s) >= 4
  PROVE  Result(op, s) \in Words
  <1>1. s[1] \in Words /\ s[1] \in Int
    BY ArgInWords, Len(s) \in Nat
  <1>2. CASE op \in {"NOT", "BOOL"}
    BY <1>2, TruthInWords DEF Result, TestOps, MoveIfOps, StoreOps
  <1>3. CASE op \in TestOps
    <2>1. op \notin MoveIfOps /\ op \notin ({"MOV", "LD_B_U", "LD_H_U"} \cup StoreOps)
      BY <1>3 DEF TestOps, MoveIfOps, StoreOps
    <2>2. Result(op, s) = Truth(Holds(op, s))
      BY <1>3, <2>1, SMT DEF Result, TestOps
    <2> QED BY <2>2, TruthInWords
  <1>4. CASE op \in MoveIfOps
    <2>1. op \notin TestOps /\ op \notin ({"MOV", "LD_B_U", "LD_H_U"} \cup StoreOps)
      BY <1>4 DEF TestOps, MoveIfOps, StoreOps
    <2>2. Result(op, s) = IF Holds(op, s) THEN s[3] ELSE s[4]
      BY <1>4, <2>1, SMT DEF Result, MoveIfOps
    <2>3. s[3] \in Words /\ s[4] \in Words
      BY <1>4
    <2> QED BY <2>2, <2>3
  <1>5. CASE op \in {"MOV", "LD_B_U", "LD_H_U"} \cup StoreOps
    <2>1. op \notin TestOps /\ op \notin MoveIfOps
      BY <1>5 DEF TestOps, MoveIfOps, StoreOps
    <2>2. Result(op, s) = s[1]
      BY <1>5, <2>1, SMT DEF Result, StoreOps
    <2> QED BY <1>1, <2>2
  <1>6. CASE op \in {"LD_B", "LD_H"}
    BY <1>1, <1>6, SignExtendType DEF Result, TestOps, MoveIfOps, StoreOps
  <1> QED BY <1>2, <1>3, <1>4, <1>5, <1>6 DEF LoadOps

\* The high word of a product of words is a word.
LEMMA HighInWords ==
  ASSUME NEW a \in Words, NEW b \in Words
  PROVE  (a * b) \div Values(4) \in Words
  <1> DEFINE p == a * b
             q == p \div (2 * Half)
  <1>1. /\ a \in Int /\ -Half <= a /\ a < Half /\ b \in Int /\ -Half <= b /\ b < Half
        /\ Half \in Nat /\ Half >= 4 /\ Values(4) = 2 * Half
    BY WordRange, HalfFacts, WidthFacts
  <1>2. p \in Int /\ p <= Half * Half /\ -(Half * Half) <= p
    <2>1. \A x, y, h \in Nat : x <= h /\ y <= h => x * y \in Nat /\ x * y <= h * h
      <3> TAKE x, y, h \in Nat
      <3> HAVE x <= h /\ y <= h
      <3>1. x * y <= x * h
        OBVIOUS
      <3>2. x * h <= h * h
        OBVIOUS
      <3> QED BY <3>1, <3>2
    <2>6. \A x, y \in Int : x * y = -(x * (-y)) /\ x * y = -((-x) * y) /\ x * y = (-x) * (-y)
      OBVIOUS
    <2>2. CASE a >= 0 /\ b >= 0
      BY <1>1, <2>1, <2>2
    <2>3. CASE a >= 0 /\ b < 0
      <3>1. a * (-b) \in Nat /\ a * (-b) <= Half * Half
        BY <1>1, <2>1, <2>3
      <3>2. p = -(a * (-b))
        BY <1>1, <2>6
      <3> DEFINE t == a * (-b)
                 hh == Half * Half
      <3>3. t \in Nat /\ t <= hh /\ hh \in Nat /\ p = -t
        BY <1>1, <3>1, <3>2
      <3> HIDE DEF p, q, t
      <3>4. p \in Int /\ p <= hh /\ -hh <= p
        <4> HIDE DEF hh
        <4> QED BY <3>3
      <3> QED BY <3>4
    <2>4. CASE a < 0 /\ b >= 0
      <3>1. (-a) * b \in Nat /\ (-a) * b <= Half * Half
        BY <1>1, <2>1, <2>4
      <3>2. p = -((-a) * b)
        BY <1>1, <2>6
      <3> DEFINE t == (-a) * b
                 hh == Half * Half
      <3>3. t \in Nat /\ t <= hh /\ hh \in Nat /\ p = -t
        BY <1>1, <3>1, <3>2
      <3> HIDE DEF p, q, t
      <3>4. p \in Int /\ p <= hh /\ -hh <= p
        <4> HIDE DEF hh
        <4> QED BY <3>3
      <3> QED BY <3>4
    <2>5. CASE a < 0 /\ b < 0
      <3>1. (-a) * (-b) \in Nat /\ (-a) * (-b) <= Half * Half
        BY <1>1, <2>1, <2>5
      <3>2. p = (-a) * (-b)
        BY <1>1, <2>6
      <3> DEFINE t == (-a) * (-b)
                 hh == Half * Half
      <3>3. t \in Nat /\ t <= hh /\ hh \in Nat /\ p = t
        BY <1>1, <3>1, <3>2
      <3> HIDE DEF p, q, t
      <3>4. p \in Int /\ p <= hh /\ -hh <= p
        <4> HIDE DEF hh
        <4> QED BY <3>3
      <3> QED BY <3>4
    <2> QED BY <1>1, <2>2, <2>3, <2>4, <2>5
  <1> HIDE DEF p
  <1>3. /\ q \in Int /\ p % (2 * Half) \in Int /\ p = (2 * Half) * q + (p % (2 * Half))
        /\ 0 <= p % (2 * Half) /\ p % (2 * Half) < 2 * Half
    <2>1. 2 * Half \in Nat \ {0}
      BY <1>1
    <2> QED BY <1>2, <2>1, DivMod
  <1> DEFINE r == p % (2 * Half)
  <1>4. r \in Int /\ p = (2 * Half) * q + r /\ 0 <= r /\ r < 2 * Half
    BY <1>3
  <1> HIDE DEF q, r
  <1> DEFINE hh == Half * Half
             x == (2 * Half) * q
  <1>5. hh \in Nat /\ hh >= 16 /\ (2 * Half) * Half = 2 * hh
        /\ (2 * Half) * (-Half - 1) = -(2 * hh) - 2 * Half
    BY <1>1
  <1>6. x \in Int /\ p = x + r /\ p <= hh /\ -hh <= p
    BY <1>1, <1>2, <1>3, <1>4
  <1>7. q < Half
    <2> SUFFICES ASSUME q >= Half PROVE FALSE
      BY <1>1, <1>3
    <2>1. x >= (2 * Half) * Half
      BY <1>1, <1>3
    <2> HIDE DEF hh, x
    <2> QED BY <1>2, <1>4, <1>5, <1>6, <2>1
  <1>8. q >= -Half
    <2> SUFFICES ASSUME q <= -Half - 1 PROVE FALSE
      BY <1>1, <1>3
    <2>1. x <= (2 * Half) * (-Half - 1)
      BY <1>1, <1>3
    <2> HIDE DEF hh, x
    <2> QED BY <1>1, <1>2, <1>4, <1>5, <1>6, <2>1
  <1> QED BY <1>1, <1>3, <1>7, <1>8, WordRange DEF q, p

\* How many sources the operation op may have.
FitsSources(op, s) == IF op \in VarSrcOps THEN TRUE ELSE Len(s) = Arity(op)[2]

LEMMA ResultsType ==
  ASSUME NEW op \in ComputeOps, NEW s \in Seq(Words), FitsSources(op, s),
         AluError(op, s) = "OK"
  PROVE  Results(op, s) \in Seq(Words) /\ Len(Results(op, s)) = Arity(op)[1]
  <1>1. Len(s) \in Nat
    OBVIOUS
  <1>2. CASE op \in LongOps
    <2>1. op \notin VarSrcOps
      BY <1>2 DEF LongOps, VarSrcOps
    <2>2. Arity(op) = <<2, 2>>
      BY <1>2, ArityOfLong
    <2>6. Len(s) = 2 /\ 1 \in 1 .. Len(s) /\ 2 \in 1 .. Len(s)
      BY <2>1, <2>2 DEF FitsSources
    <2>3. s[1] \in Words /\ s[2] \in Words /\ s[1] \in Int /\ s[2] \in Int
      BY <2>6, ArgInWords
    <2>4. CASE op = "LONG_MUL"
      <3>1. Results(op, s) = <<Wrap(s[1] * s[2]), (s[1] * s[2]) \div Values(4)>>
        BY <2>4 DEF Results, LongProduct
      <3>2. Wrap(s[1] * s[2]) \in Words
        BY <2>3, WrapType
      <3>3. (s[1] * s[2]) \div Values(4) \in Words
        BY <2>3, HighInWords
      <3> QED BY <2>2, <3>1, <3>2, <3>3
    <2>5. CASE op = "LONG_MUL_U"
      <3>5. Unsigned(s[1]) \in Nat /\ Unsigned(s[2]) \in Nat
        <4>1. \A v \in Words : Unsigned(v) \in Nat
          BY UnsignedOfWord
        <4> QED BY <2>3, <4>1
      <3> DEFINE p == Unsigned(s[1]) * Unsigned(s[2])
      <3>1. Results(op, s) = <<Wrap(p), Wrap(p \div Values(4))>>
        BY <2>5 DEF Results, LongProduct
      <3>2. p \in Int
        BY <3>5
      <3>3. p \div Values(4) \in Int
        BY <3>2, DivMod, ByteValues
      <3> HIDE DEF p
      <3>4. Wrap(p) \in Words /\ Wrap(p \div Values(4)) \in Words
        BY <3>2, <3>3, WrapType
      <3> QED BY <2>2, <3>1, <3>4
    <2> QED BY <1>2, <2>4, <2>5 DEF LongOps
  <1>3. CASE op \notin LongOps
    <2>1. Results(op, s) = <<Result(op, s)>>
      BY <1>3 DEF Results, LongOps
    <2>2. Arity(op)[1] = 1 /\ Result(op, s) \in Words
      <3>1. CASE op \in VarSrcOps
        <4>1. s # <<>>
          BY <3>1 DEF AluError
        <4> QED BY <3>1, <4>1, ArityOfVarSrc, ChoicesInWords DEF VarSrcOps
      <3>2. CASE op \in UnaryOps \cup LoadOps \cup StoreOps
        <4>1. op \notin VarSrcOps /\ op \notin MoveIfOps
              /\ op \notin {"ADD", "SUB", "MUL"}
          BY <3>2 DEF VarSrcOps, UnaryOps, LoadOps, StoreOps, MoveIfOps
        <4>9. Arity(op) = <<1, 1>>
          BY <3>2, ArityOfOne
        <4>2. Arity(op)[1] = 1 /\ Len(s) = 1 /\ Len(s) >= 1 /\ Len(s) >= 1 /\ s # <<>>
          BY <4>1, <4>9 DEF FitsSources
        <4>3. CASE op \in {"NEG", "ABS", "INV"}
          BY <4>1, <4>2, <4>3, ArithmeticInWords
        <4>4. CASE op \in {"NOT", "BOOL", "MOV"} \cup LoadOps \cup StoreOps
          BY <4>1, <4>2, <4>4, MovesInWords
        <4> QED BY <3>2, <4>2, <4>3, <4>4 DEF UnaryOps
      <3>3. CASE op \in BinaryOps
        <4>1. op \notin VarSrcOps /\ op \notin MoveIfOps
          BY <3>3 DEF VarSrcOps, BinaryOps, DivOps, TestOps, MoveIfOps
        <4>9. Arity(op) = <<1, 2>>
          BY <3>3, ArityOfTwo
        <4>2. Arity(op)[1] = 1 /\ Len(s) = 2 /\ Len(s) >= 1 /\ Len(s) >= 2 /\ s # <<>>
          BY <4>1, <4>9 DEF FitsSources
        <4>3. CASE op \in {"ADD", "SUB", "MUL"}
          BY <4>2, <4>3, ArithmeticInWords
        <4>4. CASE op \in DivOps
          BY <4>2, <4>4, DivisionInWords
        <4>5. CASE op \in {"BIT_AND", "BIT_OR", "BIT_XOR"}
          BY <4>2, <4>5, BitOpsInWords
        <4>6. CASE op \in {"L_SHIFT", "R_SHIFT", "R_SHIFT_U"}
          BY <4>2, <4>6, ShiftsInWords
        <4>7. CASE op \in {"AND2", "OR2"}
          BY <4>2, <4>7, ChoicesInWords
        <4>8. CASE op \in TestOps
          BY <4>1, <4>2, <4>8, MovesInWords
        <4> QED BY <3>3, <4>2, <4>3, <4>4, <4>5, <4>6, <4>7, <4>8 DEF BinaryOps
      <3>4. CASE op \in MoveIfOps
        <4>1. op \notin VarSrcOps
          BY <3>4 DEF VarSrcOps, MoveIfOps
        <4>9. Arity(op) = <<1, 4>>
          BY <3>4, ArityOfMove
        <4>2. Arity(op)[1] = 1 /\ Len(s) = 4 /\ Len(s) >= 1 /\ Len(s) >= 4 /\ s # <<>>
          BY <4>1, <4>9 DEF FitsSources
        <4> QED BY <3>4, <4>2, MovesInWords
      <3> QED BY <1>3, <3>1, <3>2, <3>3, <3>4 DEF ComputeOps
    <2> QED BY <2>1, <2>2
  <1> QED BY <1>2, <1>3

=============================================================================
