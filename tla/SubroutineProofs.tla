-------------------------- MODULE SubroutineProofs --------------------------
(***************************************************************************)
(* What holds of the calling convention for all subroutines, registers,    *)
(* script and sizes of the stack.                                          *)
(***************************************************************************)
EXTENDS Subroutine, SequenceTheorems, FiniteSetTheorems, TLAPS

\* What define() is given.
Definition == {d \in [sub : Subs, save : SUBSET Regs, leaf : BOOLEAN, body : Seq(Item)] :
  /\ d.body \in Bodies /\ sp \notin Written(d.body) \cup d.save
  /\ d.leaf => lr \notin Written(d.body) /\ \A y \in Items(d.body) : y.do # "call"}
Instr ==
  Item \cup [do : {"move_sp"}, n : Int] \cup [do : {"push", "pop"}, reg : Regs, at : Int]
    \cup [do : {"jmp_lr", "exit"}] \cup [do : {"jmp_mem"}, at : Int]

-----------------------------------------------------------------------------
(* The order of the saved registers. *)

LEMMA Numbers ==
  /\ StackEnd \in Nat /\ StackTop \in Nat /\ RamWords \in Nat /\ StackEnd <= StackTop
  /\ StackTop <= RamWords /\ sp \in Regs /\ lr \in Regs /\ sp # lr
  /\ Regs \subseteq Nat /\ Regs \subseteq Addrs /\ \A r \in Regs : r < StackEnd
BY RegistersAssumption DEF Regs, Addrs

\* Counting the registers up to each one numbers them.
LEMMA RanksNumber ==
  ASSUME NEW S \in SUBSET Regs
  PROVE  /\ IsFiniteSet(S) /\ Cardinality(S) \in Nat
         /\ \A r \in S : Cardinality({q \in S : q <= r}) \in 1 .. Cardinality(S)
         /\ \A r, s \in S : Cardinality({q \in S : q <= r}) = Cardinality({q \in S : q <= s}) => r = s
         /\ \A i \in 1 .. Cardinality(S) : \E r \in S : Cardinality({q \in S : q <= r}) = i
<1> DEFINE upto(r) == {q \in S : q <= r}
           n == Cardinality(S)
           rank == [r \in S |-> Cardinality(upto(r))]
<1>1. IsFiniteSet(S) /\ n \in Nat
  <2>1. IsFiniteSet(0 .. StackEnd - 1)
    BY Numbers, FS_Interval
  <2> QED BY <2>1, FS_Subset, FS_CardinalityType DEF Regs
<1>2. \A r \in S : IsFiniteSet(upto(r)) /\ Cardinality(upto(r)) \in Nat /\ Cardinality(upto(r)) <= n
  BY <1>1, FS_Subset, FS_CardinalityType
<1>3. ASSUME NEW r \in S PROVE Cardinality(upto(r)) # 0
  <2>1. r \in upto(r)
    BY Numbers
  <2> QED BY <1>2, <2>1, FS_EmptySet
<1>4. ASSUME NEW r \in S, NEW s \in S, r < s PROVE Cardinality(upto(r)) # Cardinality(upto(s))
  <2>1. r \in Nat /\ s \in Nat /\ S \subseteq Nat
    BY Numbers
  <2>2. upto(r) \in SUBSET upto(s)
    <3>1. ASSUME NEW q \in S, q <= r PROVE q <= s
      <4>1. q \in Nat
        BY <2>1
      <4> QED BY <1>4, <2>1, <3>1, <4>1
    <3> QED BY <3>1
  <2>3. s \in upto(s) /\ s \notin upto(r)
    BY <1>4, <2>1
  <2> QED BY <1>2, <2>2, <2>3, FS_Subset
<1>5. \A r, s \in S : Cardinality(upto(r)) = Cardinality(upto(s)) => r = s
  <2>1. \A r, s \in S : r = s \/ r < s \/ s < r
    BY Numbers
  <2> QED BY <1>4, <2>1
<1>6. \A r \in S : Cardinality(upto(r)) \in 1 .. n
  BY <1>1, <1>2, <1>3
<1>7. rank \in Injection(S, 1 .. n)
  BY <1>5, <1>6 DEF Injection, IsInjective
<1>8. rank \in Surjection(S, 1 .. n)
  <2>1. IsFiniteSet(1 .. n) /\ Cardinality(1 .. n) = n
    BY <1>1, FS_Interval
  <2> HIDE DEF rank
  <2> QED BY <1>7, <2>1, FS_Injection
<1>9. \A i \in 1 .. n : \E r \in S : rank[r] = i
  BY <1>8 DEF Surjection
<1> QED BY <1>1, <1>5, <1>6, <1>9

\* The saved registers are exactly those of save_regs.
LEMMA SavedRegsAre ==
  ASSUME NEW d, d.save \in SUBSET Regs
  PROVE  /\ SavedRegs(d) \in Seq(d.save)
         /\ \A r \in d.save : \E i \in 1 .. Len(SavedRegs(d)) : SavedRegs(d)[i] = r
<1> DEFINE S == d.save
           n == Cardinality(S)
           rank(r) == Cardinality({q \in S : q <= r})
           at(i) == CHOOSE r \in S : rank(r) = i
<1>1. /\ n \in Nat
      /\ \A r \in S : rank(r) \in 1 .. n
      /\ \A r, s \in S : rank(r) = rank(s) => r = s
      /\ \A i \in 1 .. n : \E r \in S : rank(r) = i
  BY RanksNumber
<1> HIDE DEF rank
<1>2. \A i \in 1 .. n : at(i) \in S /\ rank(at(i)) = i
  BY <1>1
<1>3. \A r \in S : at(rank(r)) = r
  BY <1>1, <1>2
<1>4. SavedRegs(d) = [i \in 1 .. n |-> at(i)]
  BY DEF SavedRegs, rank
<1> HIDE DEF at
<1>5. SavedRegs(d) \in Seq(S) /\ Len(SavedRegs(d)) = n
  BY <1>1, <1>2, <1>4
<1> QED BY <1>1, <1>3, <1>4, <1>5

-----------------------------------------------------------------------------
(* The code of a subroutine, position by position.                         *)

N(d) == Len(Push(d))                               \* the words it pushes
B(d) == Len(d.body)
P(d) == IF N(d) = 0 THEN 0 ELSE N(d) + 1            \* the prologue's instructions
E(d) == IF N(d) = 0 THEN 0 ELSE Len(Pop(d)) + 1     \* the epilogue's
Size(d) == P(d) + B(d) + E(d) + 1

LEMMA PushPop ==
  ASSUME NEW d \in Definition
  PROVE  /\ Push(d) \in Seq(Regs) /\ Pop(d) \in Seq(Regs) /\ d.body \in Seq(Item)
         /\ N(d) \in Nat /\ Len(Pop(d)) \in Nat /\ B(d) \in Nat
         /\ Len(Pop(d)) <= N(d) /\ \A i \in 1 .. Len(Pop(d)) : Pop(d)[i] \in d.save /\ Push(d)[i] = Pop(d)[i]
         /\ d.leaf => N(d) = Len(Pop(d))
         /\ ~d.leaf => N(d) = Len(Pop(d)) + 1 /\ Push(d)[N(d)] = lr
         /\ \A r \in d.save : \E i \in 1 .. Len(Pop(d)) : Pop(d)[i] = r
<1>1. d.save \in SUBSET Regs /\ d.leaf \in BOOLEAN /\ d.body \in Seq(Item)
  BY DEF Definition
<1> DEFINE s == SavedRegs(d)
<1>2. s \in Seq(d.save) /\ \A r \in d.save : \E i \in 1 .. Len(s) : s[i] = r
  BY <1>1, SavedRegsAre
<1>3. Pop(d) = s /\ Push(d) = IF d.leaf THEN s ELSE Append(s, lr)
  BY DEF Push, Pop
<1> HIDE DEF s
<1>4. s \in Seq(Regs) /\ Len(s) \in Nat /\ \A i \in 1 .. Len(s) : s[i] \in d.save
  BY <1>1, <1>2, SeqMonotonic, ElementOfSeq, LenProperties
<1>5. /\ Append(s, lr) \in Seq(Regs) /\ Len(Append(s, lr)) = Len(s) + 1
      /\ Append(s, lr)[Len(s) + 1] = lr /\ \A i \in 1 .. Len(s) : Append(s, lr)[i] = s[i]
  BY <1>4, Numbers, AppendProperties
<1>6. B(d) \in Nat
  BY <1>1, LenProperties DEF B
<1>7. CASE d.leaf
  BY <1>1, <1>2, <1>3, <1>4, <1>6, <1>7 DEF N
<1>8. CASE ~d.leaf
  BY <1>1, <1>2, <1>3, <1>4, <1>5, <1>6, <1>8 DEF N
<1> QED BY <1>7, <1>8

\* Two sequences behind each other, and three and a last element.
LEMMA Concat2 ==
  ASSUME NEW S, NEW a \in Seq(S), NEW b \in Seq(S)
  PROVE  /\ a \o b \in Seq(S) /\ Len(a \o b) = Len(a) + Len(b) /\ Len(a) \in Nat /\ Len(b) \in Nat
         /\ \A i \in 1 .. Len(a) : (a \o b)[i] = a[i]
         /\ \A i \in 1 .. Len(b) : (a \o b)[Len(a) + i] = b[i]
<1> DEFINE ab == a \o b
<1>1. Len(a) \in Nat /\ Len(b) \in Nat
  BY LenProperties
<1>2. /\ ab \in Seq(S) /\ Len(ab) = Len(a) + Len(b)
      /\ \A i \in 1 .. Len(a) + Len(b) : ab[i] = IF i <= Len(a) THEN a[i] ELSE b[i - Len(a)]
  BY ConcatProperties
<1> HIDE DEF ab
<1>3. \A i \in 1 .. Len(a) : i \in 1 .. Len(a) + Len(b) /\ i <= Len(a)
  BY <1>1
<1>4. \A i \in 1 .. Len(b) :
        Len(a) + i \in 1 .. Len(a) + Len(b) /\ ~(Len(a) + i <= Len(a)) /\ Len(a) + i - Len(a) = i
  BY <1>1
<1>5. ab \in Seq(S) /\ Len(ab) = Len(a) + Len(b)
  BY <1>2
<1>6. \A i \in 1 .. Len(a) : ab[i] = a[i]
  BY <1>2, <1>3
<1>7. \A i \in 1 .. Len(b) : ab[Len(a) + i] = b[i]
  BY <1>2, <1>4
<1> QED BY <1>1, <1>5, <1>6, <1>7 DEF ab

LEMMA Concat4 ==
  ASSUME NEW S, NEW a \in Seq(S), NEW b \in Seq(S), NEW c \in Seq(S), NEW e \in S,
         NEW f, f = a \o b \o c \o <<e>>
  PROVE  /\ f \in Seq(S) /\ Len(f) = Len(a) + Len(b) + Len(c) + 1
         /\ \A i \in 1 .. Len(a) : f[i] = a[i]
         /\ \A i \in 1 .. Len(b) : f[Len(a) + i] = b[i]
         /\ \A i \in 1 .. Len(c) : f[Len(a) + Len(b) + i] = c[i]
         /\ f[Len(a) + Len(b) + Len(c) + 1] = e
<1> DEFINE ab == a \o b
           abc == ab \o c
<1>0. f = abc \o <<e>>
  OBVIOUS
<1>1. <<e>> \in Seq(S) /\ Len(<<e>>) = 1 /\ <<e>>[1] = e /\ 1 \in 1 .. Len(<<e>>)
  OBVIOUS
<1>2. /\ ab \in Seq(S) /\ Len(ab) = Len(a) + Len(b) /\ Len(a) \in Nat /\ Len(b) \in Nat
      /\ \A i \in 1 .. Len(a) : ab[i] = a[i]
      /\ \A i \in 1 .. Len(b) : ab[Len(a) + i] = b[i]
  BY Concat2
<1>3. ab \in Seq(S)
  BY <1>2
<1> HIDE DEF ab
<1>4. /\ abc \in Seq(S) /\ Len(abc) = Len(ab) + Len(c) /\ Len(c) \in Nat
      /\ \A i \in 1 .. Len(ab) : abc[i] = ab[i]
      /\ \A i \in 1 .. Len(c) : abc[Len(ab) + i] = c[i]
  BY <1>3, Concat2
<1>5. abc \in Seq(S)
  BY <1>4
<1> HIDE DEF abc
<1>6. /\ f \in Seq(S) /\ Len(f) = Len(abc) + Len(<<e>>)
      /\ \A i \in 1 .. Len(abc) : f[i] = abc[i]
      /\ \A i \in 1 .. Len(<<e>>) : f[Len(abc) + i] = <<e>>[i]
  <2> DEFINE t == <<e>>
  <2>1. t \in Seq(S) /\ f = abc \o t
    BY <1>0, <1>1
  <2> HIDE DEF t
  <2>2. /\ abc \o t \in Seq(S) /\ Len(abc \o t) = Len(abc) + Len(t)
        /\ \A i \in 1 .. Len(abc) : (abc \o t)[i] = abc[i]
        /\ \A i \in 1 .. Len(t) : (abc \o t)[Len(abc) + i] = t[i]
    BY <1>5, <2>1, Concat2
  <2>3. /\ f \in Seq(S) /\ Len(f) = Len(abc) + Len(t)
        /\ \A i \in 1 .. Len(abc) : f[i] = abc[i]
        /\ \A i \in 1 .. Len(t) : f[Len(abc) + i] = t[i]
    BY <2>1, <2>2
  <2> QED BY <2>3 DEF t
<1>7. \A i \in 1 .. Len(a) : f[i] = a[i]
  <2>1. \A i \in 1 .. Len(a) : i \in 1 .. Len(ab) /\ i \in 1 .. Len(abc)
    BY <1>2, <1>4
  <2> QED BY <1>2, <1>4, <1>6, <2>1
<1>8. \A i \in 1 .. Len(b) : f[Len(a) + i] = b[i]
  <2>1. \A i \in 1 .. Len(b) : Len(a) + i \in 1 .. Len(ab) /\ Len(a) + i \in 1 .. Len(abc)
    BY <1>2, <1>4
  <2> QED BY <1>2, <1>4, <1>6, <2>1
<1>9. \A i \in 1 .. Len(c) : f[Len(a) + Len(b) + i] = c[i]
  <2>1. \A i \in 1 .. Len(c) : Len(ab) + i \in 1 .. Len(abc)
    BY <1>2, <1>4
  <2> QED BY <1>2, <1>4, <1>6, <2>1
<1>10. f \in Seq(S) /\ Len(f) = Len(a) + Len(b) + Len(c) + 1
  BY <1>1, <1>2, <1>4, <1>6
<1>11. f[Len(a) + Len(b) + Len(c) + 1] = e
  BY <1>1, <1>2, <1>4, <1>6
<1> QED BY <1>7, <1>8, <1>9, <1>10, <1>11

\* Where each instruction of a subroutine is.
LEMMA Shape ==
  ASSUME NEW d \in Definition
  PROVE  LET n == N(d)
             b == B(d)
             p == Len(Pop(d))
             code == SubCode(d)
         IN  /\ code \in Seq(Instr) /\ Len(code) = Size(d)
             /\ \A i \in 1 .. b : code[P(d) + i] = d.body[i]
             /\ code[Size(d)] = Jump(d)
             /\ n > 0 =>
                  /\ code[1] = [do |-> "move_sp", n |-> -n]
                  /\ \A i \in 1 .. n : code[1 + i] = [do |-> "push", reg |-> Push(d)[i], at |-> i - 1]
                  /\ code[n + b + 2] = [do |-> "move_sp", n |-> n]
                  /\ \A i \in 1 .. p :
                       code[n + b + 2 + i] = [do |-> "pop", reg |-> Pop(d)[i], at |-> i - 1 - n]
<1> DEFINE n == N(d)
           b == B(d)
           p == Len(Pop(d))
           pro == Prologue(d)
           epi == Epilogue(d)
           code == SubCode(d)
           down == [do |-> "move_sp", n |-> -n]
           up == [do |-> "move_sp", n |-> n]
           pushes == [i \in 1 .. n |-> [do |-> "push", reg |-> Push(d)[i], at |-> i - 1]]
           pops == [i \in 1 .. p |-> [do |-> "pop", reg |-> Pop(d)[i], at |-> i - 1 - n]]
<1>1. /\ Push(d) \in Seq(Regs) /\ Pop(d) \in Seq(Regs) /\ d.body \in Seq(Item)
      /\ n \in Nat /\ p \in Nat /\ b \in Nat /\ p <= n
  BY PushPop
<1>2. Jump(d) \in Instr /\ d.body \in Seq(Instr)
  BY <1>1, SeqMonotonic DEF Jump, Instr
<1>3. down \in Instr /\ up \in Instr
  BY <1>1 DEF Instr
<1>4. pushes \in Seq(Instr) /\ Len(pushes) = n
  <2>1. \A i \in 1 .. n : Push(d)[i] \in Regs
    BY <1>1, ElementOfSeq DEF N
  <2>2. \A i \in 1 .. n : [do |-> "push", reg |-> Push(d)[i], at |-> i - 1] \in Instr
    BY <1>1, <2>1 DEF Instr
  <2> QED BY <1>1, <2>2
<1>5. pops \in Seq(Instr) /\ Len(pops) = p
  <2>1. \A i \in 1 .. p : Pop(d)[i] \in Regs
    BY <1>1, ElementOfSeq
  <2>2. \A i \in 1 .. p : [do |-> "pop", reg |-> Pop(d)[i], at |-> i - 1 - n] \in Instr
    BY <1>1, <2>1 DEF Instr
  <2> QED BY <1>1, <2>2
<1>6. DOMAIN Pop(d) = 1 .. p
  BY <1>1, LenProperties
<1>7. /\ pro = IF n = 0 THEN <<>> ELSE <<down>> \o pushes
      /\ epi = IF n = 0 THEN <<>> ELSE <<up>> \o pops
      /\ code = pro \o d.body \o epi \o <<Jump(d)>>
  BY <1>6 DEF Prologue, Epilogue, SubCode, N
<1> HIDE DEF n, b, p, pro, epi, code, down, up, pushes, pops
<1>8. /\ <<down>> \in Seq(Instr) /\ Len(<<down>>) = 1 /\ <<down>>[1] = down
      /\ <<up>> \in Seq(Instr) /\ Len(<<up>>) = 1 /\ <<up>>[1] = up
  BY <1>3
<1>9. /\ pro \in Seq(Instr) /\ Len(pro) = P(d)
      /\ n > 0 => pro[1] = down /\ \A i \in 1 .. n : pro[1 + i] = pushes[i]
  <2>1. CASE n = 0
    BY <1>1, <1>7, <2>1, EmptySeq DEF P, n
  <2>2. CASE n # 0
    <3>1. /\ <<down>> \o pushes \in Seq(Instr) /\ Len(<<down>> \o pushes) = 1 + n
          /\ \A i \in 1 .. 1 : (<<down>> \o pushes)[i] = <<down>>[i]
          /\ \A i \in 1 .. n : (<<down>> \o pushes)[1 + i] = pushes[i]
      BY <1>4, <1>8, Concat2
    <3>2. pro = <<down>> \o pushes /\ P(d) = n + 1
      BY <1>7, <2>2 DEF P, n
    <3>3. pro[1] = down
      BY <1>8, <3>1, <3>2
    <3> QED BY <1>1, <3>1, <3>2, <3>3
  <2> QED BY <2>1, <2>2
<1>10. /\ epi \in Seq(Instr) /\ Len(epi) = E(d)
       /\ n > 0 => epi[1] = up /\ \A i \in 1 .. p : epi[1 + i] = pops[i]
  <2>1. CASE n = 0
    BY <1>1, <1>7, <2>1, EmptySeq DEF E, n
  <2>2. CASE n # 0
    <3>1. /\ <<up>> \o pops \in Seq(Instr) /\ Len(<<up>> \o pops) = 1 + p
          /\ \A i \in 1 .. 1 : (<<up>> \o pops)[i] = <<up>>[i]
          /\ \A i \in 1 .. p : (<<up>> \o pops)[1 + i] = pops[i]
      BY <1>5, <1>8, Concat2
    <3>2. epi = <<up>> \o pops /\ E(d) = p + 1
      BY <1>7, <2>2 DEF E, n, p
    <3>3. epi[1] = up
      BY <1>8, <3>1, <3>2
    <3> QED BY <1>1, <3>1, <3>2, <3>3
  <2> QED BY <2>1, <2>2
<1>11. /\ code \in Seq(Instr) /\ Len(code) = Len(pro) + Len(d.body) + Len(epi) + 1
       /\ \A i \in 1 .. Len(pro) : code[i] = pro[i]
       /\ \A i \in 1 .. Len(d.body) : code[Len(pro) + i] = d.body[i]
       /\ \A i \in 1 .. Len(epi) : code[Len(pro) + Len(d.body) + i] = epi[i]
       /\ code[Len(pro) + Len(d.body) + Len(epi) + 1] = Jump(d)
  <2> DEFINE body == d.body
             jump == Jump(d)
  <2>1. /\ pro \in Seq(Instr) /\ body \in Seq(Instr) /\ epi \in Seq(Instr) /\ jump \in Instr
        /\ code = pro \o body \o epi \o <<jump>>
    BY <1>2, <1>7, <1>9, <1>10
  <2> HIDE DEF body, jump
  <2>2. /\ code \in Seq(Instr) /\ Len(code) = Len(pro) + Len(body) + Len(epi) + 1
        /\ \A i \in 1 .. Len(pro) : code[i] = pro[i]
        /\ \A i \in 1 .. Len(body) : code[Len(pro) + i] = body[i]
        /\ \A i \in 1 .. Len(epi) : code[Len(pro) + Len(body) + i] = epi[i]
        /\ code[Len(pro) + Len(body) + Len(epi) + 1] = jump
    BY <2>1, Concat4
  <2> QED BY <2>2 DEF body, jump
<1>12. /\ code \in Seq(Instr) /\ Len(code) = Size(d) /\ code[Size(d)] = Jump(d)
       /\ \A i \in 1 .. b : code[P(d) + i] = d.body[i]
  BY <1>9, <1>10, <1>11 DEF Size, B, b
<1>13. ASSUME n > 0
       PROVE  /\ code[1] = down /\ \A i \in 1 .. n : code[1 + i] = pushes[i]
              /\ code[n + b + 2] = up /\ \A i \in 1 .. p : code[n + b + 2 + i] = pops[i]
  <2>1. P(d) = n + 1 /\ E(d) = p + 1 /\ Len(d.body) = b
    BY <1>13 DEF P, E, n, p, b, B
  <2>2. code[1] = down
    BY <1>1, <1>9, <1>11, <1>13, <2>1
  <2>3. ASSUME NEW i \in 1 .. n PROVE code[1 + i] = pushes[i]
    <3>1. 1 + i \in 1 .. Len(pro)
      BY <1>1, <1>9, <2>1
    <3> QED BY <1>9, <1>11, <1>13, <3>1
  <2>4. code[n + b + 2] = up
    <3>1. 1 \in 1 .. Len(epi) /\ Len(pro) + Len(d.body) + 1 = n + b + 2
      BY <1>1, <1>9, <1>10, <2>1
    <3> QED BY <1>10, <1>11, <1>13, <3>1
  <2>5. ASSUME NEW i \in 1 .. p PROVE code[n + b + 2 + i] = pops[i]
    <3>1. 1 + i \in 1 .. Len(epi) /\ Len(pro) + Len(d.body) + (1 + i) = n + b + 2 + i
      BY <1>1, <1>9, <1>10, <2>1
    <3> QED BY <1>10, <1>11, <1>13, <3>1
  <2> QED BY <2>2, <2>3, <2>4, <2>5
<1>14. /\ \A i \in 1 .. n : pushes[i] = [do |-> "push", reg |-> Push(d)[i], at |-> i - 1]
       /\ \A i \in 1 .. p : pops[i] = [do |-> "pop", reg |-> Pop(d)[i], at |-> i - 1 - n]
  BY DEF pushes, pops
<1> QED BY <1>12, <1>13, <1>14 DEF n, b, p, code, down, up

-----------------------------------------------------------------------------
(* The inductive invariant.                                                *)

\* The code is where the labels say.
CodeInv ==
  /\ script \in Scripts
  /\ phase \in {"define", "run", "stopped", "overflow", "DuplicateDefError", "MissingDefError"}
  /\ ndefs \in 0 .. Len(script.defs) /\ included \in 0 .. Len(script.parts)
  /\ definition \in [Subs -> Definition \cup {None}]
  /\ image \in Seq(Instr) /\ Len(Start(script)) <= Len(image)
  /\ \A i \in 1 .. Len(Start(script)) : image[i] = Start(script)[i]
  /\ DOMAIN label \subseteq Subs
  /\ \A s \in DOMAIN label :
       /\ definition[s] \in Definition /\ label[s] \in Nat \ {0}
       /\ label[s] + Size(definition[s]) - 1 <= Len(image)
       /\ \A i \in 1 .. Size(definition[s]) : image[label[s] + i - 1] = SubCode(definition[s])[i]
  /\ phase = "run" => Called(image) \subseteq DOMAIN label

\* The frames lie below each other on the stack.  Each call but the last was made from
\* the body of the one before it, which is no leaf.
Def(f) == definition[f.sub]
Base(f) == f.regs[sp]
BehindCall(f, a) == a - label[f.sub] \in P(Def(f)) + 1 .. P(Def(f)) + B(Def(f))
FrameRec == [sub : DOMAIN label, ret : DOMAIN image, regs : UNION {[R -> Int] : R \in SUBSET Regs}]
FrameInv(f, j) ==
  /\ DOMAIN f.regs = Def(f).save \cup {sp}
  /\ Base(f) \in StackEnd .. StackTop - (j - 1)
  /\ lr \in Def(f).save => f.regs[lr] = f.ret
  /\ j = 1 => Base(f) = StackTop /\ f.ret \in 2 .. Len(script.main) + 1
LinkInv(g, f) == ~Def(g).leaf /\ Base(f) = Base(g) - N(Def(g)) /\ BehindCall(g, f.ret)
FramesInv ==
  /\ frames \in Seq(FrameRec)
  /\ \A j \in DOMAIN frames : FrameInv(frames[j], j) /\ (j > 1 => LinkInv(frames[j - 1], frames[j]))
  /\ \A j, k \in DOMAIN frames : j < k => Base(frames[k]) <= Base(frames[j]) - N(Def(frames[j]))
  /\ phase = "define" => frames = <<>>

\* What a subroutine relies on at each of its instructions, m being the RAM: until the
\* prologue is through nothing has changed but the stack; then the pushed words are
\* there; behind the epilogue's first instruction sp is back, and the registers popped
\* so far are.
Slot(f, d, q) == IF ~d.leaf /\ q = N(d) THEN f.ret ELSE f.regs[Push(d)[q]]
Holds(f, d, q, m) == m[Base(f) - N(d) + q - 1] = Slot(f, d, q)
Below(d, i) == N(d) > 0 /\ 2 <= i /\ i <= N(d) + B(d) + 2
AtPos(f, d, i, m) ==
  /\ d.leaf \/ i <= P(d) => m[lr] = f.ret
  /\ i <= P(d) => \A r \in d.save : m[r] = f.regs[r]
  /\ m[sp] = Base(f) - (IF Below(d, i) THEN N(d) ELSE 0)
  /\ N(d) > 0 /\ i > 1 => Base(f) - N(d) >= StackEnd
  /\ \A q \in 1 .. N(d) : q + 1 < i => Holds(f, d, q, m)
  /\ \A q \in 1 .. Len(Pop(d)) : N(d) + B(d) + 2 + q < i => m[Pop(d)[q]] = f.regs[Pop(d)[q]]

RunInv ==
  phase = "run" =>
    /\ pc \in Nat
    /\ frames = <<>> => pc \in 1 .. Len(Start(script)) /\ ram[sp] = StackTop
    /\ frames # <<>> =>
         LET f == frames[Len(frames)]
             i == pc - label[f.sub] + 1
         IN  i \in 1 .. Size(Def(f)) /\ AtPos(f, Def(f), i, ram)
    /\ \A j \in DOMAIN frames : j < Len(frames) =>
         \A q \in 1 .. N(Def(frames[j])) : Holds(frames[j], Def(frames[j]), q, ram)

MemInv ==
  /\ ram \in [Addrs -> Int]
  /\ phase = "define" => pc = 1 /\ ram[sp] = StackTop
IInv == CodeInv /\ FramesInv /\ RunInv /\ MemInv

-----------------------------------------------------------------------------
(* Building the script. *)

LEMMA DefsTyped ==
  ASSUME NEW x \in Scripts, NEW k \in 1 .. Len(x.defs)
  PROVE  x.defs[k] \in Definition
<1> DEFINE S == [sub : Subs, save : SUBSET Regs, leaf : BOOLEAN, body : Seq(Item)]
<1>1. x.defs \in Seq(S) /\ \A d \in Items(x.defs) : d.body \in Bodies
  BY ScriptsAssumption
<1>2. x.defs[k] \in S /\ x.defs[k] \in Items(x.defs)
  BY <1>1, ElementOfSeq, LenProperties DEF Items
<1> QED BY <1>1, <1>2, BodiesAssumption DEF Definition

LEMMA StartShape ==
  ASSUME NEW x \in Scripts
  PROVE  /\ x.main \in Bodies /\ x.main \in Seq(Item) /\ Len(x.main) \in Nat
         /\ Start(x) \in Seq(Instr) /\ Len(Start(x)) = Len(x.main) + 1
         /\ \A i \in 1 .. Len(x.main) : Start(x)[i] = x.main[i]
         /\ Start(x)[Len(x.main) + 1] = [do |-> "exit"]
<1> DEFINE main == x.main
           e == [do |-> "exit"]
           t == <<e>>
<1>1. main \in Bodies /\ main \in Seq(Item) /\ Len(main) \in Nat
  BY ScriptsAssumption, LenProperties DEF Bodies
<1>2. main \in Seq(Instr)
  BY <1>1, SeqMonotonic DEF Instr
<1>3. t \in Seq(Instr) /\ Len(t) = 1 /\ t[1] = e /\ Start(x) = main \o t
  BY DEF Start, Instr
<1>9. t \in Seq(Instr)
  BY <1>3
<1> HIDE DEF main, t, e
<1>4. /\ main \o t \in Seq(Instr) /\ Len(main \o t) = Len(main) + Len(t)
      /\ \A i \in 1 .. Len(main) : (main \o t)[i] = main[i]
      /\ \A i \in 1 .. Len(t) : (main \o t)[Len(main) + i] = t[i]
  BY <1>2, <1>9, Concat2
<1>5. (main \o t)[Len(main) + 1] = e
  BY <1>3, <1>4
<1> QED BY <1>1, <1>3, <1>4, <1>5 DEF main, e

LEMMA InvInit ==
  ASSUME Init PROVE IInv
<1>1. script \in Scripts
  BY DEF Init
<1>2. Start(script) \in Seq(Instr) /\ Len(Start(script)) = Len(script.main) + 1 /\ Len(script.main) \in Nat
  BY <1>1, StartShape
<1>3. Len(script.defs) \in Nat /\ Len(script.parts) \in Nat
  BY <1>1, ScriptsAssumption, LenProperties
<1>4. CodeInv
  <2>1. DOMAIN label = {}
    BY EmptySeq DEF Init
  <2>2. definition \in [Subs -> Definition \cup {None}]
    BY DEF Init
  <2> QED BY <1>1, <1>2, <1>3, <2>1, <2>2 DEF CodeInv, Init
<1>5. FramesInv
  BY EmptySeq DEF Init, FramesInv
<1>6. MemInv /\ RunInv
  BY Numbers DEF Init, MemInv, RunInv
<1> QED BY <1>4, <1>5, <1>6 DEF IInv

LEMMA DefineKeeps ==
  ASSUME IInv, Define PROVE IInv'
<1> DEFINE d == script.defs[ndefs + 1]
<1>1. /\ phase = "define" /\ ndefs < Len(script.defs) /\ ndefs' = ndefs + 1
      /\ script' = script /\ included' = included /\ image' = image /\ label' = label
      /\ ram' = ram /\ pc' = pc /\ frames' = frames
      /\ \/ definition[d.sub] = None /\ definition' = [definition EXCEPT ![d.sub] = d] /\ phase' = phase
         \/ definition' = definition /\ phase' = "DuplicateDefError"
  BY DEF Define, machine
<1>2. CodeInv /\ FramesInv /\ RunInv /\ MemInv
  BY DEF IInv
<1>3. Len(script.defs) \in Nat /\ ndefs \in Nat /\ ndefs' \in 0 .. Len(script.defs) /\ ndefs + 1 \in 1 .. Len(script.defs)
  BY <1>1, <1>2, ScriptsAssumption, LenProperties DEF CodeInv
<1>4. d \in Definition /\ d.sub \in Subs
  BY <1>2, <1>3, DefsTyped DEF CodeInv, Definition
<1>5. definition' \in [Subs -> Definition \cup {None}]
  BY <1>1, <1>2, <1>4 DEF CodeInv
<1>6. \A s \in DOMAIN label : definition[s] \in Definition /\ definition'[s] = definition[s]
  <2>1. None \notin Definition
    <3> SUFFICES ASSUME None \in Definition PROVE FALSE
      OBVIOUS
    <3>1. None \in [sub : Subs, save : SUBSET Regs, leaf : BOOLEAN, body : Seq(Item)]
      BY DEF Definition
    <3>2. DOMAIN None = {"sub", "save", "leaf", "body"} /\ DOMAIN None = {"save"}
      BY <3>1 DEF None
    <3> QED BY <3>2
  <2>2. ASSUME NEW s \in DOMAIN label PROVE definition[s] \in Definition /\ definition'[s] = definition[s]
    <3>1. definition[s] \in Definition /\ s \in Subs /\ definition[s] # None
      BY <1>2, <2>1 DEF CodeInv
    <3> QED BY <1>1, <1>2, <1>4, <3>1 DEF CodeInv
  <2> QED BY <2>2
<1>7. CodeInv'
  <2>1. phase' # "run" /\ phase' \in {"define", "DuplicateDefError"}
    BY <1>1
  <2>2. \A s \in DOMAIN label' :
       /\ definition'[s] \in Definition /\ label'[s] \in Nat \ {0}
       /\ label'[s] + Size(definition'[s]) - 1 <= Len(image')
       /\ \A i \in 1 .. Size(definition'[s]) : image'[label'[s] + i - 1] = SubCode(definition'[s])[i]
    BY <1>1, <1>2, <1>6 DEF CodeInv
  <2> QED BY <1>1, <1>2, <1>3, <1>5, <2>1, <2>2 DEF CodeInv
<1>8. FramesInv'
  <2>1. frames = <<>> /\ frames' = <<>>
    BY <1>1, <1>2 DEF FramesInv
  <2> QED BY <2>1, EmptySeq DEF FramesInv
<1>9. RunInv' /\ MemInv'
  BY <1>1, <1>2 DEF RunInv, MemInv
<1> QED BY <1>7, <1>8, <1>9 DEF IInv

LEMMA SizeNat ==
  ASSUME NEW d \in Definition
  PROVE  /\ Size(d) \in Nat \ {0} /\ P(d) \in Nat /\ E(d) \in Nat /\ B(d) \in Nat /\ N(d) \in Nat
         /\ Len(Pop(d)) \in Nat /\ Len(Pop(d)) <= N(d)
BY PushPop DEF Size, P, E

LEMMA IncludeKeeps ==
  ASSUME IInv, Include PROVE IInv'
<1> DEFINE s0 == script.parts[included + 1]
           d == definition[s0]
           code == SubCode(d)
<1>1. /\ phase = "define" /\ ndefs' = ndefs /\ included < Len(script.parts) /\ included' = included + 1
      /\ script' = script /\ definition' = definition
      /\ ram' = ram /\ pc' = pc /\ frames' = frames
  BY DEF Include, machine
<1>2. CodeInv /\ FramesInv /\ RunInv /\ MemInv
  BY DEF IInv
<1>3. /\ Len(script.parts) \in Nat /\ included' \in 0 .. Len(script.parts) /\ s0 \in Subs
  <2>1. script.parts \in Seq(Subs) /\ included \in 0 .. Len(script.parts)
    BY <1>2, ScriptsAssumption DEF CodeInv
  <2>2. Len(script.parts) \in Nat
    BY <2>1, LenProperties
  <2>3. included + 1 \in 1 .. Len(script.parts)
    BY <1>1, <2>1, <2>2
  <2> QED BY <1>1, <2>1, <2>2, <2>3, ElementOfSeq
<1>4. FramesInv' /\ RunInv' /\ MemInv'
  <2>1. phase' \in {"define", "MissingDefError"}
    BY <1>1 DEF Include
  <2>2. frames' = <<>>
    BY <1>1, <1>2 DEF FramesInv
  <2>3. FramesInv'
    BY <2>2, EmptySeq DEF FramesInv
  <2> QED BY <1>1, <1>2, <2>1, <2>3 DEF RunInv, MemInv
<1>5. CASE d = None
  <2>1. phase' = "MissingDefError" /\ image' = image /\ label' = label
    BY <1>5 DEF Include
  <2>2. CodeInv'
    BY <1>1, <1>2, <1>3, <2>1 DEF CodeInv
  <2> QED BY <1>4, <2>2 DEF IInv
<1>6. CASE d # None
  <2>1. /\ image' = image \o code /\ phase' = phase
        /\ label' = [x \in DOMAIN label \cup {s0} |-> IF x = s0 THEN Len(image) + 1 ELSE label[x]]
    BY <1>6 DEF Include
  <2>2. d \in Definition
    BY <1>2, <1>3, <1>6 DEF CodeInv
  <2>3. code \in Seq(Instr) /\ Len(code) = Size(d) /\ Size(d) \in Nat \ {0}
    BY <2>2, Shape, SizeNat
  <2>9. code \in Seq(Instr)
    BY <2>3
  <2> HIDE DEF code
  <2>4. /\ image' \in Seq(Instr) /\ Len(image') = Len(image) + Size(d) /\ Len(image) \in Nat
        /\ \A i \in 1 .. Len(image) : image'[i] = image[i]
        /\ \A i \in 1 .. Size(d) : image'[Len(image) + i] = code[i]
    <3>1. image \in Seq(Instr)
      BY <1>2 DEF CodeInv
    <3>2. /\ image \o code \in Seq(Instr) /\ Len(image \o code) = Len(image) + Len(code) /\ Len(image) \in Nat
          /\ \A i \in 1 .. Len(image) : (image \o code)[i] = image[i]
          /\ \A i \in 1 .. Len(code) : (image \o code)[Len(image) + i] = code[i]
      BY <2>9, <3>1, Concat2
    <3> QED BY <2>1, <2>3, <3>2
  <2>5. DOMAIN label' = DOMAIN label \cup {s0} /\ DOMAIN label' \subseteq Subs
    BY <1>2, <1>3, <2>1 DEF CodeInv
  <2>6. ASSUME NEW s \in DOMAIN label'
        PROVE  /\ definition[s] \in Definition /\ label'[s] \in Nat \ {0}
               /\ label'[s] + Size(definition[s]) - 1 <= Len(image')
               /\ \A i \in 1 .. Size(definition[s]) : image'[label'[s] + i - 1] = SubCode(definition[s])[i]
    <3>1. CASE s = s0
      <4>1. label'[s] = Len(image) + 1
        BY <2>1, <2>5, <3>1
      <4>2. \A i \in 1 .. Size(d) : label'[s] + i - 1 = Len(image) + i
        BY <2>4, <4>1
      <4>3. \A i \in 1 .. Size(d) : image'[label'[s] + i - 1] = code[i]
        BY <2>4, <4>2
      <4> QED BY <2>2, <2>3, <2>4, <3>1, <4>1, <4>3 DEF code
    <3>2. CASE s # s0
      <4>1. s \in DOMAIN label /\ label'[s] = label[s]
        BY <2>1, <2>5, <3>2
      <4>2. /\ definition[s] \in Definition /\ label[s] \in Nat \ {0}
            /\ label[s] + Size(definition[s]) - 1 <= Len(image)
            /\ \A i \in 1 .. Size(definition[s]) : image[label[s] + i - 1] = SubCode(definition[s])[i]
        BY <1>2, <4>1 DEF CodeInv
      <4>3. Size(definition[s]) \in Nat \ {0}
        BY <4>2, SizeNat
      <4>4. \A i \in 1 .. Size(definition[s]) : label[s] + i - 1 \in 1 .. Len(image)
        BY <2>4, <4>2, <4>3
      <4>5. \A i \in 1 .. Size(definition[s]) : image'[label[s] + i - 1] = image[label[s] + i - 1]
        BY <2>4, <4>4
      <4> QED BY <2>3, <2>4, <4>1, <4>2, <4>3, <4>5
    <3> QED BY <3>1, <3>2
  <2>7. Len(Start(script)) <= Len(image') /\ \A i \in 1 .. Len(Start(script)) : image'[i] = Start(script)[i]
    <3>1. Len(Start(script)) \in Nat /\ Len(Start(script)) <= Len(image)
      BY <1>2, StartShape DEF CodeInv
    <3>2. \A i \in 1 .. Len(Start(script)) : i \in 1 .. Len(image)
      BY <2>4, <3>1
    <3> QED BY <1>2, <2>3, <2>4, <3>1, <3>2 DEF CodeInv
  <2>8. CodeInv'
    <3>1. /\ script' \in Scripts /\ phase' = "define" /\ ndefs' \in 0 .. Len(script'.defs)
          /\ definition' \in [Subs -> Definition \cup {None}]
      BY <1>1, <1>2, <2>1 DEF CodeInv
    <3>2. included' \in 0 .. Len(script'.parts) /\ image' \in Seq(Instr) /\ DOMAIN label' \subseteq Subs
      BY <1>1, <1>3, <2>4, <2>5
    <3>3. /\ Len(Start(script')) <= Len(image')
          /\ \A i \in 1 .. Len(Start(script')) : image'[i] = Start(script')[i]
      BY <1>1, <2>7
    <3>4. \A s \in DOMAIN label' :
            /\ definition'[s] \in Definition /\ label'[s] \in Nat \ {0}
            /\ label'[s] + Size(definition'[s]) - 1 <= Len(image')
            /\ \A i \in 1 .. Size(definition'[s]) : image'[label'[s] + i - 1] = SubCode(definition'[s])[i]
      BY <1>1, <2>6
    <3> QED BY <3>1, <3>2, <3>3, <3>4 DEF CodeInv
  <2> QED BY <1>4, <2>8 DEF IInv
<1> QED BY <1>5, <1>6

LEMMA AssembleKeeps ==
  ASSUME IInv, Assemble PROVE IInv'
<1>1. /\ phase = "define" /\ phase' \in {"DuplicateDefError", "MissingDefError", "run"}
      /\ phase' = "run" => Called(image) \subseteq DOMAIN label
      /\ script' = script /\ ndefs' = ndefs /\ included' = included /\ image' = image /\ label' = label
      /\ definition' = definition /\ ram' = ram /\ pc' = pc /\ frames' = frames
  BY DEF Assemble, machine, python
<1>2. CodeInv /\ FramesInv /\ RunInv /\ MemInv
  BY DEF IInv
<1>3. CodeInv'
  BY <1>1, <1>2 DEF CodeInv
<1>4. frames = <<>> /\ pc = 1 /\ ram[sp] = StackTop
  BY <1>1, <1>2 DEF FramesInv, MemInv
<1>5. FramesInv'
  BY <1>1, <1>4, EmptySeq DEF FramesInv
<1>6. MemInv'
  BY <1>1, <1>2 DEF MemInv
<1>7. RunInv'
  <2>1. 1 \in 1 .. Len(Start(script))
    BY <1>2, StartShape DEF CodeInv
  <2> QED BY <1>1, <1>4, <2>1, EmptySeq DEF RunInv
<1> QED BY <1>3, <1>5, <1>6, <1>7 DEF IInv
-----------------------------------------------------------------------------
(* Where the machine is.                                                   *)

Top == frames[Len(frames)]
Outer(m) ==
  \A j \in DOMAIN frames : j < Len(frames) =>
    \A q \in 1 .. N(Def(frames[j])) : Holds(frames[j], Def(frames[j]), q, m)

\* Each instruction of a subroutine, by what it does.
LEMMA Locate ==
  ASSUME NEW d \in Definition, NEW i \in 1 .. Size(d), NEW x, x = SubCode(d)[i]
  PROVE  /\ x.do \in {"write", "call", "maybe"} =>
              i - P(d) \in 1 .. B(d) /\ x = d.body[i - P(d)]
         /\ x.do = "move_sp" =>
              N(d) > 0 /\ ((i = 1 /\ x.n = -N(d)) \/ (i = N(d) + B(d) + 2 /\ x.n = N(d)))
         /\ x.do = "push" =>
              N(d) > 0 /\ i - 1 \in 1 .. N(d) /\ x.reg = Push(d)[i - 1] /\ x.at = i - 2
         /\ x.do = "pop" =>
              LET k == i - (N(d) + B(d) + 2)
              IN  N(d) > 0 /\ k \in 1 .. Len(Pop(d)) /\ x.reg = Pop(d)[k] /\ x.at = k - 1 - N(d)
         /\ x.do \in {"jmp_lr", "jmp_mem"} => i = Size(d) /\ x = Jump(d)
         /\ x.do # "exit"
<1> DEFINE n == N(d)
           b == B(d)
           p == Len(Pop(d))
           c == SubCode(d)
<1>1. n \in Nat /\ b \in Nat /\ p \in Nat /\ p <= n /\ d.body \in Seq(Item) /\ P(d) \in Nat /\ i \in Nat
  BY PushPop, SizeNat
<1>2. /\ \A k \in 1 .. b : c[P(d) + k] = d.body[k]
      /\ c[Size(d)] = Jump(d)
      /\ n > 0 =>
           /\ c[1] = [do |-> "move_sp", n |-> -n]
           /\ \A k \in 1 .. n : c[1 + k] = [do |-> "push", reg |-> Push(d)[k], at |-> k - 1]
           /\ c[n + b + 2] = [do |-> "move_sp", n |-> n]
           /\ \A k \in 1 .. p : c[n + b + 2 + k] = [do |-> "pop", reg |-> Pop(d)[k], at |-> k - 1 - n]
  BY Shape
<1>3. /\ n = 0 => P(d) = 0 /\ Size(d) = b + 1
      /\ n > 0 => P(d) = n + 1 /\ Size(d) = n + b + p + 3
  BY <1>1 DEF P, E, Size, n, b, p
<1> HIDE DEF n, b, p, c
<1>4. \/ i - P(d) \in 1 .. b
      \/ n > 0 /\ (i = 1 \/ i - 1 \in 1 .. n \/ i = n + b + 2 \/ i - (n + b + 2) \in 1 .. p)
      \/ i = Size(d)
  BY <1>1, <1>3
<1>5. x = c[i]
  BY DEF c
<1>6. CASE i - P(d) \in 1 .. b
  <2>1. x = d.body[i - P(d)]
    <3>1. P(d) + (i - P(d)) = i
      BY <1>1
    <3> QED BY <1>2, <1>5, <1>6, <3>1
  <2>2. x \in Item
    BY <1>1, <1>6, <2>1, ElementOfSeq DEF b, B
  <2>3. x.do \in {"write", "call", "maybe"}
    BY <2>2 DEF Item
  <2> QED BY <1>6, <2>1, <2>3 DEF b
<1>7. CASE n > 0 /\ i = 1
  BY <1>2, <1>5, <1>7 DEF n
<1>8. CASE n > 0 /\ i - 1 \in 1 .. n
  <2>1. 1 + (i - 1) = i /\ i - 1 - 1 = i - 2
    BY <1>1
  <2>2. x = [do |-> "push", reg |-> Push(d)[i - 1], at |-> i - 2]
    BY <1>2, <1>5, <1>8, <2>1
  <2> QED BY <1>8, <2>2 DEF n
<1>9. CASE n > 0 /\ i = n + b + 2
  BY <1>2, <1>5, <1>9 DEF n, b
<1>10. CASE n > 0 /\ i - (n + b + 2) \in 1 .. p
  <2> DEFINE k == i - (n + b + 2)
  <2>1. n + b + 2 + k = i
    BY <1>1
  <2> HIDE DEF k
  <2>2. x = [do |-> "pop", reg |-> Pop(d)[k], at |-> k - 1 - n] /\ k \in 1 .. p
    BY <1>2, <1>5, <1>10, <2>1 DEF k
  <2>3. x.do = "pop" /\ x.reg = Pop(d)[k] /\ x.at = k - 1 - n
    BY <2>2
  <2> QED BY <1>10, <2>2, <2>3 DEF n, b, p, k
<1>11. CASE i = Size(d)
  <2>1. x = Jump(d)
    BY <1>2, <1>5, <1>11
  <2>2. x.do \in {"jmp_lr", "jmp_mem"}
    BY <2>1 DEF Jump
  <2> QED BY <1>11, <2>1, <2>2
<1> QED BY <1>4, <1>6, <1>7, <1>8, <1>9, <1>10, <1>11

\* The code of the subroutine being executed.
LEMMA InSub ==
  ASSUME IInv, phase = "run", frames # <<>>
  PROVE  /\ Len(frames) \in DOMAIN frames /\ Top.sub \in DOMAIN label /\ Def(Top) \in Definition
         /\ label[Top.sub] \in Nat \ {0} /\ label[Top.sub] + Size(Def(Top)) - 1 <= Len(image)
         /\ pc \in DOMAIN image /\ pc - label[Top.sub] + 1 \in 1 .. Size(Def(Top))
         /\ image[pc] = SubCode(Def(Top))[pc - label[Top.sub] + 1]
         /\ AtPos(Top, Def(Top), pc - label[Top.sub] + 1, ram)
<1>1. CodeInv /\ FramesInv /\ RunInv
  BY DEF IInv
<1>2. frames \in Seq(FrameRec) /\ image \in Seq(Instr)
  BY <1>1 DEF FramesInv, CodeInv
<1>3. Len(frames) \in DOMAIN frames /\ DOMAIN image = 1 .. Len(image) /\ Len(image) \in Nat
  BY <1>2, EmptySeq, LenProperties
<1>4. Top.sub \in DOMAIN label
  <2>1. Top \in FrameRec
    BY <1>2, <1>3, ElementOfSeq, LenProperties DEF Top
  <2> QED BY <2>1 DEF FrameRec
<1>5. /\ Def(Top) \in Definition /\ label[Top.sub] \in Nat \ {0}
      /\ label[Top.sub] + Size(Def(Top)) - 1 <= Len(image)
      /\ \A i \in 1 .. Size(Def(Top)) : image[label[Top.sub] + i - 1] = SubCode(Def(Top))[i]
  BY <1>1, <1>4 DEF CodeInv, Def
<1>6. /\ pc - label[Top.sub] + 1 \in 1 .. Size(Def(Top))
      /\ AtPos(Top, Def(Top), pc - label[Top.sub] + 1, ram)
  BY <1>1 DEF RunInv, Top
<1>7. pc \in Nat /\ pc = label[Top.sub] + (pc - label[Top.sub] + 1) - 1
  <2>1. pc \in Nat
    BY <1>1 DEF RunInv
  <2> QED BY <1>5, <1>6, <2>1
<1>8. Size(Def(Top)) \in Nat
  BY <1>5, SizeNat
<1> QED BY <1>3, <1>4, <1>5, <1>6, <1>7, <1>8, SMTT(60)

\* The main code while no call is open.
LEMMA InMain ==
  ASSUME IInv, phase = "run", frames = <<>>
  PROVE  /\ script \in Scripts /\ pc \in 1 .. Len(Start(script)) /\ pc \in DOMAIN image /\ ram[sp] = StackTop
         /\ Len(Start(script)) = Len(script.main) + 1 /\ Len(script.main) \in Nat
         /\ \/ pc \in 1 .. Len(script.main) /\ image[pc] = script.main[pc] /\ image[pc] \in Item
            \/ pc = Len(script.main) + 1 /\ image[pc] = [do |-> "exit"]
<1>1. CodeInv /\ RunInv
  BY DEF IInv
<1>2. /\ script \in Scripts /\ image \in Seq(Instr) /\ Len(Start(script)) <= Len(image)
      /\ \A i \in 1 .. Len(Start(script)) : image[i] = Start(script)[i]
  BY <1>1 DEF CodeInv
<1>3. pc \in 1 .. Len(Start(script)) /\ ram[sp] = StackTop
  BY <1>1 DEF RunInv
<1>4. /\ script.main \in Seq(Item) /\ Len(script.main) \in Nat /\ Len(Start(script)) = Len(script.main) + 1
      /\ \A i \in 1 .. Len(script.main) : Start(script)[i] = script.main[i]
      /\ Start(script)[Len(script.main) + 1] = [do |-> "exit"]
  BY <1>2, StartShape
<1>5. DOMAIN image = 1 .. Len(image) /\ Len(image) \in Nat
  BY <1>2, LenProperties
<1>6. pc \in DOMAIN image
  BY <1>2, <1>3, <1>4, <1>5
<1>7. image[pc] = Start(script)[pc]
  BY <1>2, <1>3
<1>8. CASE pc \in 1 .. Len(script.main)
  <2>1. image[pc] = script.main[pc]
    BY <1>4, <1>7, <1>8
  <2>2. script.main[pc] \in Item
    BY <1>4, <1>8, ElementOfSeq
  <2> QED BY <1>2, <1>3, <1>4, <1>6, <1>8, <2>1, <2>2
<1>9. CASE pc = Len(script.main) + 1
  BY <1>2, <1>3, <1>4, <1>6, <1>7, <1>9
<1>10. pc \in 1 .. Len(script.main) \/ pc = Len(script.main) + 1
  BY <1>3, <1>4
<1> QED BY <1>8, <1>9, <1>10

\* The body runs with the words pushed, and nothing else is asked of it.
AtBody(f, d, m) ==
  /\ d.leaf => m[lr] = f.ret
  /\ m[sp] = Base(f) - N(d)
  /\ N(d) > 0 => Base(f) - N(d) >= StackEnd
  /\ \A q \in 1 .. N(d) : Holds(f, d, q, m)

LEMMA BodyZone ==
  ASSUME NEW d \in Definition, NEW i \in P(d) + 1 .. P(d) + B(d) + 1, NEW f, NEW m, Base(f) \in Int
  PROVE  AtPos(f, d, i, m) <=> AtBody(f, d, m)
<1> DEFINE n == N(d)
           p == Len(Pop(d))
<1>1. n \in Nat /\ B(d) \in Nat /\ p \in Nat /\ P(d) = (IF n = 0 THEN 0 ELSE n + 1) /\ p <= n
  BY SizeNat DEF P
<1>2. ~(i <= P(d)) /\ (n > 0 => i > 1) /\ (Below(d, i) <=> n > 0)
  BY <1>1 DEF Below
<1>3. \A q \in 1 .. n : q + 1 < i
  BY <1>1
<1>4. \A q \in 1 .. p : ~(n + B(d) + 2 + q < i)
  BY <1>1
<1>5. Base(f) - (IF Below(d, i) THEN n ELSE 0) = Base(f) - n
  BY <1>1, <1>2
<1> HIDE DEF n, p
<1> QED BY <1>2, <1>3, <1>4, <1>5 DEF AtPos, AtBody, n, p

\* The frames on the stack.
LEMMA Frames ==
  ASSUME IInv
  PROVE  /\ frames \in Seq(FrameRec) /\ Len(frames) \in Nat /\ DOMAIN frames = 1 .. Len(frames)
         /\ \A j \in DOMAIN frames :
              /\ frames[j].sub \in DOMAIN label /\ frames[j].ret \in DOMAIN image
              /\ Def(frames[j]) \in Definition /\ Base(frames[j]) \in Int
              /\ StackEnd <= Base(frames[j]) /\ Base(frames[j]) <= StackTop - (j - 1)
              /\ frames[j].regs \in [Def(frames[j]).save \cup {sp} -> Int]
<1>1. CodeInv /\ FramesInv
  BY DEF IInv
<1>2. frames \in Seq(FrameRec)
  BY <1>1 DEF FramesInv
<1>3. Len(frames) \in Nat /\ DOMAIN frames = 1 .. Len(frames)
  BY <1>2, LenProperties
<1>4. ASSUME NEW j \in DOMAIN frames
      PROVE  /\ frames[j].sub \in DOMAIN label /\ frames[j].ret \in DOMAIN image
             /\ Def(frames[j]) \in Definition /\ Base(frames[j]) \in Int
             /\ StackEnd <= Base(frames[j]) /\ Base(frames[j]) <= StackTop - (j - 1)
             /\ frames[j].regs \in [Def(frames[j]).save \cup {sp} -> Int]
  <2>1. frames[j] \in FrameRec
    BY <1>2, <1>3, ElementOfSeq
  <2>2. frames[j].sub \in DOMAIN label /\ frames[j].ret \in DOMAIN image
    BY <2>1 DEF FrameRec
  <2>3. frames[j].regs \in UNION {[R -> Int] : R \in SUBSET Regs}
    BY <2>1 DEF FrameRec
  <2>4. DOMAIN frames[j].regs = Def(frames[j]).save \cup {sp} /\ Base(frames[j]) \in StackEnd .. StackTop - (j - 1)
    BY <1>1 DEF FramesInv, FrameInv
  <2>5. frames[j].regs \in [Def(frames[j]).save \cup {sp} -> Int]
    BY <2>3, <2>4
  <2>6. Def(frames[j]) \in Definition
    BY <1>1, <2>2 DEF CodeInv, Def
  <2>7. Base(frames[j]) \in Int /\ StackEnd <= Base(frames[j]) /\ Base(frames[j]) <= StackTop - (j - 1)
    BY <1>3, <2>4, Numbers
  <2> QED BY <2>2, <2>5, <2>6, <2>7
<1> QED BY <1>2, <1>3, <1>4

\* A word pushed for a frame is on the stack, below the frame's base.
LEMMA SlotOnStack ==
  ASSUME IInv, NEW j \in DOMAIN frames, NEW q \in 1 .. N(Def(frames[j])),
         Base(frames[j]) - N(Def(frames[j])) >= StackEnd
  PROVE  /\ Base(frames[j]) - N(Def(frames[j])) + q - 1 \in Addrs
         /\ Base(frames[j]) - N(Def(frames[j])) + q - 1 >= StackEnd
<1> DEFINE f == frames[j]
           n == N(Def(f))
<1>0. j \in Nat \ {0}
  BY Frames
<1>1. Base(f) \in Int /\ StackEnd <= Base(f) /\ Base(f) <= StackTop - (j - 1) /\ Def(f) \in Definition
  BY Frames
<1>2. n \in Nat
  BY <1>1, SizeNat
<1> HIDE DEF f, n
<1>3. q \in 1 .. n /\ Base(f) - n >= StackEnd
  BY DEF f, n
<1>4. Base(f) - n + q - 1 \in Addrs /\ Base(f) - n + q - 1 >= StackEnd
  BY <1>0, <1>1, <1>2, <1>3, Numbers DEF Addrs
<1> QED BY <1>4 DEF f, n

\* What is written below the last frame's base does not reach the words of the frames
\* before it.
LEMMA OuterKept ==
  ASSUME IInv, phase = "run", NEW m,
         \A a \in Addrs : frames # <<>> /\ a >= Base(Top) => m[a] = ram[a]
  PROVE  Outer(m)
<1> SUFFICES ASSUME NEW j \in DOMAIN frames, j < Len(frames), NEW q \in 1 .. N(Def(frames[j]))
             PROVE  Holds(frames[j], Def(frames[j]), q, m)
  BY DEF Outer
<1> DEFINE f == frames[j]
           n == N(Def(f))
           L == Len(frames)
           a == Base(f) - n + q - 1
<1>1. L \in DOMAIN frames /\ frames # <<>> /\ j \in Nat /\ L \in Nat
  BY Frames, EmptySeq
<1>2. Base(Top) <= Base(f) - n
  BY <1>1 DEF IInv, FramesInv, Top
<1>3. Base(Top) \in Int /\ StackEnd <= Base(Top) /\ Base(f) \in Int /\ Def(f) \in Definition
  BY <1>1, Frames DEF Top
<1>4. n \in Nat
  BY <1>3, SizeNat
<1>5. Base(f) - n >= StackEnd
  BY <1>2, <1>3, <1>4, Numbers
<1>6. a \in Addrs /\ a >= Base(Top)
  <2>1. a \in Addrs
    BY <1>5, SlotOnStack
  <2> HIDE DEF f, n
  <2>2. q \in 1 .. n
    BY DEF f, n
  <2> QED BY <1>2, <1>3, <1>4, <2>1, <2>2
<1>7. Holds(f, Def(f), q, ram)
  BY DEF IInv, RunInv
<1> QED BY <1>1, <1>6, <1>7 DEF Holds

-----------------------------------------------------------------------------
(* The steps of the machine.                                               *)

\* The code stays as it is, and so do the frames while nothing is called or left.
LEMMA CodeStays ==
  ASSUME IInv, phase = "run", phase' \in {"run", "stopped", "overflow"}, UNCHANGED <<script, python>>
  PROVE  /\ CodeInv' /\ \A f : Def(f)' = definition[f.sub]' /\ definition' = definition /\ label' = label
         /\ frames' = frames => FramesInv'
<1>1. /\ script' = script /\ definition' = definition /\ ndefs' = ndefs /\ included' = included
      /\ image' = image /\ label' = label
  BY DEF python
<1>2. CodeInv /\ FramesInv
  BY DEF IInv
<1>3. CodeInv'
  BY <1>1, <1>2 DEF CodeInv
<1>4. ASSUME frames' = frames PROVE FramesInv'
  BY <1>1, <1>2, <1>4 DEF FramesInv, FrameInv, LinkInv, FrameRec, Def, BehindCall
<1> QED BY <1>1, <1>3, <1>4 DEF Def

LEMMA Halts ==
  ASSUME IInv, phase = "run", phase' \in {"stopped", "overflow"}, UNCHANGED <<script, python>>,
         frames' = frames, ram' \in [Addrs -> Int]
  PROVE  IInv'
<1>1. CodeInv' /\ FramesInv'
  BY CodeStays
<1>2. RunInv' /\ MemInv'
  BY DEF RunInv, MemInv
<1> QED BY <1>1, <1>2 DEF IInv

\* A step within the code that runs.
LEMMA Stays ==
  ASSUME IInv, phase = "run", phase' = "run", UNCHANGED <<script, python>>, frames' = frames,
         ram' \in [Addrs -> Int], pc' \in Nat, Outer(ram'),
         frames = <<>> => pc' \in 1 .. Len(Start(script)) /\ ram'[sp] = StackTop,
         frames # <<>> => /\ pc' - label[Top.sub] + 1 \in 1 .. Size(Def(Top))
                          /\ AtPos(Top, Def(Top), pc' - label[Top.sub] + 1, ram')
  PROVE  IInv'
<1>1. CodeInv' /\ FramesInv'
  BY CodeStays
<1>2. MemInv'
  BY DEF MemInv
<1>3. script' = script /\ definition' = definition /\ label' = label
  BY DEF python
<1>4. RunInv'
  <2>1. frames' = <<>> => pc' \in 1 .. Len(Start(script')) /\ ram'[sp] = StackTop
    BY <1>3
  <2>2. frames' # <<>> =>
         LET f == frames'[Len(frames')]
             i == pc' - label'[f.sub] + 1
         IN  i \in 1 .. Size(definition'[f.sub]) /\ AtPos(f, definition'[f.sub], i, ram')
    BY <1>3 DEF Top, Def
  <2>3. \A j \in DOMAIN frames' : j < Len(frames') =>
         \A q \in 1 .. N(definition'[frames'[j].sub]) : Holds(frames'[j], definition'[frames'[j].sub], q, ram')
    BY <1>3 DEF Outer, Def
  <2> QED BY <2>1, <2>2, <2>3 DEF RunInv, Def
<1> QED BY <1>1, <1>2, <1>4 DEF IInv

\* What an instruction of a body is made of.
LEMMA BodyItem ==
  ASSUME NEW body \in Bodies, NEW k \in 1 .. Len(body)
  PROVE  /\ Len(body) \in Nat
         /\ body[k].do = "write" => body[k].reg \in Regs /\ body[k].reg \in Written(body)
         /\ body[k].do = "call" => body[k].sub \in Subs
         /\ body[k].do = "maybe" => body[k].n \in Nat /\ k + body[k].n <= Len(body)
         /\ body[k] \in Items(body)
<1>1. body \in Seq(Item) /\ \A i \in DOMAIN body : body[i].do = "maybe" => i + body[i].n <= Len(body)
  BY DEF Bodies
<1>2. Len(body) \in Nat /\ k \in DOMAIN body /\ body[k] \in Item
  BY <1>1, ElementOfSeq, LenProperties
<1>3. body[k] \in Items(body)
  BY <1>2 DEF Items
<1>4. body[k].do = "write" => body[k].reg \in Regs /\ body[k].reg \in Written(body)
  BY <1>2, <1>3 DEF Item, Written
<1>5. /\ body[k].do = "call" => body[k].sub \in Subs
      /\ body[k].do = "maybe" => body[k].n \in Nat
  BY <1>2 DEF Item
<1> QED BY <1>1, <1>2, <1>3, <1>4, <1>5

LEMMA SubItem ==
  ASSUME NEW d \in Definition, NEW k \in 1 .. B(d), NEW x, x = d.body[k]
  PROVE  /\ x.do = "write" => x.reg \in Regs /\ x.reg # sp /\ (d.leaf => x.reg # lr)
         /\ x.do = "call" => x.sub \in Subs /\ ~d.leaf
         /\ x.do = "maybe" => x.n \in Nat /\ k + x.n <= B(d)
<1> DEFINE body == d.body
<1>1. /\ body \in Bodies /\ sp \notin Written(body) /\ k \in 1 .. Len(body) /\ x = body[k]
      /\ d.leaf => lr \notin Written(body) /\ \A y \in Items(body) : y.do # "call"
  BY DEF Definition, B
<1>2. B(d) = Len(body)
  BY DEF B
<1> HIDE DEF body
<1>3. /\ x.do = "write" => x.reg \in Regs /\ x.reg \in Written(body)
      /\ x.do = "call" => x.sub \in Subs
      /\ x.do = "maybe" => x.n \in Nat /\ k + x.n <= Len(body)
      /\ x \in Items(body)
  BY <1>1, BodyItem
<1> QED BY <1>1, <1>2, <1>3

LEMMA ExitKeeps ==
  ASSUME IInv, Exit PROVE IInv'
<1>1. phase = "run" /\ phase' = "stopped" /\ UNCHANGED <<script, python>> /\ frames' = frames /\ ram' = ram
  BY DEF Exit, Running
<1>2. ram' \in [Addrs -> Int]
  BY <1>1 DEF IInv, MemInv
<1> QED BY <1>1, <1>2, Halts

LEMMA WriteKeeps ==
  ASSUME IInv, Write PROVE IInv'
<1> DEFINE x == image[pc]
           r == x.reg
<1>1. /\ phase = "run" /\ x.do = "write" /\ UNCHANGED <<script, python>> /\ phase' = "run" /\ frames' = frames
      /\ pc' = pc + 1
  BY DEF Write, Running
<1>2. PICK v \in Values : ram' = [ram EXCEPT ![r] = v]
  BY DEF Write
<1>3. ram \in [Addrs -> Int] /\ v \in Int /\ pc \in Nat
  BY <1>1, BoundAssumption DEF IInv, MemInv, RunInv
<1>4. CASE frames = <<>>
  <2>1. /\ script \in Scripts /\ ram[sp] = StackTop /\ Len(Start(script)) = Len(script.main) + 1
        /\ Len(script.main) \in Nat /\ pc \in 1 .. Len(script.main) /\ x = script.main[pc]
    BY <1>1, <1>4, InMain
  <2>2. script.main \in Bodies /\ sp \notin Written(script.main)
    BY <2>1, ScriptsAssumption, BodiesAssumption
  <2>3. r \in Regs /\ r # sp
    BY <1>1, <2>1, <2>2, BodyItem
  <2>4. ram' \in [Addrs -> Int] /\ ram'[sp] = StackTop
    BY <1>2, <1>3, <2>1, <2>3, Numbers
  <2>5. Outer(ram')
    BY <1>1, <1>4, OuterKept
  <2>6. pc' \in Nat /\ pc' \in 1 .. Len(Start(script))
    BY <1>1, <1>3, <2>1
  <2> QED BY <1>1, <1>4, <2>4, <2>5, <2>6, Stays
<1>5. CASE frames # <<>>
  <2> DEFINE f == Top
             d == Def(Top)
             i == pc - label[Top.sub] + 1
  <2>1. /\ Len(frames) \in DOMAIN frames /\ d \in Definition /\ i \in 1 .. Size(d) /\ x = SubCode(d)[i]
        /\ AtPos(f, d, i, ram) /\ label[Top.sub] \in Nat
    BY <1>1, <1>5, InSub
  <2>2. Base(f) \in Int /\ StackEnd <= Base(f)
    BY <2>1, Frames DEF Top
  <2>3. i - P(d) \in 1 .. B(d) /\ x = d.body[i - P(d)]
    BY <1>1, <2>1, Locate
  <2>4. P(d) \in Nat /\ B(d) \in Nat /\ E(d) \in Nat /\ Size(d) = P(d) + B(d) + E(d) + 1
    BY <2>1, SizeNat DEF Size
  <2>5. pc' - label[Top.sub] + 1 = i + 1
    BY <1>1, <1>3, <2>1
  <2>6. i \in P(d) + 1 .. P(d) + B(d) + 1 /\ i + 1 \in P(d) + 1 .. P(d) + B(d) + 1 /\ i + 1 \in 1 .. Size(d)
    BY <2>1, <2>3, <2>4
  <2>8. r \in Regs /\ r # sp /\ (d.leaf => r # lr)
    <3> HIDE DEF d, i, x
    <3>1. x.reg \in Regs /\ x.reg # sp /\ (d.leaf => x.reg # lr)
      BY <1>1, <2>1, <2>3, SubItem
    <3> QED BY <3>1
  <2>9. ram' \in [Addrs -> Int] /\ ram'[r] = v /\ \A a \in Addrs : a # r => ram'[a] = ram[a]
    BY <1>2, <1>3, <2>8, Numbers
  <2>10. \A a \in Addrs : a >= StackEnd => ram'[a] = ram[a]
    BY <2>8, <2>9, Numbers DEF Addrs
  <2>11. Outer(ram')
    <3>1. \A a \in Addrs : a >= Base(Top) => ram'[a] = ram[a]
      BY <2>2, <2>10, Numbers DEF Addrs
    <3> QED BY <1>1, <3>1, OuterKept
  <2>12. AtBody(f, d, ram)
    BY <2>1, <2>2, <2>6, BodyZone
  <2>13. AtBody(f, d, ram')
    <3>1. d.leaf => ram'[lr] = f.ret
      BY <2>8, <2>9, <2>12, Numbers DEF AtBody
    <3>2. ram'[sp] = Base(f) - N(d) /\ (N(d) > 0 => Base(f) - N(d) >= StackEnd)
      BY <2>8, <2>9, <2>12, Numbers DEF AtBody
    <3>3. ASSUME NEW q \in 1 .. N(d) PROVE Holds(f, d, q, ram')
      <4>1. N(d) > 0
        BY <2>1, SizeNat
      <4>2. Base(f) - N(d) + q - 1 \in Addrs /\ Base(f) - N(d) + q - 1 >= StackEnd
        BY <2>1, <3>2, <4>1, SlotOnStack DEF Top
      <4> QED BY <2>10, <2>12, <4>2 DEF AtBody, Holds
    <3> QED BY <3>1, <3>2, <3>3 DEF AtBody
  <2>14. AtPos(f, d, i + 1, ram')
    BY <2>1, <2>2, <2>6, <2>13, BodyZone
  <2> QED BY <1>1, <1>3, <1>5, <2>5, <2>6, <2>9, <2>11, <2>14, Stays
<1> QED BY <1>4, <1>5

LEMMA MaybeKeeps ==
  ASSUME IInv, Maybe PROVE IInv'
<1> DEFINE x == image[pc]
<1>1. /\ phase = "run" /\ x.do = "maybe" /\ UNCHANGED <<script, python>> /\ phase' = "run" /\ frames' = frames
      /\ ram' = ram /\ (pc' = pc + 1 \/ pc' = pc + 1 + x.n)
  BY DEF Maybe, Running
<1>2. ram' \in [Addrs -> Int] /\ pc \in Nat
  BY <1>1 DEF IInv, MemInv, RunInv
<1>3. Outer(ram')
  BY <1>1, OuterKept
<1>4. CASE frames = <<>>
  <2>1. /\ script \in Scripts /\ ram[sp] = StackTop /\ Len(Start(script)) = Len(script.main) + 1
        /\ Len(script.main) \in Nat /\ pc \in 1 .. Len(script.main) /\ x = script.main[pc]
    BY <1>1, <1>4, InMain
  <2>2. script.main \in Bodies
    BY <2>1, ScriptsAssumption
  <2>3. x.n \in Nat /\ pc + x.n <= Len(script.main)
    BY <1>1, <2>1, <2>2, BodyItem
  <2>4. pc' \in Nat /\ pc' \in 1 .. Len(Start(script))
    BY <1>1, <1>2, <2>1, <2>3
  <2> QED BY <1>1, <1>2, <1>3, <1>4, <2>1, <2>4, Stays
<1>5. CASE frames # <<>>
  <2> DEFINE f == Top
             d == Def(Top)
             i == pc - label[Top.sub] + 1
             j == pc' - label[Top.sub] + 1
  <2>1. /\ Len(frames) \in DOMAIN frames /\ d \in Definition /\ i \in 1 .. Size(d) /\ x = SubCode(d)[i]
        /\ AtPos(f, d, i, ram) /\ label[Top.sub] \in Nat
    BY <1>1, <1>5, InSub
  <2>2. Base(f) \in Int
    BY <2>1, Frames DEF Top
  <2>3. i - P(d) \in 1 .. B(d) /\ x = d.body[i - P(d)]
    BY <1>1, <2>1, Locate
  <2>4. P(d) \in Nat /\ B(d) \in Nat /\ E(d) \in Nat /\ Size(d) = P(d) + B(d) + E(d) + 1
    BY <2>1, SizeNat DEF Size
  <2>5. x.n \in Nat /\ i - P(d) + x.n <= B(d)
    <3> HIDE DEF d, i, x
    <3>1. x.n \in Nat /\ i - P(d) + x.n <= B(d)
      BY <1>1, <2>1, <2>3, SubItem
    <3> QED BY <3>1
  <2>6. i \in Int /\ (j = i + 1 \/ j = i + 1 + x.n)
    <3> DEFINE l == label[Top.sub]
               n == x.n
    <3>1. l \in Nat /\ n \in Nat /\ (pc' = pc + 1 \/ pc' = pc + 1 + n)
      BY <1>1, <2>1, <2>5
    <3> HIDE DEF l, n
    <3>2. pc - l + 1 \in Int /\ (pc' - l + 1 = pc - l + 1 + 1 \/ pc' - l + 1 = pc - l + 1 + 1 + n)
      BY <1>2, <3>1
    <3> QED BY <3>2 DEF l, n
  <2>7. i \in P(d) + 1 .. P(d) + B(d) + 1 /\ j \in P(d) + 1 .. P(d) + B(d) + 1 /\ j \in 1 .. Size(d)
    <3> DEFINE n == x.n
    <3>1. n \in Nat /\ i - P(d) + n <= B(d) /\ (j = i + 1 \/ j = i + 1 + n) /\ i - P(d) \in 1 .. B(d)
      BY <2>3, <2>5, <2>6
    <3> HIDE DEF i, j, d, n
    <3> QED BY <2>4, <2>6, <3>1
  <2>8. AtPos(f, d, j, ram')
    <3>1. AtBody(f, d, ram)
      BY <2>1, <2>2, <2>7, BodyZone
    <3> QED BY <1>1, <2>1, <2>2, <2>7, <3>1, BodyZone
  <2>9. pc' \in Nat
    BY <1>1, <1>2, <2>5
  <2> QED BY <1>1, <1>2, <1>3, <1>5, <2>7, <2>8, <2>9, Stays
<1> QED BY <1>4, <1>5

\* The prologue takes the stack, the epilogue gives it back.
LEMMA MoveSpKeeps ==
  ASSUME IInv, MoveSp PROVE IInv'
<1> DEFINE x == image[pc]
           f == Top
           d == Def(Top)
           n == N(Def(Top))
           i == pc - label[Top.sub] + 1
<1>1. /\ phase = "run" /\ x.do = "move_sp" /\ UNCHANGED <<script, python>> /\ frames' = frames
      /\ ram' = [ram EXCEPT ![sp] = ram[sp] + x.n] /\ pc' = pc + 1
      /\ phase' = IF ram[sp] + x.n < StackEnd THEN "overflow" ELSE phase
  BY DEF MoveSp, Running
<1>2. ram \in [Addrs -> Int] /\ pc \in Nat
  BY <1>1 DEF IInv, MemInv, RunInv
<1>3. frames # <<>>
  <2> SUFFICES ASSUME frames = <<>> PROVE FALSE
    OBVIOUS
  <2>1. x \in Item \/ x = [do |-> "exit"]
    BY <1>1, InMain
  <2> QED BY <1>1, <2>1 DEF Item
<1>4. /\ Len(frames) \in DOMAIN frames /\ d \in Definition /\ i \in 1 .. Size(d) /\ x = SubCode(d)[i]
      /\ AtPos(f, d, i, ram) /\ label[Top.sub] \in Nat
  BY <1>1, <1>3, InSub
<1>5. Base(f) \in Int /\ StackEnd <= Base(f)
  BY <1>4, Frames DEF Top
<1>6. n \in Nat /\ n > 0 /\ ((i = 1 /\ x.n = -n) \/ (i = n + B(d) + 2 /\ x.n = n))
  BY <1>1, <1>4, Locate, SizeNat, SMTT(60)
<1>7. /\ B(d) \in Nat /\ P(d) = n + 1 /\ Len(Pop(d)) \in Nat /\ Size(d) = n + B(d) + Len(Pop(d)) + 3
  BY <1>4, <1>6, SizeNat DEF Size, P, E
<1>8. ram[sp] = Base(f) - (IF Below(d, i) THEN n ELSE 0)
  BY <1>4 DEF AtPos
<1>13. n = N(d)
  OBVIOUS
<1> HIDE DEF x, f, d, n, i
<1>9. ram[sp] \in Int /\ x.n \in Int
  BY <1>5, <1>6, <1>8
<1>10. ram' \in [Addrs -> Int] /\ ram'[sp] = ram[sp] + x.n /\ \A a \in Addrs : a # sp => ram'[a] = ram[a]
  BY <1>1, <1>2, <1>9, Numbers
<1>11. CASE phase' = "overflow"
  BY <1>1, <1>10, <1>11, Halts
<1>12. CASE phase' # "overflow"
  <2>1. phase' = "run" /\ ram[sp] + x.n >= StackEnd
    BY <1>1, <1>9, <1>12, Numbers
  <2>2. Outer(ram')
    <3>1. \A a \in Addrs : a >= Base(Top) => ram'[a] = ram[a]
      BY <1>5, <1>10, Numbers DEF Addrs, f
    <3> QED BY <1>1, <3>1, OuterKept
  <2>3. pc' \in Nat /\ pc' - label[Top.sub] + 1 = i + 1
    BY <1>1, <1>2, <1>4 DEF i
  <2>4. i + 1 \in 1 .. Size(d)
    BY <1>6, <1>7
  <2>5. AtPos(f, d, i + 1, ram')
    <3>1. CASE i = 1 /\ x.n = -n
      <4>1. Base(f) - n >= StackEnd /\ ram'[sp] = Base(f) - n
        BY <1>5, <1>6, <1>8, <1>10, <2>1, <3>1, <1>13 DEF Below
      <4>2. i <= P(d) /\ i + 1 <= P(d) /\ Below(d, i + 1)
        BY <1>6, <1>7, <3>1, <1>13 DEF Below
      <4>3. ram'[lr] = f.ret /\ \A r \in d.save : ram'[r] = f.regs[r]
        <5>1. d.save \subseteq Addrs /\ sp \notin d.save
          BY <1>4, Numbers DEF Definition
        <5>2. ram[lr] = f.ret /\ \A r \in d.save : ram[r] = f.regs[r]
          BY <1>4, <4>2 DEF AtPos
        <5> QED BY <1>10, <5>1, <5>2, Numbers
      <4>4. \A q \in 1 .. n : ~(q + 1 < i + 1)
        BY <1>6, <3>1
      <4>5. \A q \in 1 .. Len(Pop(d)) : ~(n + B(d) + 2 + q < i + 1)
        BY <1>6, <1>7, <3>1
      <4> QED BY <4>1, <4>2, <4>3, <4>4, <4>5, <1>13 DEF AtPos
    <3>2. CASE i = n + B(d) + 2 /\ x.n = n
      <4>1. Below(d, i) /\ ~Below(d, i + 1) /\ ~(i <= P(d)) /\ ~(i + 1 <= P(d)) /\ i > 1
        BY <1>6, <1>7, <3>2, <1>13 DEF Below
      <4>2. ram'[sp] = Base(f)
        BY <1>5, <1>6, <1>8, <1>10, <3>2, <4>1
      <4>3. Base(f) - n >= StackEnd
        BY <1>4, <1>6, <4>1, <1>13 DEF AtPos
      <4>4. d.leaf => ram'[lr] = f.ret
        BY <1>4, <1>10, <4>1, Numbers DEF AtPos
      <4>5. ASSUME NEW q \in 1 .. n PROVE Holds(f, d, q, ram')
        <5>1. q + 1 < i
          BY <1>6, <1>7, <3>2
        <5>2. Holds(f, d, q, ram)
          BY <1>4, <5>1, <1>13 DEF AtPos
        <5>3. Base(f) - N(d) + q - 1 \in Addrs /\ Base(f) - N(d) + q - 1 >= StackEnd
          BY <1>4, <4>3, SlotOnStack, <1>13 DEF Top, f, d
        <5>4. ram'[Base(f) - N(d) + q - 1] = ram[Base(f) - N(d) + q - 1]
          <6>1. Base(f) - N(d) + q - 1 # sp
            BY <5>3, Numbers
          <6> QED BY <1>10, <5>3, <6>1
        <5> QED BY <5>2, <5>4 DEF Holds
      <4>6. \A q \in 1 .. Len(Pop(d)) : ~(n + B(d) + 2 + q < i + 1)
        BY <1>6, <1>7, <3>2
      <4>7. Base(f) = Base(f) - (IF Below(d, i + 1) THEN N(d) ELSE 0)
        BY <1>5, <4>1
      <4> QED BY <4>1, <4>2, <4>3, <4>4, <4>5, <4>6, <4>7, <1>13 DEF AtPos
    <3> QED BY <1>6, <3>1, <3>2
  <2> QED BY <1>1, <1>3, <1>10, <2>1, <2>2, <2>3, <2>4, <2>5, Stays DEF f, d
<1> QED BY <1>11, <1>12

LEMMA PushRegKeeps ==
  ASSUME IInv, PushReg PROVE IInv'
<1> DEFINE x == image[pc]
           f == Top
           d == Def(Top)
           n == N(Def(Top))
           i == pc - label[Top.sub] + 1
           a == ram[sp] + image[pc].at
<1>1. /\ phase = "run" /\ x.do = "push" /\ UNCHANGED <<script, python>> /\ frames' = frames /\ pc' = pc + 1
      /\ IF a \in Addrs THEN ram' = [ram EXCEPT ![a] = ram[x.reg]] /\ phase' = phase
         ELSE phase' = "fault" /\ ram' = ram
  BY DEF PushReg, Running
<1>2. ram \in [Addrs -> Int] /\ pc \in Nat
  BY <1>1 DEF IInv, MemInv, RunInv
<1>3. frames # <<>>
  <2> SUFFICES ASSUME frames = <<>> PROVE FALSE
    OBVIOUS
  <2>1. x \in Item \/ x = [do |-> "exit"]
    BY <1>1, InMain
  <2> QED BY <1>1, <2>1 DEF Item
<1>4. /\ Len(frames) \in DOMAIN frames /\ d \in Definition /\ i \in 1 .. Size(d) /\ x = SubCode(d)[i]
      /\ AtPos(f, d, i, ram) /\ label[Top.sub] \in Nat
  BY <1>1, <1>3, InSub
<1>5. Base(f) \in Int /\ StackEnd <= Base(f) /\ f = frames[Len(frames)] /\ d = Def(frames[Len(frames)])
  BY <1>4, Frames DEF Top
<1>6. n = N(d) /\ n \in Nat /\ n > 0 /\ i - 1 \in 1 .. n /\ x.reg = Push(d)[i - 1] /\ x.at = i - 2
  BY <1>1, <1>4, Locate, SizeNat
<1>7. /\ B(d) \in Nat /\ P(d) = n + 1 /\ Len(Pop(d)) \in Nat /\ Len(Pop(d)) <= n
      /\ Size(d) = n + B(d) + Len(Pop(d)) + 3
  BY <1>4, <1>6, SizeNat DEF Size, P, E
<1>8. ram[sp] = Base(f) - (IF Below(d, i) THEN n ELSE 0)
  BY <1>4 DEF AtPos
<1>9. pc' - label[Top.sub] + 1 = i + 1 /\ pc' \in Nat /\ i \in Nat
  BY <1>1, <1>2, <1>4
<1>10. a = ram[sp] + x.at
  OBVIOUS
<1> HIDE DEF x, f, d, n, i, a
<1>11. Below(d, i) /\ Below(d, i + 1) /\ i <= P(d) /\ i > 1
  BY <1>6, <1>7, <1>9 DEF Below
<1>12. Base(f) - n >= StackEnd
  BY <1>4, <1>6, <1>11 DEF AtPos
<1>13. a = Base(f) - n + (i - 1) - 1
  BY <1>5, <1>6, <1>8, <1>9, <1>10, <1>11
<1>14. a \in Addrs /\ a >= StackEnd /\ a < Base(f)
  <2>1. a \in Addrs /\ a >= StackEnd
    BY <1>4, <1>5, <1>6, <1>12, <1>13, SlotOnStack
  <2> QED BY <1>5, <1>6, <1>9, <1>13, <2>1
<1>15. phase' = "run" /\ ram' = [ram EXCEPT ![a] = ram[x.reg]]
  BY <1>1, <1>14
<1>16. x.reg \in Regs
  BY <1>4, <1>6, PushPop, ElementOfSeq DEF N
<1>17. ram' \in [Addrs -> Int] /\ ram'[a] = ram[x.reg] /\ \A b \in Addrs : b # a => ram'[b] = ram[b]
  BY <1>2, <1>14, <1>15, <1>16, Numbers
<1>18. \A r \in Regs : ram'[r] = ram[r]
  BY <1>14, <1>17, Numbers
<1>19. Outer(ram')
  <2>1. \A b \in Addrs : b >= Base(Top) => ram'[b] = ram[b]
    BY <1>5, <1>14, <1>17, Numbers DEF Addrs, f
  <2> QED BY <1>1, <2>1, OuterKept
<1>20. ram[lr] = f.ret /\ \A r \in d.save : ram[r] = f.regs[r]
  BY <1>4, <1>11 DEF AtPos
<1>21. ASSUME NEW q \in 1 .. n, q + 1 < i + 1 PROVE Holds(f, d, q, ram')
  <2> DEFINE b == Base(f) - n + q - 1
  <2>1. CASE q = i - 1
    <3>1. ram'[b] = ram[x.reg]
      BY <1>13, <1>17, <2>1
    <3>2. ram[x.reg] = Slot(f, d, q)
      <4>1. CASE ~d.leaf /\ q = n
        BY <1>4, <1>6, <1>20, <2>1, <4>1, PushPop DEF Slot
      <4>2. CASE d.leaf \/ q # n
        <5>1. q \in 1 .. Len(Pop(d))
          <6>1. (d.leaf => n = Len(Pop(d))) /\ (~d.leaf => n = Len(Pop(d)) + 1)
            BY <1>4, <1>6, PushPop
          <6> QED BY <1>6, <1>7, <4>2, <6>1
        <5>2. x.reg \in d.save
          BY <1>4, <1>6, <2>1, <5>1, PushPop
        <5>3. ram[x.reg] = f.regs[Push(d)[q]]
          BY <1>6, <1>20, <2>1, <5>2
        <5> QED BY <1>6, <4>2, <5>3 DEF Slot
      <4> QED BY <4>1, <4>2
    <3> QED BY <1>6, <3>1, <3>2 DEF Holds
  <2>2. CASE q # i - 1
    <3>1. q + 1 < i
      BY <1>6, <1>9, <1>21, <2>2
    <3>2. Holds(f, d, q, ram)
      BY <1>4, <1>6, <3>1 DEF AtPos
    <3>3. b \in Addrs
      BY <1>4, <1>5, <1>6, <1>12, SlotOnStack
    <3>4. b # a
      BY <1>5, <1>6, <1>9, <1>13, <2>2
    <3>5. ram'[b] = ram[b]
      BY <1>17, <3>3, <3>4
    <3> QED BY <1>6, <3>2, <3>5 DEF Holds
  <2> QED BY <2>1, <2>2
<1>22. AtPos(f, d, i + 1, ram')
  <2>1. ram'[lr] = f.ret /\ ram'[sp] = ram[sp]
    BY <1>18, <1>20, Numbers
  <2>2. \A r \in d.save : ram'[r] = f.regs[r]
    <3>1. d.save \subseteq Regs
      BY <1>4 DEF Definition
    <3> QED BY <1>18, <1>20, <3>1
  <2>3. \A q \in 1 .. Len(Pop(d)) : ~(n + B(d) + 2 + q < i + 1)
    BY <1>6, <1>7, <1>9
  <2>4. ram'[sp] = Base(f) - (IF Below(d, i + 1) THEN n ELSE 0)
    BY <1>8, <1>11, <2>1
  <2> QED BY <1>6, <1>12, <1>21, <2>1, <2>2, <2>3, <2>4 DEF AtPos
<1>23. i + 1 \in 1 .. Size(d)
  BY <1>6, <1>7, <1>9
<1> QED BY <1>1, <1>3, <1>9, <1>15, <1>17, <1>19, <1>22, <1>23, Stays DEF f, d

LEMMA PopRegKeeps ==
  ASSUME IInv, PopReg PROVE IInv'
<1> DEFINE x == image[pc]
           f == Top
           d == Def(Top)
           n == N(Def(Top))
           i == pc - label[Top.sub] + 1
           a == ram[sp] + image[pc].at
           b == B(Def(Top))
           p == Len(Pop(Def(Top)))
           k == i - (n + b + 2)
<1>1. /\ phase = "run" /\ x.do = "pop" /\ UNCHANGED <<script, python>> /\ frames' = frames /\ pc' = pc + 1
      /\ IF a \in Addrs THEN ram' = [ram EXCEPT ![x.reg] = ram[a]] /\ phase' = phase
         ELSE phase' = "fault" /\ ram' = ram
  BY DEF PopReg, Running
<1>2. ram \in [Addrs -> Int] /\ pc \in Nat
  BY <1>1 DEF IInv, MemInv, RunInv
<1>3. frames # <<>>
  <2> SUFFICES ASSUME frames = <<>> PROVE FALSE
    OBVIOUS
  <2>1. x \in Item \/ x = [do |-> "exit"]
    BY <1>1, InMain
  <2> QED BY <1>1, <2>1 DEF Item
<1>4. /\ Len(frames) \in DOMAIN frames /\ d \in Definition /\ i \in 1 .. Size(d) /\ x = SubCode(d)[i]
      /\ AtPos(f, d, i, ram) /\ label[Top.sub] \in Nat
  BY <1>1, <1>3, InSub
<1>5. Base(f) \in Int /\ StackEnd <= Base(f) /\ f = frames[Len(frames)] /\ d = Def(frames[Len(frames)])
  BY <1>4, Frames DEF Top
<1>6. n = N(d) /\ b = B(d) /\ p = Len(Pop(d)) /\ n \in Nat /\ b \in Nat /\ p \in Nat /\ p <= n
  BY <1>4, SizeNat
<1>8. ram[sp] = Base(f) - (IF Below(d, i) THEN n ELSE 0)
  BY <1>4 DEF AtPos
<1>9. pc' - label[Top.sub] + 1 = i + 1 /\ pc' \in Nat /\ i \in Nat
  BY <1>1, <1>2, <1>4
<1>10. a = ram[sp] + x.at /\ k = i - (n + b + 2)
  OBVIOUS
<1> HIDE DEF x, f, d, n, i, a, b, p, k
<1>7. n > 0 /\ k \in 1 .. p /\ x.reg = Pop(d)[k] /\ x.at = k - 1 - n
  BY <1>1, <1>4, <1>6, <1>10, Locate
<1>26. n \in Nat /\ b \in Nat /\ p \in Nat /\ p <= n
  BY <1>6
<1>27. i \in Nat /\ n > 0 /\ k \in 1 .. p /\ k = i - (n + b + 2)
  BY <1>7, <1>9, <1>10
<1>24. k \in Nat /\ 1 <= k /\ k <= p /\ i = n + b + 2 + k
  BY <1>26, <1>27
<1>25. P(d) = n + 1 /\ Size(d) = n + b + p + 3
  <2>1. N(d) # 0 /\ N(d) = n /\ B(d) = b /\ Len(Pop(d)) = p
    BY <1>6, <1>26, <1>27
  <2>2. P(d) = n + 1 /\ E(d) = p + 1
    BY <2>1 DEF P, E
  <2>3. Size(d) = n + 1 + b + (p + 1) + 1
    BY <2>1, <2>2 DEF Size
  <2> QED BY <1>26, <2>2, <2>3
<1>11. i > 1 /\ ~Below(d, i) /\ ~Below(d, i + 1) /\ ~(i <= P(d)) /\ ~(i + 1 <= P(d))
  <2>1. Below(d, i) <=> n > 0 /\ 2 <= i /\ i <= n + b + 2
    BY <1>6 DEF Below
  <2>2. Below(d, i + 1) <=> n > 0 /\ 2 <= i + 1 /\ i + 1 <= n + b + 2
    BY <1>6 DEF Below
  <2>3. i > 1 /\ ~(i <= n + b + 2) /\ ~(i + 1 <= n + b + 2) /\ ~(i <= n + 1) /\ ~(i + 1 <= n + 1)
    BY <1>24, <1>26
  <2> QED BY <1>25, <2>1, <2>2, <2>3
<1>12. Base(f) - n >= StackEnd
  BY <1>4, <1>6, <1>7, <1>11 DEF AtPos
<1>13. a = Base(f) - n + k - 1 /\ k \in 1 .. n
  BY <1>5, <1>7, <1>8, <1>10, <1>11, <1>24, <1>26
<1>14. a \in Addrs
  BY <1>4, <1>5, <1>6, <1>12, <1>13, SlotOnStack
<1>15. phase' = "run" /\ ram' = [ram EXCEPT ![x.reg] = ram[a]]
  BY <1>1, <1>14
<1>16. x.reg \in Regs /\ x.reg \in d.save /\ x.reg # sp /\ Push(d)[k] = x.reg
  <2>1. x.reg \in d.save /\ Push(d)[k] = x.reg
    BY <1>4, <1>6, <1>7, PushPop
  <2> QED BY <1>4, <2>1 DEF Definition
<1>17. ram' \in [Addrs -> Int] /\ ram'[x.reg] = ram[a] /\ \A w \in Addrs : w # x.reg => ram'[w] = ram[w]
  BY <1>2, <1>14, <1>15, <1>16, Numbers
<1>18. \A w \in Addrs : w >= StackEnd => ram'[w] = ram[w]
  BY <1>16, <1>17, Numbers DEF Addrs
<1>19. Outer(ram')
  <2>1. \A w \in Addrs : w >= Base(Top) => ram'[w] = ram[w]
    BY <1>5, <1>18, Numbers DEF Addrs, f
  <2> QED BY <1>1, <2>1, OuterKept
<1>20. ASSUME NEW q \in 1 .. n PROVE Holds(f, d, q, ram) /\ Holds(f, d, q, ram')
  <2> DEFINE w == Base(f) - n + q - 1
  <2>1. q + 1 < i
    BY <1>6, <1>24
  <2>2. Holds(f, d, q, ram)
    BY <1>4, <1>6, <2>1 DEF AtPos
  <2>3. w \in Addrs /\ w >= StackEnd
    BY <1>4, <1>5, <1>6, <1>12, SlotOnStack
  <2>4. ram'[w] = ram[w]
    BY <1>18, <2>3
  <2> QED BY <1>6, <2>2, <2>4 DEF Holds
<1>21. ram'[x.reg] = f.regs[x.reg]
  <2>1. ram[a] = Slot(f, d, k)
    BY <1>6, <1>13, <1>20 DEF Holds
  <2>2. d.leaf \/ k # n
    <3>1. ~d.leaf => n = Len(Pop(d)) + 1
      BY <1>4, <1>6, PushPop
    <3> QED BY <1>6, <1>24, <1>26, <3>1
  <2>3. Slot(f, d, k) = f.regs[Push(d)[k]]
    BY <1>6, <2>2 DEF Slot
  <2> QED BY <1>16, <1>17, <2>1, <2>3
<1>22. AtPos(f, d, i + 1, ram')
  <2>1. ASSUME d.leaf PROVE ram'[lr] = f.ret
    <3>1. ram[lr] = f.ret
      BY <1>4, <2>1 DEF AtPos
    <3>2. CASE x.reg = lr
      <4>1. lr \in Def(f).save => f.regs[lr] = f.ret
        BY <1>4, <1>5 DEF IInv, FramesInv, FrameInv
      <4> QED BY <1>5, <1>16, <1>21, <3>2, <4>1
    <3>3. CASE x.reg # lr
      BY <1>17, <3>1, <3>3, Numbers
    <3> QED BY <3>2, <3>3
  <2>2. ram'[sp] = Base(f) - (IF Below(d, i + 1) THEN n ELSE 0)
    BY <1>8, <1>11, <1>16, <1>17, Numbers
  <2>3. ASSUME NEW q \in 1 .. p, n + b + 2 + q < i + 1
        PROVE  ram'[Pop(d)[q]] = f.regs[Pop(d)[q]]
    <3>1. CASE Pop(d)[q] = x.reg
      BY <1>21, <3>1
    <3>2. CASE Pop(d)[q] # x.reg
      <4>1. q # k
        BY <1>7, <3>2
      <4>2. n + b + 2 + q < i
        BY <1>24, <1>26, <2>3, <4>1
      <4>3. ram[Pop(d)[q]] = f.regs[Pop(d)[q]]
        BY <1>4, <1>6, <4>2 DEF AtPos
      <4>4. Pop(d)[q] \in Addrs
        <5>1. Pop(d)[q] \in d.save /\ d.save \subseteq Regs
          BY <1>4, <1>6, PushPop DEF Definition
        <5> QED BY <5>1, Numbers
      <4> QED BY <1>17, <3>2, <4>3, <4>4
    <3> QED BY <3>1, <3>2
  <2> QED BY <1>6, <1>11, <1>12, <1>20, <2>1, <2>2, <2>3 DEF AtPos
<1>23. i + 1 \in 1 .. Size(d)
  BY <1>24, <1>25, <1>26
<1> QED BY <1>1, <1>3, <1>9, <1>15, <1>17, <1>19, <1>22, <1>23, Stays DEF f, d

\* Where a call is made from: the main code, or the body of a subroutine that is no leaf.
LEMMA CallPlace ==
  ASSUME IInv, phase = "run", image[pc].do = "call"
  PROVE  /\ pc \in Nat /\ pc \in DOMAIN image /\ pc + 1 \in DOMAIN image
         /\ ram[sp] \in Int /\ StackEnd <= ram[sp] /\ ram[sp] <= StackTop - Len(frames)
         /\ frames = <<>> => ram[sp] = StackTop /\ pc + 1 \in 2 .. Len(script.main) + 1
         /\ frames # <<>> => /\ Len(frames) \in DOMAIN frames /\ ~Def(Top).leaf /\ BehindCall(Top, pc + 1)
                             /\ ram[sp] = Base(Top) - N(Def(Top)) /\ AtBody(Top, Def(Top), ram)
<1> DEFINE x == image[pc]
<1>1. pc \in Nat /\ image \in Seq(Instr) /\ Len(Start(script)) <= Len(image)
  BY DEF IInv, RunInv, CodeInv
<1>2. DOMAIN image = 1 .. Len(image) /\ Len(image) \in Nat
  BY <1>1, LenProperties
<1>3. CASE frames = <<>>
  <2>1. /\ pc \in DOMAIN image /\ ram[sp] = StackTop /\ pc \in 1 .. Len(script.main) /\ Len(script.main) \in Nat
        /\ Len(Start(script)) = Len(script.main) + 1
    BY <1>3, InMain
  <2>2. pc + 1 \in DOMAIN image /\ pc + 1 \in 2 .. Len(script.main) + 1
    BY <1>1, <1>2, <2>1
  <2>3. Len(frames) = 0
    BY <1>3, EmptySeq
  <2> QED BY <1>1, <1>3, <2>1, <2>2, <2>3, Numbers
<1>4. CASE frames # <<>>
  <2> DEFINE f == Top
             d == Def(Top)
             l == label[Top.sub]
             i == pc - l + 1
  <2>1. /\ Len(frames) \in DOMAIN frames /\ d \in Definition /\ i \in 1 .. Size(d) /\ x = SubCode(d)[i]
        /\ AtPos(f, d, i, ram) /\ l \in Nat \ {0} /\ l + Size(d) - 1 <= Len(image) /\ pc \in DOMAIN image
    BY <1>4, InSub
  <2>2. /\ Base(f) \in Int /\ StackEnd <= Base(f) /\ Base(f) <= StackTop - (Len(frames) - 1)
        /\ Len(frames) \in Nat
    BY <2>1, Frames DEF Top
  <2>3. pc = l + i - 1 /\ i \in Nat /\ (pc + 1) - l = i
    BY <1>1, <2>1
  <2> HIDE DEF x, f, d, l, i
  <2>4. i - P(d) \in 1 .. B(d) /\ x = d.body[i - P(d)]
    BY <2>1, Locate DEF x
  <2>5. P(d) \in Nat /\ B(d) \in Nat /\ E(d) \in Nat /\ N(d) \in Nat /\ Size(d) = P(d) + B(d) + E(d) + 1
    BY <2>1, SizeNat DEF Size
  <2>6. i \in P(d) + 1 .. P(d) + B(d) /\ i \in P(d) + 1 .. P(d) + B(d) + 1 /\ i + 1 <= Size(d)
    BY <2>3, <2>4, <2>5
  <2>7. ~d.leaf
    BY <2>1, <2>4, SubItem DEF x
  <2>8. AtBody(f, d, ram)
    BY <2>1, <2>2, <2>6, BodyZone
  <2>9. N(d) > 0
    <3>1. N(d) = Len(Pop(d)) + 1 /\ Len(Pop(d)) \in Nat
      BY <2>1, <2>7, PushPop
    <3> QED BY <3>1
  <2>10. /\ ram[sp] = Base(f) - N(d) /\ ram[sp] \in Int /\ StackEnd <= ram[sp]
         /\ ram[sp] <= StackTop - Len(frames)
    <3>1. ram[sp] = Base(f) - N(d) /\ Base(f) - N(d) >= StackEnd
      BY <2>8, <2>9 DEF AtBody
    <3> QED BY <2>2, <2>5, <2>9, <3>1, Numbers
  <2>11. pc + 1 \in DOMAIN image
    <3>1. l \in Nat \ {0} /\ l + Size(d) - 1 <= Len(image) /\ Size(d) \in Nat
      BY <2>1, <2>5
    <3>2. pc = l + i - 1 /\ i \in Nat /\ i + 1 <= Size(d)
      BY <2>3, <2>6
    <3>3. pc + 1 <= Len(image)
      BY <1>1, <1>2, <3>1, <3>2
    <3> QED BY <1>1, <1>2, <3>3
  <2>12. BehindCall(f, pc + 1)
    <3>1. (pc + 1) - label[f.sub] = i /\ d = Def(f)
      BY <2>3 DEF l, f, d
    <3>2. i \in P(d) + 1 .. P(d) + B(d)
      BY <2>6
    <3> QED BY <3>1, <3>2 DEF BehindCall
  <2> QED BY <1>1, <1>4, <2>1, <2>7, <2>8, <2>10, <2>11, <2>12 DEF f, d
<1> QED BY <1>3, <1>4

\* A subroutine begins with everything as its caller left it.
LEMMA AtEntry ==
  ASSUME NEW d \in Definition, NEW f, NEW m, Base(f) \in Int, m[lr] = f.ret, m[sp] = Base(f),
         \A r \in d.save : m[r] = f.regs[r]
  PROVE  1 \in 1 .. Size(d) /\ AtPos(f, d, 1, m)
<1>1. Size(d) \in Nat \ {0} /\ N(d) \in Nat /\ B(d) \in Nat /\ Len(Pop(d)) \in Nat
  BY SizeNat
<1>2. ~Below(d, 1)
  BY DEF Below
<1>3. /\ \A q \in 1 .. N(d) : ~(q + 1 < 1)
      /\ \A q \in 1 .. Len(Pop(d)) : ~(N(d) + B(d) + 2 + q < 1)
  BY <1>1
<1> QED BY <1>1, <1>2, <1>3 DEF AtPos

LEMMA CallKeeps ==
  ASSUME IInv, Call PROVE IInv'
<1> DEFINE s == image[pc].sub
           d == definition[s]
           L == Len(frames)
           g == [sub |-> s, ret |-> pc + 1, regs |-> [r \in d.save \cup {sp} |-> ram'[r]]]
<1>1. /\ phase = "run" /\ phase' = "run" /\ image[pc].do = "call" /\ UNCHANGED <<script, python>>
      /\ ram' = [ram EXCEPT ![lr] = pc + 1] /\ pc' = label[s] /\ frames' = Append(frames, g)
  BY DEF Call, Running
<1>2. /\ pc \in Nat /\ pc \in DOMAIN image /\ pc + 1 \in DOMAIN image
      /\ ram[sp] \in Int /\ StackEnd <= ram[sp] /\ ram[sp] <= StackTop - L
      /\ frames = <<>> => ram[sp] = StackTop /\ pc + 1 \in 2 .. Len(script.main) + 1
      /\ frames # <<>> => /\ L \in DOMAIN frames /\ ~Def(Top).leaf /\ BehindCall(Top, pc + 1)
                          /\ ram[sp] = Base(Top) - N(Def(Top)) /\ AtBody(Top, Def(Top), ram)
  BY <1>1, CallPlace
<1>3. ram \in [Addrs -> Int] /\ CodeInv /\ FramesInv
  BY DEF IInv, MemInv
<1>4. ram' \in [Addrs -> Int] /\ ram'[lr] = pc + 1 /\ \A a \in Addrs : a # lr => ram'[a] = ram[a]
  BY <1>1, <1>2, <1>3, Numbers
<1>5. s \in DOMAIN label /\ d \in Definition /\ label[s] \in Nat \ {0}
  <2>1. s \in Called(image)
    BY <1>1, <1>2 DEF Called, Items
  <2> QED BY <1>1, <1>3, <2>1 DEF CodeInv
<1>6. /\ g.sub = s /\ g.ret = pc + 1 /\ DOMAIN g.regs = d.save \cup {sp}
      /\ \A r \in d.save \cup {sp} : g.regs[r] = ram'[r]
  OBVIOUS
<1>7. Def(g) = d
  BY <1>6 DEF Def
<1>8. /\ d.save \in SUBSET Regs /\ d.save \cup {sp} \in SUBSET Regs
  BY <1>5, Numbers DEF Definition
<1>9. g \in FrameRec
  <2> DEFINE R == d.save \cup {sp}
             regs == [r \in R |-> ram'[r]]
  <2>1. regs \in [R -> Int]
    BY <1>4, <1>8, Numbers
  <2>2. g = [sub |-> s, ret |-> pc + 1, regs |-> regs]
    OBVIOUS
  <2> HIDE DEF regs, R, g, s
  <2>3. regs \in UNION {[Q -> Int] : Q \in SUBSET Regs}
    BY <1>8, <2>1 DEF R
  <2> QED BY <1>2, <1>5, <2>2, <2>3 DEF FrameRec
<1>10. Base(g) = ram[sp] /\ ram'[sp] = ram[sp]
  BY <1>4, <1>6, Numbers DEF Base
<1> HIDE DEF g, d, s, L
<1>11. /\ frames \in Seq(FrameRec) /\ L \in Nat /\ DOMAIN frames = 1 .. L
       /\ Len(frames') = L + 1 /\ frames' \in Seq(FrameRec) /\ DOMAIN frames' = 1 .. L + 1
       /\ \A j \in 1 .. L : frames'[j] = frames[j]
       /\ frames'[L + 1] = g
  <2>1. frames \in Seq(FrameRec) /\ L \in Nat /\ DOMAIN frames = 1 .. L
    BY Frames DEF L
  <2>2. /\ Append(frames, g) \in Seq(FrameRec) /\ Len(Append(frames, g)) = L + 1
        /\ Append(frames, g)[L + 1] = g /\ \A j \in 1 .. L : Append(frames, g)[j] = frames[j]
    BY <1>9, <2>1, AppendProperties DEF L
  <2>3. DOMAIN Append(frames, g) = 1 .. L + 1
    BY <2>2, LenProperties
  <2> QED BY <1>1, <2>1, <2>2, <2>3
<1>12. CodeInv' /\ definition' = definition /\ label' = label /\ script' = script /\ image' = image
  BY <1>1, CodeStays DEF python
<1>13. ASSUME NEW j \in 1 .. L
       PROVE  /\ FrameInv(frames[j], j) /\ (j > 1 => LinkInv(frames[j - 1], frames[j]))
              /\ frames'[j] = frames[j] /\ (j > 1 => frames'[j - 1] = frames[j - 1])
  <2>1. j > 1 => j - 1 \in 1 .. L
    BY <1>11
  <2> QED BY <1>3, <1>11, <2>1 DEF FramesInv
<1>14. frames = <<>> => L = 0
  BY EmptySeq DEF L
<1>15. FrameInv(g, L + 1)
  <2>1. L + 1 = 1 => Base(g) = StackTop /\ g.ret \in 2 .. Len(script.main) + 1
    <3>1. L + 1 = 1 => frames = <<>>
      BY <1>2, <1>11
    <3> QED BY <1>2, <1>6, <1>10, <3>1
  <2>2. lr \in d.save => g.regs[lr] = g.ret
    BY <1>4, <1>6
  <2>3. Base(g) \in StackEnd .. StackTop - ((L + 1) - 1)
    <3>1. Base(g) \in Int /\ StackEnd <= Base(g) /\ Base(g) <= StackTop - L
      BY <1>2, <1>10
    <3>2. L \in Nat /\ (L + 1) - 1 = L /\ StackTop \in Nat /\ StackEnd \in Nat
      BY <1>11, Numbers
    <3> DEFINE top == StackTop - L
    <3>3. StackTop - ((L + 1) - 1) = top /\ top \in Int /\ Base(g) <= top
      BY <3>1, <3>2
    <3> HIDE DEF top
    <3>4. Base(g) \in StackEnd .. top
      BY <3>1, <3>2, <3>3
    <3> QED BY <3>3, <3>4
  <2> QED BY <1>6, <1>7, <2>1, <2>2, <2>3 DEF FrameInv
<1>16. L + 1 > 1 => frames # <<>> /\ L \in 1 .. L /\ frames[L] = Top /\ LinkInv(Top, g)
  <2>1. L + 1 > 1 => frames # <<>> /\ L \in 1 .. L
    BY <1>11, <1>14
  <2> QED BY <1>2, <1>6, <1>10, <2>1 DEF LinkInv, BehindCall, Top, L
<1>17. FramesInv'
  <2>1. ASSUME NEW j \in 1 .. L + 1
        PROVE  FrameInv(frames'[j], j) /\ (j > 1 => LinkInv(frames'[j - 1], frames'[j]))
    <3>1. CASE j \in 1 .. L
      BY <1>13, <3>1
    <3>2. CASE j = L + 1
      <4>1. j - 1 = L
        BY <1>11, <3>2
      <4> QED BY <1>11, <1>15, <1>16, <3>2, <4>1
    <3> QED BY <1>11, <3>1, <3>2
  <2>2. ASSUME NEW j \in 1 .. L + 1, NEW k \in 1 .. L + 1, j < k
        PROVE  Base(frames'[k]) <= Base(frames'[j]) - N(Def(frames'[j]))
    <3>1. j \in 1 .. L /\ frames'[j] = frames[j]
      BY <1>11, <2>2
    <3>2. CASE k \in 1 .. L
      BY <1>3, <1>11, <2>2, <3>1, <3>2 DEF FramesInv
    <3>3. CASE k = L + 1
      <4>1. frames # <<>> /\ L \in 1 .. L /\ frames[L] = Top /\ Base(g) = Base(Top) - N(Def(Top))
        BY <1>11, <1>16, <3>1 DEF LinkInv
      <4>2. CASE j = L
        <5>1. Base(frames[L]) \in Int /\ N(Def(frames[L])) \in Nat
          BY <1>11, <4>1, Frames, SizeNat
        <5> QED BY <1>11, <3>1, <3>3, <4>1, <4>2, <5>1
      <4>3. CASE j < L
        <5>1. Base(frames[L]) <= Base(frames[j]) - N(Def(frames[j]))
          BY <1>3, <1>11, <3>1, <4>1, <4>3 DEF FramesInv
        <5>2. /\ Base(frames[L]) \in Int /\ N(Def(frames[L])) \in Nat
              /\ Base(frames[j]) \in Int /\ N(Def(frames[j])) \in Nat
          BY <1>11, <3>1, <4>1, Frames, SizeNat
        <5> QED BY <1>11, <3>1, <3>3, <4>1, <5>1, <5>2
      <4> QED BY <1>11, <3>1, <4>2, <4>3
    <3> QED BY <1>11, <3>2, <3>3
  <2> QED BY <1>1, <1>11, <1>12, <2>1, <2>2 DEF FramesInv, FrameInv, LinkInv, FrameRec, Def, BehindCall
<1>18. MemInv'
  BY <1>1, <1>4 DEF MemInv
<1>19. 1 \in 1 .. Size(d) /\ AtPos(g, d, 1, ram')
  BY <1>2, <1>4, <1>5, <1>6, <1>10, AtEntry
<1>20. \A a \in Addrs : a >= StackEnd => ram'[a] = ram[a]
  BY <1>4, Numbers DEF Addrs
<1>21. ASSUME NEW j \in 1 .. L, NEW q \in 1 .. N(Def(frames[j])) PROVE Holds(frames[j], Def(frames[j]), q, ram')
  <2>1. L \in 1 .. L /\ frames # <<>>
    BY <1>11, <1>14
  <2>2. CASE j < L
    <3>1. StackEnd <= Base(Top) /\ Base(Top) \in Int
      BY <1>11, <2>1, Frames DEF Top, L
    <3>2. \A a \in Addrs : a >= Base(Top) => ram'[a] = ram[a]
      BY <1>20, <3>1, Numbers DEF Addrs
    <3>3. Outer(ram')
      BY <1>1, <3>2, OuterKept
    <3> QED BY <1>11, <2>2, <3>3 DEF Outer, L
  <2>3. CASE j = L
    <3>1. AtBody(Top, Def(Top), ram) /\ frames[j] = Top
      BY <1>2, <2>1, <2>3 DEF Top, L
    <3>2. N(Def(frames[j])) \in Nat /\ N(Def(frames[j])) > 0
      <4>1. Def(frames[j]) \in Definition
        BY <1>11, Frames
      <4>2. N(Def(frames[j])) \in Nat
        BY <4>1, SizeNat
      <4> QED BY <4>2
    <3>3. Holds(Top, Def(Top), q, ram) /\ Base(Top) - N(Def(Top)) >= StackEnd
      BY <3>1, <3>2 DEF AtBody
    <3>4. /\ Base(Top) - N(Def(Top)) + q - 1 \in Addrs
          /\ Base(Top) - N(Def(Top)) + q - 1 >= StackEnd
      BY <1>11, <3>1, <3>3, SlotOnStack
    <3> QED BY <1>20, <3>1, <3>3, <3>4 DEF Holds
  <2> QED BY <1>11, <2>2, <2>3
<1>22. RunInv'
  <2>1. frames' # <<>>
    BY <1>11, EmptySeq
  <2>2. frames'[Len(frames')] = g /\ definition'[g.sub] = d /\ label'[g.sub] = pc' /\ pc' - pc' + 1 = 1 /\ pc' \in Nat
    BY <1>1, <1>5, <1>6, <1>11, <1>12 DEF d
  <2>3. /\ pc' - label'[frames'[Len(frames')].sub] + 1 = 1
        /\ definition'[frames'[Len(frames')].sub] = d
    BY <2>2
  <2>4. \A j \in DOMAIN frames' : j < Len(frames') => j \in 1 .. L /\ frames'[j] = frames[j]
    BY <1>11
  <2>5. \A j \in DOMAIN frames' : j < Len(frames') =>
          \A q \in 1 .. N(definition'[frames'[j].sub]) : Holds(frames'[j], definition'[frames'[j].sub], q, ram')
    BY <1>12, <1>21, <2>4 DEF Def
  <2> QED BY <1>19, <2>1, <2>2, <2>3, <2>5 DEF RunInv, Def
<1> QED BY <1>12, <1>17, <1>18, <1>22 DEF IInv

\* What holds at the finish jump.
LEMMA AtJump ==
  ASSUME IInv, phase = "run", image[pc].do \in {"jmp_lr", "jmp_mem"}
  PROVE  /\ frames # <<>> /\ Len(frames) \in DOMAIN frames /\ ReturnAddress = Top.ret
         /\ ram[sp] = Base(Top) /\ \A r \in DOMAIN Top.regs : ram[r] = Top.regs[r]
<1> DEFINE x == image[pc]
           f == Top
           d == Def(Top)
           i == pc - label[Top.sub] + 1
           n == N(Def(Top))
           b == B(Def(Top))
           p == Len(Pop(Def(Top)))
<1>1. frames # <<>>
  <2> SUFFICES ASSUME frames = <<>> PROVE FALSE
    OBVIOUS
  <2>1. x \in Item \/ x = [do |-> "exit"]
    BY InMain
  <2> QED BY <2>1 DEF Item
<1>2. /\ Len(frames) \in DOMAIN frames /\ d \in Definition /\ i \in 1 .. Size(d) /\ x = SubCode(d)[i]
      /\ AtPos(f, d, i, ram)
  BY <1>1, InSub
<1>3. /\ Base(f) \in Int /\ Base(f) >= StackEnd /\ f = frames[Len(frames)] /\ d = Def(frames[Len(frames)])
  BY <1>2, Frames DEF Top
<1>4. FrameInv(f, Len(frames))
  BY <1>2, <1>3 DEF IInv, FramesInv
<1>5. d = Def(f) /\ x = image[pc]
  OBVIOUS
<1>6. n = N(d) /\ b = B(d) /\ p = Len(Pop(d)) /\ n \in Nat /\ b \in Nat /\ p \in Nat /\ p <= n
  BY <1>2, SizeNat
<1> HIDE DEF x, f, d, i, n, b, p
<1>7. i = Size(d) /\ x = Jump(d)
  BY <1>2, <1>5, Locate
<1>8. n \in Nat /\ b \in Nat /\ p \in Nat /\ p <= n
  BY <1>6
<1>9. /\ n = 0 => P(d) = 0 /\ Size(d) = b + 1
      /\ n # 0 => P(d) = n + 1 /\ Size(d) = n + b + p + 3
  <2>1. P(d) = IF n = 0 THEN 0 ELSE n + 1
    BY <1>6 DEF P
  <2>2. E(d) = IF n = 0 THEN 0 ELSE p + 1
    BY <1>6 DEF E
  <2>3. Size(d) = P(d) + b + E(d) + 1
    BY <1>6 DEF Size
  <2> QED BY <1>8, <2>1, <2>2, <2>3
<1>10. ~Below(d, i)
  <2>1. Below(d, i) <=> n > 0 /\ 2 <= i /\ i <= n + b + 2
    BY <1>6 DEF Below
  <2> QED BY <1>7, <1>8, <1>9, <2>1
<1>11. ram[sp] = Base(f)
  <2>1. ram[sp] = Base(f) - 0
    BY <1>2, <1>10 DEF AtPos
  <2> QED BY <1>3, <2>1
<1>12. ASSUME NEW r \in d.save PROVE ram[r] = f.regs[r]
  <2>1. PICK q \in 1 .. p : Pop(d)[q] = r
    BY <1>2, <1>6, PushPop
  <2>2. n + b + 2 + q < i
    <3>1. n # 0
      BY <1>8
    <3>2. i = n + b + p + 3
      BY <1>7, <1>9, <3>1
    <3> QED BY <1>8, <3>2
  <2> QED BY <1>2, <1>6, <2>1, <2>2 DEF AtPos
<1>13. \A r \in DOMAIN f.regs : ram[r] = f.regs[r]
  <2>1. DOMAIN f.regs = d.save \cup {sp} /\ Base(f) = f.regs[sp]
    BY <1>4, <1>5 DEF FrameInv, Base
  <2> QED BY <1>11, <1>12, <2>1
<1>14. ReturnAddress = f.ret
  <2>1. CASE d.leaf
    <3>1. x.do = "jmp_lr"
      BY <1>7, <2>1 DEF Jump
    <3>2. ram[lr] = f.ret
      BY <1>2, <2>1 DEF AtPos
    <3> QED BY <1>5, <3>1, <3>2 DEF ReturnAddress
  <2>2. CASE ~d.leaf
    <3>1. x.do = "jmp_mem" /\ x.at = -1
      BY <1>7, <2>2 DEF Jump
    <3>2. n > 0 /\ n \in 1 .. n
      <4>1. n = p + 1
        BY <1>2, <1>6, <2>2, PushPop
      <4> QED BY <1>8, <4>1
    <3>3. n + 1 < i /\ i > 1
      BY <1>7, <1>8, <1>9, <3>2
    <3>4. Holds(f, d, n, ram) /\ Base(f) - n >= StackEnd
      BY <1>2, <1>6, <3>2, <3>3 DEF AtPos
    <3>5. Base(f) - n + n - 1 = Base(f) - 1
      BY <1>3, <1>8
    <3>6. ram[Base(f) - 1] = f.ret
      BY <1>6, <2>2, <3>4, <3>5 DEF Holds, Slot
    <3>7. Base(f) - 1 \in Addrs
      <4>1. Base(f) - n + n - 1 \in Addrs
        BY <1>2, <1>3, <1>6, <3>2, <3>4, SlotOnStack
      <4> QED BY <3>5, <4>1
    <3>8. ram[sp] + x.at = Base(f) - 1 /\ x.do # "jmp_lr"
      BY <1>3, <1>11, <3>1
    <3> QED BY <1>5, <3>6, <3>7, <3>8 DEF ReturnAddress
  <2> QED BY <2>1, <2>2
<1> QED BY <1>1, <1>2, <1>11, <1>13, <1>14 DEF f

LEMMA ReturnKeeps ==
  ASSUME IInv, Return PROVE IInv'
<1> DEFINE f == Top
           L == Len(frames)
<1>1. phase = "run" /\ image[pc].do \in {"jmp_lr", "jmp_mem"} /\ UNCHANGED <<script, python>> /\ ram' = ram
  BY DEF Return, Running
<1>2. /\ frames # <<>> /\ L \in DOMAIN frames /\ ReturnAddress = f.ret /\ ram[sp] = Base(f)
  BY <1>1, AtJump
<1>3. /\ frames \in Seq(FrameRec) /\ L \in Nat /\ DOMAIN frames = 1 .. L /\ L \in 1 .. L /\ f = frames[L]
  BY <1>2, Frames DEF Top
<1>4. f.ret \in DOMAIN image
  BY <1>2, Frames DEF Top
<1>5. phase' = "run" /\ pc' = f.ret /\ frames' = Front(frames)
  BY <1>1, <1>2, <1>4 DEF Return
<1> HIDE DEF f, L
<1>6. CodeInv' /\ definition' = definition /\ label' = label /\ script' = script /\ image' = image
  BY <1>1, <1>5, CodeStays DEF python
<1>7. CodeInv /\ FramesInv /\ RunInv /\ MemInv
  BY DEF IInv
<1>8. /\ frames' \in Seq(FrameRec) /\ Len(frames') = L - 1 /\ DOMAIN frames' = 1 .. L - 1
      /\ \A j \in 1 .. L - 1 : frames'[j] = frames[j]
  <2>1. frames' = SubSeq(frames, 1, L - 1)
    BY <1>5 DEF Front, L
  <2>2. /\ SubSeq(frames, 1, L - 1) \in Seq(FrameRec) /\ Len(SubSeq(frames, 1, L - 1)) = L - 1
        /\ \A j \in 1 .. L - 1 : SubSeq(frames, 1, L - 1)[j] = frames[j]
    BY <1>3 DEF L
  <2>3. DOMAIN SubSeq(frames, 1, L - 1) = 1 .. L - 1
    BY <2>2, LenProperties
  <2> QED BY <2>1, <2>2, <2>3
<1>9. FramesInv'
  <2>1. ASSUME NEW j \in 1 .. L - 1
        PROVE  FrameInv(frames'[j], j) /\ (j > 1 => LinkInv(frames'[j - 1], frames'[j]))
    <3>1. j \in 1 .. L /\ frames'[j] = frames[j] /\ (j > 1 => j - 1 \in 1 .. L - 1)
      BY <1>3, <1>8
    <3>2. j > 1 => frames'[j - 1] = frames[j - 1]
      BY <1>8, <3>1
    <3> QED BY <1>3, <1>7, <3>1, <3>2 DEF FramesInv
  <2>2. ASSUME NEW j \in 1 .. L - 1, NEW k \in 1 .. L - 1, j < k
        PROVE  Base(frames'[k]) <= Base(frames'[j]) - N(Def(frames'[j]))
    <3>1. j \in 1 .. L /\ k \in 1 .. L
      BY <1>3
    <3> QED BY <1>3, <1>7, <1>8, <2>2, <3>1 DEF FramesInv
  <2> QED BY <1>5, <1>6, <1>8, <2>1, <2>2 DEF FramesInv, FrameInv, LinkInv, FrameRec, Def, BehindCall
<1>10. MemInv' /\ pc' \in Nat
  <2>1. image \in Seq(Instr)
    BY <1>7 DEF CodeInv
  <2>2. pc' \in Nat
    BY <1>4, <1>5, <2>1, LenProperties
  <2> QED BY <1>1, <1>5, <1>7, <2>2 DEF MemInv
<1>11. frames' = <<>> => pc' \in 1 .. Len(Start(script)) /\ ram'[sp] = StackTop
  <2> SUFFICES ASSUME frames' = <<>> PROVE pc' \in 1 .. Len(Start(script)) /\ ram'[sp] = StackTop
    OBVIOUS
  <2>1. L = 1
    <3>1. L - 1 = 0
      BY <1>8, EmptySeq
    <3> QED BY <1>3, <3>1
  <2>2. FrameInv(f, 1)
    BY <1>3, <1>7, <2>1 DEF FramesInv
  <2>3. Base(f) = StackTop /\ f.ret \in 2 .. Len(script.main) + 1
    BY <2>2 DEF FrameInv
  <2>4. Len(script.main) \in Nat /\ Len(Start(script)) = Len(script.main) + 1
    BY <1>7, StartShape DEF CodeInv
  <2> QED BY <1>1, <1>2, <1>5, <2>3, <2>4
<1>12. ASSUME NEW j \in 1 .. L - 1, NEW q \in 1 .. N(Def(frames[j])) PROVE Holds(frames[j], Def(frames[j]), q, ram)
  <2>1. j \in DOMAIN frames /\ j < Len(frames)
    BY <1>3 DEF L
  <2> QED BY <1>1, <1>7, <2>1 DEF RunInv
<1>13. ASSUME frames' # <<>>
       PROVE  LET g == frames[L - 1]
                  i == pc' - label[g.sub] + 1
              IN  i \in 1 .. Size(Def(g)) /\ AtPos(g, Def(g), i, ram)
  <2> DEFINE g == frames[L - 1]
             d == Def(g)
             i == pc' - label[g.sub] + 1
  <2>1. L - 1 \in 1 .. L - 1 /\ L > 1 /\ L - 1 \in 1 .. L
    <3>1. L - 1 # 0
      BY <1>8, <1>13, EmptySeq
    <3> QED BY <1>3, <3>1
  <2>2. LinkInv(g, f)
    BY <1>3, <1>7, <2>1 DEF FramesInv
  <2>3. /\ d \in Definition /\ Base(g) \in Int /\ g.sub \in DOMAIN label
    BY <1>3, <2>1, Frames
  <2>4. label[g.sub] \in Nat
    BY <1>7, <2>3 DEF CodeInv
  <2>5. ~d.leaf /\ Base(f) = Base(g) - N(d) /\ pc' - label[g.sub] \in P(d) + 1 .. P(d) + B(d)
    BY <1>5, <2>2 DEF LinkInv, BehindCall
  <2>6. StackEnd <= Base(f)
    BY <1>3, Frames
  <2>7. \A q \in 1 .. N(d) : Holds(g, d, q, ram)
    BY <1>12, <2>1
  <2>8. i = pc' - label[g.sub] + 1
    OBVIOUS
  <2> HIDE DEF g, d, i
  <2>9. P(d) \in Nat /\ B(d) \in Nat /\ E(d) \in Nat /\ Size(d) = P(d) + B(d) + E(d) + 1
    BY <2>3, SizeNat DEF Size
  <2>10. i \in P(d) + 1 .. P(d) + B(d) + 1 /\ i \in 1 .. Size(d)
    BY <1>10, <2>4, <2>5, <2>8, <2>9
  <2>11. AtBody(g, d, ram)
    BY <1>2, <2>5, <2>6, <2>7 DEF AtBody
  <2>12. AtPos(g, d, i, ram)
    BY <2>3, <2>10, <2>11, BodyZone
  <2> QED BY <2>10, <2>12 DEF g, d, i
<1>14. RunInv'
  <2>1. frames' # <<>> => frames'[Len(frames')] = frames[L - 1]
    <3>1. frames' # <<>> => L - 1 \in 1 .. L - 1
      <4>1. L - 1 = 0 => frames' = <<>>
        BY <1>8, EmptySeq
      <4> QED BY <1>3, <4>1
    <3> QED BY <1>8, <3>1
  <2>2. frames' # <<>> =>
         LET g == frames'[Len(frames')]
             i == pc' - label'[g.sub] + 1
         IN  i \in 1 .. Size(definition'[g.sub]) /\ AtPos(g, definition'[g.sub], i, ram')
    BY <1>1, <1>6, <1>13, <2>1 DEF Def
  <2>3. \A j \in DOMAIN frames' : j < Len(frames') =>
          \A q \in 1 .. N(definition'[frames'[j].sub]) : Holds(frames'[j], definition'[frames'[j].sub], q, ram')
    BY <1>1, <1>6, <1>8, <1>12 DEF Def
  <2> QED BY <1>5, <1>6, <1>10, <1>11, <2>2, <2>3 DEF RunInv, Def
<1> QED BY <1>6, <1>9, <1>10, <1>14 DEF IInv

-----------------------------------------------------------------------------
(* The theorems.                                                           *)

LEMMA InvInductive == Spec => []IInv
<1>1. Init => IInv
  BY InvInit
<1>2. IInv /\ [Next]_vars => IInv'
  <2> SUFFICES ASSUME IInv, [Next]_vars PROVE IInv'
    OBVIOUS
  <2>1. CASE UNCHANGED vars
    <3>1. CodeInv'
      BY <2>1 DEF IInv, CodeInv, vars
    <3>2. FramesInv'
      BY <2>1 DEF IInv, FramesInv, FrameInv, LinkInv, FrameRec, Def, BehindCall, vars
    <3>3. RunInv' /\ MemInv'
      BY <2>1 DEF IInv, RunInv, MemInv, Def, vars
    <3> QED BY <3>1, <3>2, <3>3 DEF IInv
  <2>2. CASE Define
    BY <2>2, DefineKeeps
  <2>3. CASE Include
    BY <2>3, IncludeKeeps
  <2>4. CASE Assemble
    BY <2>4, AssembleKeeps
  <2>5. CASE Write
    BY <2>5, WriteKeeps
  <2>6. CASE Maybe
    BY <2>6, MaybeKeeps
  <2>7. CASE Call
    BY <2>7, CallKeeps
  <2>8. CASE MoveSp
    BY <2>8, MoveSpKeeps
  <2>9. CASE PushReg
    BY <2>9, PushRegKeeps
  <2>10. CASE PopReg
    BY <2>10, PopRegKeeps
  <2>11. CASE Return
    BY <2>11, ReturnKeeps
  <2>12. CASE Exit
    BY <2>12, ExitKeeps
  <2> QED BY <2>1, <2>2, <2>3, <2>4, <2>5, <2>6, <2>7, <2>8, <2>9, <2>10, <2>11, <2>12 DEF Next
<1> QED BY <1>1, <1>2, PTL DEF Spec

LEMMA InvTyped ==
  ASSUME IInv PROVE TypeOK
<1>1. CodeInv /\ MemInv
  BY DEF IInv
<1>2. phase = "run" => pc \in DOMAIN image
  BY InMain, InSub
<1>3. Len(frames) <= StackTop - StackEnd + 1
  <2> DEFINE L == Len(frames)
  <2>1. L \in Nat /\ (L # 0 => L \in DOMAIN frames)
    BY Frames
  <2>2. L # 0 => StackEnd <= StackTop - (L - 1)
    <3> SUFFICES ASSUME L # 0 PROVE StackEnd <= StackTop - (L - 1)
      OBVIOUS
    <3>1. Base(frames[L]) \in Int /\ StackEnd <= Base(frames[L]) /\ Base(frames[L]) <= StackTop - (L - 1)
      BY <2>1, Frames
    <3> HIDE DEF L
    <3> QED BY <2>1, <3>1, Numbers
  <2> HIDE DEF L
  <2>3. L <= StackTop - StackEnd + 1
    BY <2>1, <2>2, Numbers
  <2> QED BY <2>3 DEF L
<1>4. \A j \in DOMAIN frames : frames[j].sub \in DOMAIN label /\ frames[j].ret \in DOMAIN image
  BY Frames
<1> QED BY <1>1, <1>2, <1>3, <1>4 DEF TypeOK, CodeInv, MemInv

\* The machine never leaves the code or the RAM, whatever the subroutines save and
\* wherever they are called from, and the calls that are open fit the stack.
THEOREM TypeCorrect == Spec => []TypeOK
<1>1. IInv => TypeOK
  BY InvTyped
<1> QED BY <1>1, InvInductive, PTL

\* The finish jump goes behind the call that entered the subroutine: the prologue kept
\* the link register of every subroutine that makes calls.
THEOREM ReturnsProved == Spec => []ReturnsToCaller
<1>1. IInv => ReturnsToCaller
  BY AtJump DEF ReturnsToCaller, AtReturn, Last, Top
<1> QED BY <1>1, InvInductive, PTL

\* At the finish jump sp and every register of save_regs are what the subroutine found,
\* although it and its callees used them.
THEOREM RegistersProved == Spec => []RegistersRestored
<1>1. IInv => RegistersRestored
  BY AtJump DEF RegistersRestored, AtReturn, Last, Top
<1> QED BY <1>1, InvInductive, PTL

\* The words a subroutine pushed stay as they are while its callees run: the frames on
\* the stack lie below each other and no callee writes above where it found sp.
THEOREM FramesProved == Spec => []FramesIntact
<1>1. IInv => FramesIntact
  <2> SUFFICES ASSUME IInv, phase = "run", NEW j \in 1 .. Len(frames) - 1
               PROVE  LET f == frames[j]
                          n == Len(Pushed(f))
                      IN  /\ frames[j + 1].regs[sp] = f.regs[sp] - n
                          /\ \A i \in 1 .. n :
                               ram[f.regs[sp] - n + i - 1] =
                                 IF ~definition[f.sub].leaf /\ i = n THEN f.ret ELSE f.regs[Pushed(f)[i]]
    BY DEF FramesIntact
  <2> DEFINE f == frames[j]
             n == N(Def(f))
  <2>1. j \in DOMAIN frames /\ j < Len(frames) /\ j + 1 \in DOMAIN frames /\ j + 1 > 1 /\ j + 1 - 1 = j
    BY Frames
  <2>2. LinkInv(f, frames[j + 1])
    BY <2>1 DEF IInv, FramesInv
  <2>3. \A i \in 1 .. n : Holds(f, Def(f), i, ram)
    BY <2>1 DEF IInv, RunInv
  <2>4. Pushed(f) = Push(Def(f)) /\ n = Len(Pushed(f)) /\ Def(f) = definition[f.sub]
    BY DEF Pushed, Def, N
  <2> HIDE DEF f, n
  <2>5. frames[j + 1].regs[sp] = f.regs[sp] - n
    BY <2>2, <2>4 DEF LinkInv, Base, N
  <2>6. \A i \in 1 .. n :
          ram[f.regs[sp] - n + i - 1] =
            IF ~definition[f.sub].leaf /\ i = n THEN f.ret ELSE f.regs[Pushed(f)[i]]
    BY <2>3, <2>4 DEF Holds, Slot, Base, N
  <2> QED BY <2>4, <2>5, <2>6 DEF f
<1> QED BY <1>1, InvInductive, PTL
=============================================================================
