---------------------------- MODULE DerivedProofs ----------------------------
(***************************************************************************)
(* Proofs about Derived, for every width of a byte and all argument        *)
(* values: what each comparison, conditional move, operator and named      *)
(* instruction means is what the VM computes for it.  The bits of a word   *)
(* are those of its two's complement, the parities of the floors of its    *)
(* quotients by the powers of two; the facts about them come first.        *)
(***************************************************************************)
EXTENDS Derived, WordProofs, SequenceTheorems

-----------------------------------------------------------------------------
(* What the comparing operations decide.                                   *)

LEMMA HoldsMeans ==
  ASSUME NEW a, NEW b, NEW s, s[1] = a, s[2] = b
  PROVE  /\ \A op \in {"TST_EQ", "BR_EQ", "MOV_EQ"} : Holds(op, s) <=> a = b
         /\ \A op \in {"TST_NE", "BR_NE"} : Holds(op, s) <=> a # b
         /\ \A op \in {"TST_GT", "BR_GT", "MOV_GT"} : Holds(op, s) <=> a > b
         /\ \A op \in {"TST_GE", "BR_GE", "MOV_GE"} : Holds(op, s) <=> a >= b
         /\ \A op \in {"TST_GT_U", "BR_GT_U", "MOV_GT_U"} :
              Holds(op, s) <=> Unsigned(a) > Unsigned(b)
         /\ \A op \in {"TST_GE_U", "BR_GE_U", "MOV_GE_U"} :
              Holds(op, s) <=> Unsigned(a) >= Unsigned(b)
  <1>1. \A op \in {"TST_EQ", "BR_EQ", "MOV_EQ"} : RelationOf[op] = "EQ"
    BY DEF RelationOf
  <1>2. \A op \in {"TST_NE", "BR_NE"} : RelationOf[op] = "NE"
    BY DEF RelationOf
  <1>3. \A op \in {"TST_GT", "BR_GT", "MOV_GT"} : RelationOf[op] = "GT"
    BY DEF RelationOf
  <1>4. \A op \in {"TST_GE", "BR_GE", "MOV_GE"} : RelationOf[op] = "GE"
    BY DEF RelationOf
  <1>5. \A op \in {"TST_GT_U", "BR_GT_U", "MOV_GT_U"} : RelationOf[op] = "GT_U"
    BY DEF RelationOf
  <1>6. \A op \in {"TST_GE_U", "BR_GE_U", "MOV_GE_U"} : RelationOf[op] = "GE_U"
    BY DEF RelationOf
  <1>7. \A op \in {"TST_EQ", "BR_EQ", "MOV_EQ"} : Holds(op, s) <=> a = b
    BY <1>1 DEF Holds
  <1>8. \A op \in {"TST_NE", "BR_NE"} : Holds(op, s) <=> a # b
    BY <1>2 DEF Holds
  <1>9. \A op \in {"TST_GT", "BR_GT", "MOV_GT"} : Holds(op, s) <=> a > b
    BY <1>3 DEF Holds
  <1>10. \A op \in {"TST_GE", "BR_GE", "MOV_GE"} : Holds(op, s) <=> a >= b
    BY <1>4 DEF Holds
  <1>11. \A op \in {"TST_GT_U", "BR_GT_U", "MOV_GT_U"} :
           Holds(op, s) <=> Unsigned(a) > Unsigned(b)
    BY <1>5 DEF Holds
  <1>12. \A op \in {"TST_GE_U", "BR_GE_U", "MOV_GE_U"} :
           Holds(op, s) <=> Unsigned(a) >= Unsigned(b)
    BY <1>6 DEF Holds
  <1> QED BY <1>7, <1>8, <1>9, <1>10, <1>11, <1>12

\* The sources of an instruction with its arguments swapped or not.
LEMMA Sources ==
  ASSUME NEW a, NEW b, NEW x, NEW y
  PROVE  /\ <<a, b>> \o <<>> = <<a, b>>
         /\ <<a, b>> \o <<x, y>> = <<a, b, x, y>>
  <1> DEFINE S == {a, b, x, y}
             s == <<a, b>>
             t == <<x, y>>
             u == s \o t
  <1>1. s \in Seq(S) /\ t \in Seq(S) /\ Len(s) = 2 /\ Len(t) = 2
    OBVIOUS
  <1>2. u \in Seq(S) /\ Len(u) = 4
    BY <1>1
  <1>3. u[1] = a /\ u[2] = b /\ u[3] = x /\ u[4] = y
    BY <1>1
  <1>4. u = <<a, b, x, y>>
    <2> DEFINE v == <<a, b, x, y>>
    <2>1. v \in Seq(S) /\ Len(v) = 4
      OBVIOUS
    <2>2. \A i \in 1 .. 4 : u[i] = v[i]
      BY <1>3
    <2> HIDE DEF u, v, S
    <2>3. Len(u) = Len(v) /\ \A i \in 1 .. Len(u) : u[i] = v[i]
      BY <1>2, <2>1, <2>2
    <2>4. u = v
      BY <1>2, <2>1, <2>3, SeqEqual
    <2> QED BY <2>4 DEF v
  <1>5. s \o <<>> = s
    BY <1>1
  <1> QED BY <1>4, <1>5

LEMMA TstIs ==
  ASSUME NEW a, NEW b
  PROVE  /\ Tst("Eq", a, b) = Inst("TST_EQ", <<a, b>>)
         /\ Tst("Ne", a, b) = Inst("TST_NE", <<a, b>>)
         /\ Tst("Gt", a, b) = Inst("TST_GT", <<a, b>>)
         /\ Tst("Ge", a, b) = Inst("TST_GE", <<a, b>>)
         /\ Tst("Lt", a, b) = Inst("TST_GT", <<b, a>>)
         /\ Tst("Le", a, b) = Inst("TST_GE", <<b, a>>)
  <1>1. <<a, b>> \o <<>> = <<a, b>> /\ <<b, a>> \o <<>> = <<b, a>>
    BY Sources
  <1> QED BY <1>1 DEF Tst, FromAb, TstOp, AbSwapped

LEMMA BrIs ==
  ASSUME NEW a, NEW b
  PROVE  /\ Br("Eq", a, b) = Inst("BR_EQ", <<a, b>>)
         /\ Br("Ne", a, b) = Inst("BR_NE", <<a, b>>)
         /\ Br("Gt", a, b) = Inst("BR_GT", <<a, b>>)
         /\ Br("Ge", a, b) = Inst("BR_GE", <<a, b>>)
         /\ Br("Lt", a, b) = Inst("BR_GT", <<b, a>>)
         /\ Br("Le", a, b) = Inst("BR_GE", <<b, a>>)
  <1>1. <<a, b>> \o <<>> = <<a, b>> /\ <<b, a>> \o <<>> = <<b, a>>
    BY Sources
  <1> QED BY <1>1 DEF Br, FromAb, BrOp, AbSwapped

LEMMA MovIs ==
  ASSUME NEW a, NEW b, NEW x, NEW y
  PROVE  /\ Mov("Eq", a, b, x, y) = Inst("MOV_EQ", <<a, b, x, y>>)
         /\ Mov("Ne", a, b, x, y) = Inst("MOV_EQ", <<a, b, y, x>>)
         /\ Mov("Gt", a, b, x, y) = Inst("MOV_GT", <<a, b, x, y>>)
         /\ Mov("Ge", a, b, x, y) = Inst("MOV_GE", <<a, b, x, y>>)
         /\ Mov("Lt", a, b, x, y) = Inst("MOV_GT", <<b, a, x, y>>)
         /\ Mov("Le", a, b, x, y) = Inst("MOV_GE", <<b, a, x, y>>)
         /\ Mov("GtU", a, b, x, y) = Inst("MOV_GT_U", <<a, b, x, y>>)
         /\ Mov("GeU", a, b, x, y) = Inst("MOV_GE_U", <<a, b, x, y>>)
         /\ Mov("LtU", a, b, x, y) = Inst("MOV_GT_U", <<b, a, x, y>>)
         /\ Mov("LeU", a, b, x, y) = Inst("MOV_GE_U", <<b, a, x, y>>)
  <1>1. <<a, b>> \o <<x, y>> = <<a, b, x, y>> /\ <<b, a>> \o <<x, y>> = <<b, a, x, y>>
    BY Sources
  <1> QED BY <1>1 DEF Mov, FromAb, MovOp, AbSwapped

-----------------------------------------------------------------------------
(* What the VM makes of an instruction.                                    *)

OutOf(i) ==
  IF i.op \in BranchIfOps
  THEN [form |-> "branch", v |-> Truth(Holds(i.op, i.srcs))]
  ELSE IF AluError(i.op, i.srcs) = "OK"
  THEN [form |-> "value", v |-> Results(i.op, i.srcs)[1],
        high |-> Results(i.op, i.srcs)[Len(Results(i.op, i.srcs))]]
  ELSE [form |-> "error", v |-> AluError(i.op, i.srcs)]

LEMMA OutOfBranch ==
  ASSUME NEW op \in BranchIfOps, NEW s
  PROVE  OutOf(Inst(op, s)).v = Truth(Holds(op, s))
  BY DEF OutOf, Inst

\* An operation that cannot fail and has one result leaves that.
LEMMA OutOfOne ==
  ASSUME NEW op, NEW s, op \notin VarSrcOps \cup DivOps \cup LongOps \cup BranchIfOps
  PROVE  OutOf(Inst(op, s)).v = Result(op, s)
  <1>1. AluError(op, s) = "OK"
    BY DEF AluError, DivOps
  <1>2. Results(op, s) = <<Result(op, s)>>
    BY DEF Results, LongOps
  <1> QED BY <1>1, <1>2 DEF OutOf, Inst

LEMMA OutOfDivision ==
  ASSUME NEW op \in DivOps, NEW s
  PROVE  OutOf(Inst(op, s)).v =
           IF s[2] = 0 THEN "ZERO_DIVISION"
           ELSE IF op = "DIV" /\ s[1] = IntMin /\ s[2] = -1 THEN "INTEGER_OVERFLOW"
           ELSE Result(op, s)
  <1>1. op \notin BranchIfOps /\ op \notin VarSrcOps /\ op \notin LongOps
    BY DEF DivOps, BranchIfOps, VarSrcOps, LongOps
  <1>2. Results(op, s) = <<Result(op, s)>>
    BY <1>1 DEF Results, LongOps
  <1>3. AluError(op, s) = IF s[2] = 0 THEN "ZERO_DIVISION"
                          ELSE IF op = "DIV" /\ s[1] = IntMin /\ s[2] = -1
                          THEN "INTEGER_OVERFLOW" ELSE "OK"
    BY <1>1 DEF AluError
  <1> QED BY <1>1, <1>2, <1>3 DEF OutOf, Inst

LEMMA OutOfLong ==
  ASSUME NEW op \in LongOps, NEW s, NEW low, NEW high, Results(op, s) = <<low, high>>
  PROVE  OutOf(Inst(op, s)).v = low /\ OutOf(Inst(op, s)).high = high
  <1>1. op \notin BranchIfOps /\ AluError(op, s) = "OK"
    BY DEF LongOps, BranchIfOps, AluError, VarSrcOps, DivOps
  <1>2. \A r : r = <<low, high>> => r[1] = low /\ r[Len(r)] = high
    OBVIOUS
  <1> QED BY <1>1, <1>2 DEF OutOf, Inst

LEMMA OutOfTest ==
  ASSUME NEW op \in TestOps, NEW s
  PROVE  OutOf(Inst(op, s)).v = Truth(Holds(op, s))
  <1>1. op \notin VarSrcOps \cup DivOps \cup LongOps \cup BranchIfOps
    BY DEF TestOps, VarSrcOps, DivOps, LongOps, BranchIfOps
  <1>2. op \notin MoveIfOps /\ op \notin ({"MOV", "LD_B_U", "LD_H_U"} \cup StoreOps)
    BY DEF TestOps, MoveIfOps, StoreOps
  <1>3. Result(op, s) = Truth(Holds(op, s))
    BY <1>2, SMT DEF Result, TestOps
  <1> QED BY <1>1, <1>3, OutOfOne

LEMMA OutOfMove ==
  ASSUME NEW op \in MoveIfOps, NEW s
  PROVE  OutOf(Inst(op, s)).v = IF Holds(op, s) THEN s[3] ELSE s[4]
  <1>1. op \notin VarSrcOps \cup DivOps \cup LongOps \cup BranchIfOps
    BY DEF MoveIfOps, VarSrcOps, DivOps, LongOps, BranchIfOps
  <1>2. op \notin TestOps /\ op \notin ({"MOV", "LD_B_U", "LD_H_U"} \cup StoreOps)
    BY DEF TestOps, MoveIfOps, StoreOps
  <1>3. Result(op, s) = IF Holds(op, s) THEN s[3] ELSE s[4]
    BY <1>2, SMT DEF Result, MoveIfOps
  <1> QED BY <1>1, <1>3, OutOfOne

-----------------------------------------------------------------------------
(* Comparisons and conditional moves.                                      *)

\* A test and a branch of a class decide by the relation it is named for.
LEMMA ClassesDecide ==
  ASSUME NEW c \in Signed, NEW a \in Int, NEW b \in Int
  PROVE  /\ OutOf(Tst(c, a, b)).v = Truth(Relation(c, a, b))
         /\ OutOf(Br(c, a, b)).v = Truth(Relation(c, a, b))
  <1> DEFINE s == <<a, b>>
             t == <<b, a>>
  <1>1. s[1] = a /\ s[2] = b /\ t[1] = b /\ t[2] = a
    OBVIOUS
  <1>10. /\ Tst("Eq", a, b) = Inst("TST_EQ", s) /\ Br("Eq", a, b) = Inst("BR_EQ", s)
         /\ Tst("Ne", a, b) = Inst("TST_NE", s) /\ Br("Ne", a, b) = Inst("BR_NE", s)
         /\ Tst("Gt", a, b) = Inst("TST_GT", s) /\ Br("Gt", a, b) = Inst("BR_GT", s)
         /\ Tst("Ge", a, b) = Inst("TST_GE", s) /\ Br("Ge", a, b) = Inst("BR_GE", s)
         /\ Tst("Lt", a, b) = Inst("TST_GT", t) /\ Br("Lt", a, b) = Inst("BR_GT", t)
         /\ Tst("Le", a, b) = Inst("TST_GE", t) /\ Br("Le", a, b) = Inst("BR_GE", t)
    BY TstIs, BrIs
  <1> HIDE DEF s, t
  <1>2. /\ \A op \in TestOps : /\ OutOf(Inst(op, s)).v = Truth(Holds(op, s))
                               /\ OutOf(Inst(op, t)).v = Truth(Holds(op, t))
        /\ \A op \in BranchIfOps : /\ OutOf(Inst(op, s)).v = Truth(Holds(op, s))
                                   /\ OutOf(Inst(op, t)).v = Truth(Holds(op, t))
    BY OutOfTest, OutOfBranch
  <1>3. /\ {"TST_EQ", "TST_NE", "TST_GT", "TST_GE"} \subseteq TestOps
        /\ {"BR_EQ", "BR_NE", "BR_GT", "BR_GE"} \subseteq BranchIfOps
    BY DEF TestOps, BranchIfOps
  <1>4. CASE c = "Eq"
    <2>1. Relation(c, a, b) <=> a = b
      BY <1>4 DEF Relation
    <2>2. Tst(c, a, b) = Inst("TST_EQ", s) /\ Br(c, a, b) = Inst("BR_EQ", s)
      BY <1>4, <1>10
    <2>3. (Holds("TST_EQ", s) <=> a = b) /\ (Holds("BR_EQ", s) <=> a = b)
      BY <1>1, HoldsMeans
    <2> QED BY <1>2, <1>3, <2>1, <2>2, <2>3 DEF Truth
  <1>5. CASE c = "Ne"
    <2>1. Relation(c, a, b) <=> a # b
      BY <1>5 DEF Relation
    <2>2. Tst(c, a, b) = Inst("TST_NE", s) /\ Br(c, a, b) = Inst("BR_NE", s)
      BY <1>5, <1>10
    <2>3. (Holds("TST_NE", s) <=> a # b) /\ (Holds("BR_NE", s) <=> a # b)
      BY <1>1, HoldsMeans
    <2> QED BY <1>2, <1>3, <2>1, <2>2, <2>3 DEF Truth
  <1>6. CASE c = "Gt"
    <2>1. Relation(c, a, b) <=> a > b
      BY <1>6 DEF Relation
    <2>2. Tst(c, a, b) = Inst("TST_GT", s) /\ Br(c, a, b) = Inst("BR_GT", s)
      BY <1>6, <1>10
    <2>3. (Holds("TST_GT", s) <=> a > b) /\ (Holds("BR_GT", s) <=> a > b)
      BY <1>1, HoldsMeans
    <2> QED BY <1>2, <1>3, <2>1, <2>2, <2>3 DEF Truth
  <1>7. CASE c = "Ge"
    <2>1. Relation(c, a, b) <=> a >= b
      BY <1>7 DEF Relation
    <2>2. Tst(c, a, b) = Inst("TST_GE", s) /\ Br(c, a, b) = Inst("BR_GE", s)
      BY <1>7, <1>10
    <2>3. (Holds("TST_GE", s) <=> a >= b) /\ (Holds("BR_GE", s) <=> a >= b)
      BY <1>1, HoldsMeans
    <2> QED BY <1>2, <1>3, <2>1, <2>2, <2>3 DEF Truth
  <1>8. CASE c = "Lt"
    <2>1. Relation(c, a, b) <=> b > a
      BY <1>8 DEF Relation
    <2>2. Tst(c, a, b) = Inst("TST_GT", t) /\ Br(c, a, b) = Inst("BR_GT", t)
      BY <1>8, <1>10
    <2>3. (Holds("TST_GT", t) <=> b > a) /\ (Holds("BR_GT", t) <=> b > a)
      BY <1>1, HoldsMeans
    <2> QED BY <1>2, <1>3, <2>1, <2>2, <2>3 DEF Truth
  <1>9. CASE c = "Le"
    <2>1. Relation(c, a, b) <=> b >= a
      BY <1>9 DEF Relation
    <2>2. Tst(c, a, b) = Inst("TST_GE", t) /\ Br(c, a, b) = Inst("BR_GE", t)
      BY <1>9, <1>10
    <2>3. (Holds("TST_GE", t) <=> b >= a) /\ (Holds("BR_GE", t) <=> b >= a)
      BY <1>1, HoldsMeans
    <2> QED BY <1>2, <1>3, <2>1, <2>2, <2>3 DEF Truth
  <1> QED BY <1>4, <1>5, <1>6, <1>7, <1>8, <1>9 DEF Signed

\* The comparison Python makes is the one written, with an int on the left too.
LEMMA MirroredMeans ==
  ASSUME NEW k \in CmpKinds, NEW a \in Int, NEW b \in Int, NEW i \in BOOLEAN,
         NEW e, e.kind = k, e.a = a, e.b = b, e.int_first = i
  PROVE  LET c == Comparison(e)
         IN  /\ c.kind \in CmpKinds /\ c.a \in Int /\ c.b \in Int
             /\ Relation(c.kind, c.a, c.b) <=> Relation(k, a, b)
  <1>1. Mirrored[k] \in CmpKinds
    BY DEF Mirrored, CmpKinds
  <1>2. Relation(Mirrored[k], b, a) <=> Relation(k, a, b)
    <2>1. CASE k = "=="
      <3>1. Mirrored[k] = "=="
        BY <2>1 DEF Mirrored, CmpKinds
      <3> QED BY <2>1, <3>1 DEF Relation
    <2>2. CASE k = "!="
      <3>1. Mirrored[k] = "!="
        BY <2>2 DEF Mirrored, CmpKinds
      <3> QED BY <2>2, <3>1 DEF Relation
    <2>3. CASE k = "<"
      <3>1. Mirrored[k] = ">"
        BY <2>3 DEF Mirrored, CmpKinds
      <3> QED BY <2>3, <3>1 DEF Relation
    <2>4. CASE k = "<="
      <3>1. Mirrored[k] = ">="
        BY <2>4 DEF Mirrored, CmpKinds
      <3> QED BY <2>4, <3>1 DEF Relation
    <2>5. CASE k = ">"
      <3>1. Mirrored[k] = "<"
        BY <2>5 DEF Mirrored, CmpKinds
      <3> QED BY <2>5, <3>1 DEF Relation
    <2>6. CASE k = ">="
      <3>1. Mirrored[k] = "<="
        BY <2>6 DEF Mirrored, CmpKinds
      <3> QED BY <2>6, <3>1 DEF Relation
    <2> QED BY <2>1, <2>2, <2>3, <2>4, <2>5, <2>6 DEF CmpKinds
  <1>3. CASE i
    BY <1>1, <1>2, <1>3 DEF Comparison
  <1>4. CASE ~i
    BY <1>4 DEF Comparison
  <1> QED BY <1>3, <1>4

\* The class of a comparison is its relation's, and the class of "else" the
\* opposite relation's.
LEMMA ClassesMean ==
  ASSUME NEW k \in CmpKinds, NEW a \in Int, NEW b \in Int
  PROVE  /\ IfClass[k] \in Signed /\ (Relation(IfClass[k], a, b) <=> Relation(k, a, b))
         /\ ElseClass[k] \in Signed /\ (Relation(ElseClass[k], a, b) <=> ~Relation(k, a, b))
  <1>1. CASE k = "=="
    <2>1. IfClass[k] = "Eq" /\ ElseClass[k] = "Ne"
      BY <1>1 DEF IfClass, ElseClass, CmpKinds
    <2>2. Relation("Ne", a, b) <=> ~Relation(k, a, b)
      BY <1>1 DEF Relation
    <2> QED BY <1>1, <2>1, <2>2 DEF Relation, Signed
  <1>2. CASE k = "!="
    <2>1. IfClass[k] = "Ne" /\ ElseClass[k] = "Eq"
      BY <1>2 DEF IfClass, ElseClass, CmpKinds
    <2>2. Relation("Eq", a, b) <=> ~Relation(k, a, b)
      BY <1>2 DEF Relation
    <2> QED BY <1>2, <2>1, <2>2 DEF Relation, Signed
  <1>3. CASE k = "<"
    <2>1. IfClass[k] = "Lt" /\ ElseClass[k] = "Ge"
      BY <1>3 DEF IfClass, ElseClass, CmpKinds
    <2>2. Relation("Ge", a, b) <=> ~Relation(k, a, b)
      BY <1>3 DEF Relation
    <2> QED BY <1>3, <2>1, <2>2 DEF Relation, Signed
  <1>4. CASE k = "<="
    <2>1. IfClass[k] = "Le" /\ ElseClass[k] = "Gt"
      BY <1>4 DEF IfClass, ElseClass, CmpKinds
    <2>2. Relation("Gt", a, b) <=> ~Relation(k, a, b)
      BY <1>4 DEF Relation
    <2> QED BY <1>4, <2>1, <2>2 DEF Relation, Signed
  <1>5. CASE k = ">"
    <2>1. IfClass[k] = "Gt" /\ ElseClass[k] = "Le"
      BY <1>5 DEF IfClass, ElseClass, CmpKinds
    <2>2. Relation("Le", a, b) <=> ~Relation(k, a, b)
      BY <1>5 DEF Relation
    <2> QED BY <1>5, <2>1, <2>2 DEF Relation, Signed
  <1>6. CASE k = ">="
    <2>1. IfClass[k] = "Ge" /\ ElseClass[k] = "Lt"
      BY <1>6 DEF IfClass, ElseClass, CmpKinds
    <2>2. Relation("Lt", a, b) <=> ~Relation(k, a, b)
      BY <1>6 DEF Relation
    <2> QED BY <1>6, <2>1, <2>2 DEF Relation, Signed
  <1> QED BY <1>1, <1>2, <1>3, <1>4, <1>5, <1>6 DEF CmpKinds

LEMMA MovesDecide ==
  ASSUME NEW c \in Classes, NEW a \in Int, NEW b \in Int, NEW x, NEW y
  PROVE  OutOf(Mov(c, a, b, x, y)).v = IF Relation(c, a, b) THEN x ELSE y
  <1> DEFINE s == <<a, b, x, y>>
             t == <<b, a, x, y>>
             u == <<a, b, y, x>>
  <1>1. /\ s[1] = a /\ s[2] = b /\ s[3] = x /\ s[4] = y
        /\ t[1] = b /\ t[2] = a /\ t[3] = x /\ t[4] = y
        /\ u[1] = a /\ u[2] = b /\ u[3] = y /\ u[4] = x
    OBVIOUS
  <1>2. /\ Mov("Eq", a, b, x, y) = Inst("MOV_EQ", s)
        /\ Mov("Ne", a, b, x, y) = Inst("MOV_EQ", u)
        /\ Mov("Gt", a, b, x, y) = Inst("MOV_GT", s)
        /\ Mov("Ge", a, b, x, y) = Inst("MOV_GE", s)
        /\ Mov("Lt", a, b, x, y) = Inst("MOV_GT", t)
        /\ Mov("Le", a, b, x, y) = Inst("MOV_GE", t)
        /\ Mov("GtU", a, b, x, y) = Inst("MOV_GT_U", s)
        /\ Mov("GeU", a, b, x, y) = Inst("MOV_GE_U", s)
        /\ Mov("LtU", a, b, x, y) = Inst("MOV_GT_U", t)
        /\ Mov("LeU", a, b, x, y) = Inst("MOV_GE_U", t)
    BY MovIs
  <1> HIDE DEF s, t, u
  <1>3. \A op \in MoveIfOps :
          /\ OutOf(Inst(op, s)).v = IF Holds(op, s) THEN x ELSE y
          /\ OutOf(Inst(op, t)).v = IF Holds(op, t) THEN x ELSE y
          /\ OutOf(Inst(op, u)).v = IF Holds(op, u) THEN y ELSE x
    BY <1>1, OutOfMove
  <1>4. /\ "MOV_EQ" \in MoveIfOps /\ "MOV_GT" \in MoveIfOps /\ "MOV_GE" \in MoveIfOps
        /\ "MOV_GT_U" \in MoveIfOps /\ "MOV_GE_U" \in MoveIfOps
    BY DEF MoveIfOps
  <1>5. /\ (Holds("MOV_EQ", s) <=> a = b) /\ (Holds("MOV_EQ", u) <=> a = b)
        /\ (Holds("MOV_GT", s) <=> a > b) /\ (Holds("MOV_GE", s) <=> a >= b)
        /\ (Holds("MOV_GT_U", s) <=> Unsigned(a) > Unsigned(b))
        /\ (Holds("MOV_GE_U", s) <=> Unsigned(a) >= Unsigned(b))
    BY <1>1, HoldsMeans
  <1>6. /\ (Holds("MOV_GT", t) <=> b > a) /\ (Holds("MOV_GE", t) <=> b >= a)
        /\ (Holds("MOV_GT_U", t) <=> Unsigned(b) > Unsigned(a))
        /\ (Holds("MOV_GE_U", t) <=> Unsigned(b) >= Unsigned(a))
    BY <1>1, HoldsMeans
  <1>7. CASE c = "Eq"
    <2>1. Relation(c, a, b) <=> a = b
      BY <1>7 DEF Relation
    <2> QED BY <1>2, <1>3, <1>4, <1>5, <1>7, <2>1
  <1>8. CASE c = "Ne"
    <2>1. Relation(c, a, b) <=> a # b
      BY <1>8 DEF Relation
    <2> QED BY <1>2, <1>3, <1>4, <1>5, <1>8, <2>1
  <1>9. CASE c = "Gt"
    <2>1. Relation(c, a, b) <=> a > b
      BY <1>9 DEF Relation
    <2> QED BY <1>2, <1>3, <1>4, <1>5, <1>9, <2>1
  <1>10. CASE c = "Ge"
    <2>1. Relation(c, a, b) <=> a >= b
      BY <1>10 DEF Relation
    <2> QED BY <1>2, <1>3, <1>4, <1>5, <1>10, <2>1
  <1>11. CASE c = "Lt"
    <2>1. Relation(c, a, b) <=> b > a
      BY <1>11 DEF Relation
    <2> QED BY <1>2, <1>3, <1>4, <1>6, <1>11, <2>1
  <1>12. CASE c = "Le"
    <2>1. Relation(c, a, b) <=> b >= a
      BY <1>12 DEF Relation
    <2> QED BY <1>2, <1>3, <1>4, <1>6, <1>12, <2>1
  <1>13. CASE c = "GtU"
    <2>1. Relation(c, a, b) <=> Unsigned(a) > Unsigned(b)
      BY <1>13 DEF Relation
    <2> QED BY <1>2, <1>3, <1>4, <1>5, <1>13, <2>1
  <1>14. CASE c = "GeU"
    <2>1. Relation(c, a, b) <=> Unsigned(a) >= Unsigned(b)
      BY <1>14 DEF Relation
    <2> QED BY <1>2, <1>3, <1>4, <1>5, <1>14, <2>1
  <1>15. CASE c = "LtU"
    <2>1. Relation(c, a, b) <=> Unsigned(b) > Unsigned(a)
      <3>1. Relation(c, a, b) <=> Unsigned(a) < Unsigned(b)
        BY <1>15 DEF Relation
      <3> QED BY <3>1, UnsignedType
    <2> QED BY <1>2, <1>3, <1>4, <1>6, <1>15, <2>1
  <1>16. CASE c = "LeU"
    <2>1. Relation(c, a, b) <=> Unsigned(b) >= Unsigned(a)
      <3>1. Relation(c, a, b) <=> Unsigned(a) <= Unsigned(b)
        BY <1>16 DEF Relation
      <3> QED BY <3>1, UnsignedType
    <2> QED BY <1>2, <1>3, <1>4, <1>6, <1>16, <2>1
  <1> QED BY <1>7, <1>8, <1>9, <1>10, <1>11, <1>12, <1>13, <1>14, <1>15, <1>16
         DEF Classes, Signed

-----------------------------------------------------------------------------
(* Reduction to a word.                                                    *)

LEMMA ValuesAreWords == Values(4) \in Nat \ {0} /\ Values(4) = 2 * Half /\ Half \in Nat
  BY ByteValues, WidthFacts

\* Wrap leaves a number that differs by a multiple of the number of words.
LEMMA WrapCongruent ==
  ASSUME NEW v \in Int
  PROVE  \E m \in Int : Wrap(v) = v + Values(4) * m
  <1> DEFINE n == Values(4)
             u == v % n
             q == v \div n
  <1>1. n \in Nat \ {0}
    BY ValuesAreWords
  <1>2. u \in Int /\ q \in Int /\ v = n * q + u
    BY <1>1, DivMod
  <1>3. Wrap(v) = u \/ Wrap(v) = u - n
    BY DEF Wrap, SignExtend
  <1> HIDE DEF n, u, q
  <1>4. n * (-q) = -(n * q) /\ n * (-q - 1) = -(n * q) - n
    BY <1>1, <1>2
  <1>5. CASE Wrap(v) = u
    <2>1. Wrap(v) = v + n * (-q) /\ -q \in Int
      BY <1>1, <1>2, <1>4, <1>5
    <2> QED BY <2>1 DEF n
  <1>6. CASE Wrap(v) = u - n
    <2>1. Wrap(v) = v + n * (-q - 1) /\ -q - 1 \in Int
      BY <1>1, <1>2, <1>4, <1>6
    <2> QED BY <2>1 DEF n
  <1> QED BY <1>3, <1>5, <1>6

\* Multiples of the modulus do not change a remainder.
LEMMA RemainderOfSum ==
  ASSUME NEW v \in Int, NEW n \in Nat \ {0}, NEW m \in Int
  PROVE  (v + n * m) % n = v % n /\ (v + n * m) \div n = v \div n + m
  <1> DEFINE q == v \div n
             r == v % n
             w == v + n * m
  <1>1. q \in Int /\ r \in Int /\ v = n * q + r /\ 0 <= r /\ r < n
    BY DivMod
  <1> HIDE DEF q, r
  <1>2. n * (q + m) = n * q + n * m /\ n * m \in Int
    BY <1>1
  <1>3. w = n * (q + m) + r /\ w \in Int /\ q + m \in Int
    BY <1>1, <1>2
  <1> HIDE DEF w
  <1>4. w \div n = q + m /\ w % n = r
    BY <1>1, <1>3, DivModUnique
  <1> QED BY <1>4 DEF w, q, r

LEMMA UnsignedOfWrap ==
  ASSUME NEW v \in Int
  PROVE  Unsigned(Wrap(v)) = Unsigned(v)
  <1>1. PICK m \in Int : Wrap(v) = v + Values(4) * m
    BY WrapCongruent
  <1> DEFINE n == Values(4)
  <1>2. n \in Nat \ {0}
    BY ValuesAreWords
  <1>3. Unsigned(Wrap(v)) = (v + n * m) % n /\ Unsigned(v) = v % n
    BY <1>1 DEF Unsigned
  <1> HIDE DEF n
  <1>4. (v + n * m) % n = v % n
    BY <1>2, RemainderOfSum
  <1> QED BY <1>3, <1>4

LEMMA UnsignedOfSmall ==
  ASSUME NEW v \in Nat, v < Values(4)
  PROVE  Unsigned(Wrap(v)) = v
  <1>1. v = Values(4) * 0 + v
    BY ValuesAreWords
  <1>2. v % Values(4) = v
    BY <1>1, ValuesAreWords, DivModUnique, 0 \in Int
  <1> QED BY <1>2, UnsignedOfWrap DEF Unsigned

\* A word reduced from v is congruent to it.
LEMMA WrapMeans ==
  ASSUME NEW v \in Int
  PROVE  Wrap(v) \in Int /\ (Wrap(v) - v) % Values(4) = 0
  <1>1. PICK m \in Int : Wrap(v) = v + Values(4) * m
    BY WrapCongruent
  <1> DEFINE n == Values(4)
             w == n * m
  <1>2. n \in Nat \ {0}
    BY ValuesAreWords
  <1>3. Wrap(v) = v + w
    BY <1>1
  <1> HIDE DEF n
  <1>4. w \in Int /\ w = n * m + 0 /\ 0 < n
    BY <1>2
  <1>5. w % n = 0
    BY <1>2, <1>4, DivModUnique, 0 \in Int
  <1> HIDE DEF w
  <1>6. Wrap(v) - v = w /\ Wrap(v) \in Int
    BY <1>3, <1>4
  <1> QED BY <1>5, <1>6 DEF n

-----------------------------------------------------------------------------
(* The bits of a word.  Bit k of any integer, of its two's complement, is  *)
(* the parity of the floor of its quotient by 2 ^ k.                       *)

LEMMA PowerFacts ==
  ASSUME NEW k \in Nat
  PROVE  2 ^ k \in Nat \ {0}
  BY PowerPositive

\* Dividing in two steps.
LEMMA DivTwice ==
  ASSUME NEW v \in Int, NEW m \in Nat \ {0}, NEW n \in Nat \ {0}
  PROVE  (v \div m) \div n = v \div (m * n)
  <1> DEFINE q == v \div m
             r == v % m
             p == q \div n
             s == q % n
             w == m * n
             t == m * s + r
  <1>1. q \in Int /\ r \in Int /\ v = m * q + r /\ 0 <= r /\ r < m
    BY DivMod
  <1> HIDE DEF q, r
  <1>2. p \in Int /\ s \in Int /\ q = n * p + s /\ 0 <= s /\ s < n
    BY <1>1, DivMod
  <1> HIDE DEF p, s
  <1>3. m * q = m * (n * p) + m * s /\ m * (n * p) = w * p
    BY <1>1, <1>2
  <1>4. m * s >= 0 /\ m * s <= m * (n - 1) /\ m * (n - 1) = w - m
    BY <1>1, <1>2
  <1>5. m * s \in Int /\ w \in Nat \ {0} /\ w * p \in Int
    BY <1>1, <1>2
  <1>6. v = w * p + t /\ t \in Int /\ 0 <= t /\ t < w
    BY <1>1, <1>3, <1>4, <1>5
  <1> HIDE DEF w, t
  <1>7. v \div w = p
    BY <1>2, <1>5, <1>6, DivModUnique
  <1> QED BY <1>7 DEF w, p, q

LEMMA DivPowers ==
  ASSUME NEW v \in Int, NEW m \in Nat, NEW n \in Nat
  PROVE  (v \div 2 ^ m) \div 2 ^ n = v \div 2 ^ (m + n)
  <1>1. 2 ^ m \in Nat \ {0} /\ 2 ^ n \in Nat \ {0}
    BY PowerFacts
  <1>2. 2 ^ (m + n) = 2 ^ m * 2 ^ n
    BY PowerSum
  <1>3. (v \div 2 ^ m) \div 2 ^ n = v \div (2 ^ m * 2 ^ n)
    BY <1>1, DivTwice
  <1> QED BY <1>2, <1>3

\* Bit needs no reduction to an unsigned word.
LEMMA BitIs ==
  ASSUME NEW v \in Int, NEW k \in BitPlaces
  PROVE  Bit(v, k) = (v \div 2 ^ k) % 2
  <1> DEFINE j == WordBits - 1 - k
             x == 2 ^ k
             y == 2 ^ j
             m == v \div Values(4)
             u == Unsigned(v)
  <1>1. k \in Nat /\ j \in Nat /\ WordBits \in Nat
    BY WordBitsFacts DEF BitPlaces
  <1>2. x \in Nat \ {0} /\ y \in Nat \ {0}
    BY <1>1, PowerFacts
  <1>3. Values(4) = x * (2 * y)
    <2>1. 2 ^ (j + 1) = 2 * y
      BY <1>1, PowerNext
    <2>2. k + (j + 1) = WordBits /\ j + 1 \in Nat
      BY <1>1
    <2>3. 2 ^ (k + (j + 1)) = 2 ^ k * 2 ^ (j + 1)
      BY <1>1, <2>2, PowerSum
    <2> HIDE DEF j
    <2> QED BY <2>1, <2>2, <2>3 DEF Values, WordBits
  <1>4. m \in Int /\ u \in Int /\ v = Values(4) * m + u
    BY ValuesAreWords, DivMod DEF Unsigned
  <1> HIDE DEF j, x, y, m, u
  <1> DEFINE z == y * m
             q == u \div x
  <1>5. z \in Int /\ 2 * z \in Int /\ Values(4) * m = x * (2 * z)
    BY <1>2, <1>3, <1>4
  <1>6. v = u + x * (2 * z)
    BY <1>4, <1>5, <1>2
  <1>7. v \div x = q + 2 * z
    <2> DEFINE z2 == 2 * z
    <2>1. z2 \in Int /\ v = u + x * z2
      BY <1>5, <1>6
    <2> HIDE DEF z2
    <2>2. (u + x * z2) \div x = u \div x + z2
      BY <1>2, <1>4, <2>1, RemainderOfSum
    <2> QED BY <2>1, <2>2 DEF z2
  <1>8. q \in Int
    BY <1>2, <1>4, DivMod
  <1>9. (q + 2 * z) % 2 = q % 2
    <2> HIDE DEF z, q
    <2> QED BY <1>5, <1>8, RemainderOfSum
  <1> QED BY <1>7, <1>9 DEF Bit, u, x

LEMMA BitOfWrap ==
  ASSUME NEW v \in Int, NEW k \in BitPlaces
  PROVE  Bit(Wrap(v), k) = Bit(v, k)
  BY UnsignedOfWrap DEF Bit

LEMMA BitOfUnsigned ==
  ASSUME NEW v \in Int, NEW k \in BitPlaces
  PROVE  Bit(Unsigned(v), k) = Bit(v, k)
  <1>1. Unsigned(v) \in Addrs
    BY UnsignedType
  <1> QED BY <1>1, UnsignedOfAddr DEF Bit

\* Beyond its width a word is all sign.
LEMMA BeyondWidth ==
  ASSUME NEW v \in Words, NEW k \in Nat, k >= WordBits - 1
  PROVE  v \div 2 ^ k = IF v < 0 THEN -1 ELSE 0
  <1> DEFINE x == 2 ^ k
             j == k - (WordBits - 1)
  <1>1. j \in Nat /\ WordBits - 1 \in Nat /\ (WordBits - 1) + j = k
    BY WordBitsFacts
  <1>2. 2 ^ ((WordBits - 1) + j) = 2 ^ (WordBits - 1) * 2 ^ j
    BY <1>1, PowerSum
  <1>3. 2 ^ (WordBits - 1) = Half
    BY WidthFacts DEF IntMin, IntMax, Half
  <1>4. 2 ^ j \in Nat /\ 2 ^ j >= 1
    BY <1>1, PowerPositive
  <1> HIDE DEF j
  <1>5. x = Half * 2 ^ j /\ Half \in Nat
    BY <1>1, <1>2, <1>3, HalfFacts
  <1>6. x >= Half /\ x \in Nat \ {0}
    BY <1>4, <1>5, HalfFacts
  <1>7. v \in Int /\ -x <= v /\ v < x
    BY <1>6, WordRange, HalfFacts
  <1> HIDE DEF x
  <1>8. CASE v < 0
    <2>1. v = x * (-1) + (v + x) /\ 0 <= v + x /\ v + x < x /\ v + x \in Int /\ -1 \in Int
      BY <1>6, <1>7, <1>8
    <2>2. v \div x = -1
      <3> DEFINE r == v + x
      <3>1. v = x * (-1) + r /\ 0 <= r /\ r < x /\ r \in Int
        BY <2>1
      <3> HIDE DEF r
      <3> QED BY <1>6, <1>7, <2>1, <3>1, DivModUnique
    <2> QED BY <1>8, <2>2 DEF x
  <1>9. CASE ~(v < 0)
    <2>1. v = x * 0 + v /\ 0 <= v
      BY <1>6, <1>7, <1>9
    <2>2. v \div x = 0
      BY <1>6, <1>7, <2>1, DivModUnique, 0 \in Int
    <2> QED BY <1>9, <2>2 DEF x
  <1> QED BY <1>8, <1>9

-----------------------------------------------------------------------------
(* A word made of bits has those bits.                                     *)

\* What FromBits sums up.
Terms(b) == [j \in 1 .. WordBits |-> b[j - 1] * 2 ^ (j - 1)]

LEMMA TermsType ==
  ASSUME NEW b \in [BitPlaces -> {0, 1}], NEW j \in 1 .. WordBits
  PROVE  /\ Terms(b)[j] = b[j - 1] * 2 ^ (j - 1) /\ Terms(b)[j] \in Nat
         /\ b[j - 1] \in {0, 1} /\ j - 1 \in Nat
  <1>1. j - 1 \in BitPlaces /\ j - 1 \in Nat
    BY WordBitsFacts DEF BitPlaces
  <1>2. b[j - 1] \in {0, 1} /\ 2 ^ (j - 1) \in Nat
    BY <1>1, PowerPositive
  <1>3. Terms(b)[j] = b[j - 1] * 2 ^ (j - 1)
    BY DEF Terms
  <1>4. \A x \in {0, 1}, y \in Nat : x * y \in Nat
    OBVIOUS
  <1> QED BY <1>1, <1>2, <1>3, <1>4

\* One more term.
LEMMA TermsNext ==
  ASSUME NEW b \in [BitPlaces -> {0, 1}], NEW n \in Nat, n < WordBits
  PROVE  /\ SumTo(Terms(b), n) \in Int /\ b[n] \in {0, 1}
         /\ SumTo(Terms(b), n + 1) = SumTo(Terms(b), n) + b[n] * 2 ^ n
  <1>1. \A j \in 1 .. WordBits : Terms(b)[j] \in Int
    BY TermsType
  <1>2. WordBits \in Nat /\ n \in 0 .. WordBits /\ n + 1 \in 1 .. WordBits
    BY WordBitsFacts
  <1> DEFINE f == Terms(b)
             j == n + 1
  <1>3. j - 1 = n /\ j \in 1 .. WordBits
    BY <1>2
  <1> HIDE DEF f, j
  <1>4. f[j] = b[n] * 2 ^ n /\ b[n] \in {0, 1}
    BY <1>3, TermsType DEF f
  <1>5. SumTo(f, n) \in Int
    BY <1>1, <1>2, SumToType DEF f
  <1>6. SumTo(f, n + 1) = SumTo(f, n) + f[n + 1]
    BY <1>1, <1>2, SumToNext DEF f
  <1> QED BY <1>4, <1>5, <1>6 DEF f, j

\* The sum of the first n terms is less than 2 ^ n.
LEMMA TermsBounded ==
  ASSUME NEW b \in [BitPlaces -> {0, 1}], NEW n \in Nat, n <= WordBits
  PROVE  SumTo(Terms(b), n) \in Nat /\ SumTo(Terms(b), n) < 2 ^ n
  <1> DEFINE Sum(i) == SumTo(Terms(b), i)
             Good == {i \in Nat : i <= WordBits => Sum(i) \in Nat /\ Sum(i) < 2 ^ i}
  <1>1. 0 \in Good
    <2>1. Sum(0) = 0 /\ 2 ^ 0 >= 1 /\ 2 ^ 0 \in Nat
      BY SumToZero, PowerPositive
    <2> QED BY <2>1
  <1>2. ASSUME NEW i \in Nat, i \in Good PROVE i + 1 \in Good
    <2> SUFFICES ASSUME i + 1 <= WordBits
                 PROVE  Sum(i + 1) \in Nat /\ Sum(i + 1) < 2 ^ (i + 1)
      OBVIOUS
    <2>1. i < WordBits /\ WordBits \in Nat
      BY WordBitsFacts
    <2>2. Sum(i) \in Nat /\ Sum(i) < 2 ^ i
      BY <1>2, <2>1
    <2>3. Sum(i + 1) = Sum(i) + b[i] * 2 ^ i /\ b[i] \in {0, 1}
      BY <2>1, TermsNext
    <2>4. 2 ^ (i + 1) = 2 * 2 ^ i /\ 2 ^ i \in Nat
      BY PowerNext, PowerPositive
    <2> HIDE DEF Sum
    <2>5. b[i] * 2 ^ i = 0 \/ b[i] * 2 ^ i = 2 ^ i
      BY <2>3, <2>4
    <2> QED BY <2>2, <2>3, <2>4, <2>5
  <1>3. \A i \in Nat : i \in Good
    <2> HIDE DEF Good
    <2> QED BY <1>1, <1>2, SetInduction
  <1> QED BY <1>3

\* The terms from k on: bit k and an even multiple of 2 ^ k.
LEMMA TermsAbove ==
  ASSUME NEW b \in [BitPlaces -> {0, 1}], NEW k \in BitPlaces
  PROVE  \E m \in Nat :
           SumTo(Terms(b), WordBits) = SumTo(Terms(b), k) + 2 ^ k * (b[k] + 2 * m)
  <1> DEFINE Sum(i) == SumTo(Terms(b), i)
             x == 2 ^ k
             Good == {i \in Nat : k + (i + 1) <= WordBits =>
                        \E m \in Nat : Sum(k + (i + 1)) = Sum(k) + x * (b[k] + 2 * m)}
  <1>1. k \in Nat /\ k < WordBits /\ WordBits \in Nat /\ x \in Nat \ {0} /\ b[k] \in {0, 1}
    BY WordBitsFacts, PowerFacts DEF BitPlaces
  <1>2. Sum(k) \in Nat
    BY <1>1, TermsBounded
  <1>3. 0 \in Good
    <2>1. Sum(k + 1) = Sum(k) + b[k] * x
      BY <1>1, TermsNext
    <2>2. b[k] * x = x * (b[k] + 2 * 0)
      BY <1>1
    <2>3. k + (0 + 1) = k + 1 /\ 0 \in Nat
      OBVIOUS
    <2>4. Sum(k + (0 + 1)) = Sum(k) + x * (b[k] + 2 * 0)
      BY <2>1, <2>2, <2>3
    <2> HIDE DEF Sum
    <2> QED BY <2>4
  <1>4. ASSUME NEW i \in Nat, i \in Good PROVE i + 1 \in Good
    <2> DEFINE j == k + (i + 1)
    <2>1. k + ((i + 1) + 1) = j + 1 /\ j \in Nat
      BY <1>1
    <2> SUFFICES ASSUME j + 1 <= WordBits
                 PROVE  \E m \in Nat : Sum(j + 1) = Sum(k) + x * (b[k] + 2 * m)
      BY <2>1
    <2>2. j < WordBits /\ j <= WordBits
      BY <1>1
    <2>3. PICK m \in Nat : Sum(j) = Sum(k) + x * (b[k] + 2 * m)
      BY <1>4, <2>2
    <2>4. Sum(j + 1) = Sum(j) + b[j] * 2 ^ j /\ b[j] \in {0, 1}
      BY <2>1, <2>2, TermsNext
    <2> DEFINE y == 2 ^ i
    <2>5. 2 ^ j = x * (2 * y) /\ y \in Nat
      <3>1. i + 1 \in Nat /\ 2 ^ (i + 1) = 2 * y /\ y \in Nat
        BY PowerNext, PowerPositive
      <3>2. 2 ^ (k + (i + 1)) = 2 ^ k * 2 ^ (i + 1)
        BY <1>1, <3>1, PowerSum
      <3> HIDE DEF y
      <3> QED BY <3>1, <3>2
    <2> DEFINE z == m + b[j] * y
    <2> HIDE DEF Sum, x, y, j
    <2>6. b[j] * y \in Nat /\ z \in Nat
      BY <2>4, <2>5
    <2>7. b[j] * (x * (2 * y)) = x * (2 * (b[j] * y))
      BY <1>1, <2>4, <2>5
    <2>8. x * (b[k] + 2 * z) = x * (b[k] + 2 * m) + x * (2 * (b[j] * y))
      BY <1>1, <2>6
    <2>9. x * (b[k] + 2 * m) \in Nat /\ x * (2 * (b[j] * y)) \in Nat
      BY <1>1, <2>6
    <2>10. Sum(j + 1) = Sum(k) + x * (b[k] + 2 * z)
      <3> HIDE DEF z
      <3> QED BY <1>2, <2>3, <2>4, <2>5, <2>7, <2>8, <2>9
    <2> HIDE DEF z
    <2> QED BY <2>6, <2>10
  <1>5. \A i \in Nat : i \in Good
    <2> HIDE DEF Good
    <2> QED BY <1>3, <1>4, SetInduction
  <1> DEFINE l == WordBits - 1 - k
  <1>6. l \in Nat /\ k + (l + 1) = WordBits
    BY <1>1
  <1> HIDE DEF l
  <1>7. l \in Good
    BY <1>5, <1>6
  <1>8. \E m \in Nat : Sum(k + (l + 1)) = Sum(k) + x * (b[k] + 2 * m)
    BY <1>1, <1>6, <1>7
  <1> QED BY <1>6, <1>8

LEMMA BitOfBits ==
  ASSUME NEW b \in [BitPlaces -> {0, 1}], NEW k \in BitPlaces
  PROVE  Bit(FromBits(b), k) = b[k]
  <1> DEFINE s == SumTo(Terms(b), WordBits)
             t == SumTo(Terms(b), k)
             x == 2 ^ k
  <1>1. k \in Nat /\ k < WordBits /\ WordBits \in Nat /\ x \in Nat \ {0} /\ b[k] \in {0, 1}
    BY WordBitsFacts, PowerFacts DEF BitPlaces
  <1>2. s \in Nat /\ t \in Nat /\ t < x
    BY <1>1, TermsBounded
  <1>3. PICK m \in Nat : s = t + x * (b[k] + 2 * m)
    BY TermsAbove
  <1>4. FromBits(b) = Wrap(s)
    BY DEF FromBits, Terms
  <1> HIDE DEF s, t, x
  <1> DEFINE q == b[k] + 2 * m
  <1>5. q \in Nat
    BY <1>1
  <1>6. s = x * q + t /\ 0 <= t
    BY <1>1, <1>2, <1>3
  <1>7. s \div x = q
    <2> HIDE DEF q
    <2> QED BY <1>1, <1>2, <1>5, <1>6, DivModUnique
  <1>8. q % 2 = b[k]
    <2>1. q = 2 * m + b[k] /\ 0 <= b[k] /\ b[k] < 2 /\ b[k] \in Int
      BY <1>1
    <2> DEFINE r == b[k]
    <2> HIDE DEF q, r
    <2> QED BY <1>5, <2>1, DivModUnique DEF r
  <1>9. Bit(Wrap(s), k) = (s \div x) % 2
    BY <1>2, BitOfWrap, BitIs DEF x
  <1> QED BY <1>4, <1>7, <1>8, <1>9

LEMMA BitsAre ==
  ASSUME NEW b \in [BitPlaces -> {0, 1}]
  PROVE  Bits(FromBits(b)) = {k \in BitPlaces : b[k] = 1}
  BY BitOfBits DEF Bits

-----------------------------------------------------------------------------
(* What the operations compute.                                            *)

LEMMA InWords ==
  ASSUME NEW v \in Words
  PROVE  v \in Int
  BY WordRange

LEMMA BitwiseMeans ==
  ASSUME NEW a \in Words, NEW b \in Words, NEW s, s[1] = a, s[2] = b
  PROVE  /\ Bits(Result("BIT_AND", s)) = Bits(a) \cap Bits(b)
         /\ Bits(Result("BIT_OR", s)) = Bits(a) \cup Bits(b)
         /\ Bits(Result("BIT_XOR", s)) = (Bits(a) \cup Bits(b)) \ (Bits(a) \cap Bits(b))
  <1> DEFINE x == [k \in BitPlaces |-> Bit(a, k) * Bit(b, k)]
             y == [k \in BitPlaces |-> Truth(Bit(a, k) + Bit(b, k) # 0)]
             z == [k \in BitPlaces |-> (Bit(a, k) + Bit(b, k)) % 2]
  <1>1. \A k \in BitPlaces : Bit(a, k) \in {0, 1} /\ Bit(b, k) \in {0, 1}
    BY BitType, InWords, WordBitsFacts DEF BitPlaces
  <1>2. x \in [BitPlaces -> {0, 1}] /\ y \in [BitPlaces -> {0, 1}] /\ z \in [BitPlaces -> {0, 1}]
    BY <1>1, TruthInWords
  <1>3. /\ Result("BIT_AND", s) = FromBits(x)
        /\ Result("BIT_OR", s) = FromBits(y)
        /\ Result("BIT_XOR", s) = FromBits(z)
    BY DEF Result, TestOps, MoveIfOps, StoreOps
  <1>4. /\ Bits(FromBits(x)) = {k \in BitPlaces : x[k] = 1}
        /\ Bits(FromBits(y)) = {k \in BitPlaces : y[k] = 1}
        /\ Bits(FromBits(z)) = {k \in BitPlaces : z[k] = 1}
    BY <1>2, BitsAre
  <1>5. ASSUME NEW k \in BitPlaces
        PROVE  /\ x[k] = 1 <=> Bit(a, k) = 1 /\ Bit(b, k) = 1
               /\ y[k] = 1 <=> Bit(a, k) = 1 \/ Bit(b, k) = 1
               /\ z[k] = 1 <=> Bit(a, k) # Bit(b, k)
    <2>1. \A u, v \in {0, 1} : /\ u * v = 1 <=> u = 1 /\ v = 1
                               /\ Truth(u + v # 0) = 1 <=> u = 1 \/ v = 1
                               /\ (u + v) % 2 = 1 <=> u # v
      BY DEF Truth
    <2> QED BY <1>1, <2>1
  <1> HIDE DEF x, y, z
  <1>6. {k \in BitPlaces : x[k] = 1} = Bits(a) \cap Bits(b)
    BY <1>5 DEF Bits
  <1>7. {k \in BitPlaces : y[k] = 1} = Bits(a) \cup Bits(b)
    BY <1>5 DEF Bits
  <1>8. {k \in BitPlaces : z[k] = 1} = (Bits(a) \cup Bits(b)) \ (Bits(a) \cap Bits(b))
    BY <1>1, <1>5 DEF Bits
  <1> QED BY <1>3, <1>4, <1>6, <1>7, <1>8

\* The complement inverts each bit.
LEMMA ComplementMeans ==
  ASSUME NEW a \in Words
  PROVE  Bits(-a - 1) = BitPlaces \ Bits(a)
  <1> SUFFICES ASSUME NEW k \in BitPlaces
               PROVE  Bit(-a - 1, k) = 1 <=> Bit(a, k) # 1
    BY DEF Bits
  <1> DEFINE x == 2 ^ k
             q == a \div x
             r == a % x
             c == -a - 1
  <1>1. a \in Int /\ k \in Nat /\ x \in Nat \ {0} /\ c \in Int
    BY InWords, WordBitsFacts, PowerFacts DEF BitPlaces
  <1>2. q \in Int /\ a = x * q + r /\ 0 <= r /\ r < x /\ r \in Int
    BY <1>1, DivMod
  <1>3. Bit(a, k) = q % 2 /\ Bit(c, k) = (c \div x) % 2
    BY <1>1, BitIs
  <1> HIDE DEF x, q, r, c
  <1> DEFINE p == -q - 1
             t == x - 1 - r
  <1>4. c = x * p + t /\ p \in Int /\ t \in Int /\ 0 <= t /\ t < x
    <2>1. x * p = -(x * q) - x
      BY <1>1, <1>2
    <2>2. c = -a - 1
      BY DEF c
    <2>3. x * q \in Int
      BY <1>1, <1>2
    <2> HIDE DEF p
    <2>4. c = x * p + t
      BY <1>1, <1>2, <2>1, <2>2, <2>3
    <2> QED BY <1>1, <1>2, <2>4 DEF p
  <1>5. c \div x = p
    <2> HIDE DEF p, t
    <2> QED BY <1>1, <1>4, DivModUnique
  <1>6. p % 2 = 1 - (q % 2)
    <2> DEFINE h == q \div 2
               g == q % 2
               e == -h - 1
               d == 1 - g
    <2>1. h \in Int /\ g \in Int /\ q = 2 * h + g /\ 0 <= g /\ g < 2
      BY <1>2, DivMod
    <2> HIDE DEF h, g
    <2>2. p = 2 * e + d /\ e \in Int /\ d \in Int /\ 0 <= d /\ d < 2
      BY <2>1
    <2> HIDE DEF e, d
    <2>3. p % 2 = d
      <3> HIDE DEF p
      <3> QED BY <1>4, <2>2, DivModUnique
    <2> QED BY <2>3 DEF d, g
  <1>7. q % 2 \in {0, 1}
    BY <1>2
  <1>8. Bit(c, k) = 1 - (q % 2)
    BY <1>3, <1>5, <1>6
  <1> QED BY <1>3, <1>7, <1>8 DEF c

LEMMA SignBits == (-1) % 2 = 1 /\ 0 % 2 = 0
  <1> DEFINE m == -1
  <1>1. m \in Int /\ m = 2 * m + 1 /\ 0 = 2 * 0 + 0 /\ 2 \in Nat \ {0}
    OBVIOUS
  <1> HIDE DEF m
  <1>2. m % 2 = 1
    BY <1>1, DivModUnique, 1 \in Int
  <1> QED BY <1>2 DEF m

\* A shift right moves the bits down, and the sign in from above.
LEMMA RShiftMeans ==
  ASSUME NEW a \in Words, NEW n \in Words, NEW k \in BitPlaces
  PROVE  Bit(RShift(a, n), k) = 1 <=>
           IF k + Unsigned(n) < WordBits THEN Bit(a, k + Unsigned(n)) = 1 ELSE a < 0
  <1>1. /\ a \in Int /\ n \in Int /\ Unsigned(n) \in Nat
        /\ k \in Nat /\ WordBits \in Nat /\ k < WordBits
    BY InWords, UnsignedType, WordBitsFacts DEF BitPlaces
  <1>2. CASE ShiftsOut(n)
    <2>1. ~(k + Unsigned(n) < WordBits)
      BY <1>1, <1>2 DEF ShiftsOut
    <2>2. RShift(a, n) = IF a < 0 THEN -1 ELSE 0
      BY <1>2 DEF RShift
    <2>3. Bit(-1, k) = 1 /\ Bit(0, k) = 0
      <3> DEFINE x == 2 ^ k
                 r == x - 1
                 m == -1
      <3>1. x \in Nat \ {0} /\ m \in Int
        BY <1>1, PowerFacts
      <3>2. Bit(m, k) = (m \div x) % 2 /\ Bit(0, k) = (0 \div x) % 2
        BY BitIs, m \in Int, 0 \in Int
      <3> HIDE DEF x
      <3>3. m = x * m + r /\ 0 <= r /\ r < x /\ r \in Int /\ 0 = x * 0 + 0 /\ 0 < x
        BY <3>1
      <3> HIDE DEF r, m
      <3>4. m \div x = m /\ 0 \div x = 0
        BY <3>1, <3>3, DivModUnique, 0 \in Int
      <3>5. m % 2 = 1 /\ 0 % 2 = 0
        BY SignBits DEF m
      <3> QED BY <3>2, <3>4, <3>5 DEF m
    <2> QED BY <1>1, <2>1, <2>2, <2>3
  <1>3. CASE ~ShiftsOut(n)
    <2>1. n \in Nat /\ Unsigned(n) = n /\ RShift(a, n) = a \div 2 ^ n
      BY <1>3, ShiftCount DEF RShift
    <2> DEFINE j == k + n
    <2>2. a \div 2 ^ n \in Int
      <3>1. 2 ^ n \in Nat \ {0}
        BY <2>1, PowerFacts
      <3> QED BY <1>1, <3>1, DivMod
    <2>3. Bit(RShift(a, n), k) = ((a \div 2 ^ n) \div 2 ^ k) % 2
      BY <2>1, <2>2, BitIs
    <2>4. (a \div 2 ^ n) \div 2 ^ k = a \div 2 ^ j
      <3>1. n + k = j
        BY <1>1, <2>1
      <3> QED BY <1>1, <2>1, <3>1, DivPowers
    <2>5. CASE j < WordBits
      <3>1. j \in BitPlaces
        BY <1>1, <2>1, <2>5 DEF BitPlaces
      <3>2. Bit(a, j) = (a \div 2 ^ j) % 2
        BY <1>1, <3>1, BitIs
      <3> QED BY <2>1, <2>3, <2>4, <2>5, <3>2
    <2>6. CASE ~(j < WordBits)
      <3>1. j \in Nat /\ j >= WordBits - 1
        BY <1>1, <2>1, <2>6
      <3>2. a \div 2 ^ j = IF a < 0 THEN -1 ELSE 0
        BY <3>1, BeyondWidth
      <3>3. (-1) % 2 = 1 /\ 0 % 2 = 0
        BY SignBits
      <3>4. Bit(RShift(a, n), k) = (IF a < 0 THEN -1 ELSE 0) % 2
        BY <2>3, <2>4, <3>2
      <3>5. Bit(RShift(a, n), k) = 1 <=> a < 0
        BY <3>3, <3>4
      <3> QED BY <2>1, <2>6, <3>5
    <2> QED BY <2>5, <2>6
  <1> QED BY <1>2, <1>3

\* An unsigned shift right moves the bits down.
LEMMA RShiftUMeans ==
  ASSUME NEW a \in Words, NEW n \in Words
  PROVE  Bits(RShiftU(a, n)) = {k - Unsigned(n) : k \in Bits(Unsigned(a))} \cap BitPlaces
  <1> DEFINE u == Unsigned(a)
             c == Unsigned(n)
  <1>1. a \in Int /\ n \in Int /\ u \in Nat /\ u \in Addrs /\ c \in Nat /\ WordBits \in Nat
    BY InWords, UnsignedType, WordBitsFacts
  <1>2. BitPlaces = 0 .. WordBits - 1
    BY DEF BitPlaces
  <1>3. CASE ShiftsOut(n)
    <2>1. RShiftU(a, n) = 0 /\ c >= WordBits
      BY <1>3 DEF RShiftU, ShiftsOut
    <2>2. ASSUME NEW k \in BitPlaces PROVE Bit(0, k) = 0
      <3> DEFINE x == 2 ^ k
      <3>1. x \in Nat \ {0}
        BY <1>1, <1>2, PowerFacts
      <3>2. Bit(0, k) = (0 \div x) % 2
        BY BitIs, 0 \in Int
      <3> HIDE DEF x
      <3>3. 0 = x * 0 + 0 /\ 0 < x
        BY <3>1
      <3>4. 0 \div x = 0
        BY <3>1, <3>3, DivModUnique, 0 \in Int
      <3> QED BY <3>2, <3>4
    <2>3. Bits(RShiftU(a, n)) = {}
      BY <2>1, <2>2 DEF Bits
    <2>4. \A k \in Bits(u) : k - c \notin BitPlaces
      BY <1>1, <1>2, <2>1 DEF Bits
    <2> HIDE DEF u, c
    <2> QED BY <2>3, <2>4 DEF u, c
  <1>4. CASE ~ShiftsOut(n)
    <2> DEFINE x == 2 ^ n
               v == u \div x
    <2>1. n \in Nat /\ c = n /\ RShiftU(a, n) = Wrap(v) /\ x \in Nat \ {0}
      BY <1>4, ShiftCount DEF RShiftU
    <2>2. v \in Int
      <3> HIDE DEF x, u
      <3> QED BY <1>1, <2>1, DivMod
    <2>3. ASSUME NEW k \in BitPlaces
          PROVE  Bit(RShiftU(a, n), k) = (u \div 2 ^ (k + n)) % 2
      <3>1. Bit(RShiftU(a, n), k) = (v \div 2 ^ k) % 2
        BY <2>1, <2>2, BitOfWrap, BitIs
      <3>2. k \in Nat /\ n + k = k + n
        BY <1>1, <1>2, <2>1
      <3>3. v \div 2 ^ k = u \div 2 ^ (n + k)
        <4>1. u \in Int
          BY <1>1
        <4> HIDE DEF u
        <4> QED BY <2>1, <3>2, <4>1, DivPowers
      <3> QED BY <3>1, <3>2, <3>3
    <2>4. ASSUME NEW k \in BitPlaces, k + n < WordBits
          PROVE  Bit(RShiftU(a, n), k) = Bit(u, k + n) /\ k + n \in BitPlaces
      <3>1. k + n \in BitPlaces
        BY <1>1, <1>2, <2>1, <2>4
      <3>2. Bit(u, k + n) = (u \div 2 ^ (k + n)) % 2
        BY <1>1, <3>1, BitIs
      <3> QED BY <2>3, <3>1, <3>2
    <2>5. ASSUME NEW k \in BitPlaces, ~(k + n < WordBits)
          PROVE  Bit(RShiftU(a, n), k) = 0
      <3> DEFINE y == 2 ^ (k + n)
                 z == Values(4)
                 j == k + n
      <3>1. j \in Nat /\ j - WordBits \in Nat /\ WordBits + (j - WordBits) = j /\ k + n = j
        BY <1>1, <1>2, <2>1, <2>5
      <3>2. y = z * 2 ^ (j - WordBits) /\ 2 ^ (j - WordBits) \in Nat /\ 2 ^ (j - WordBits) >= 1
        <4> DEFINE i == j - WordBits
        <4>1. i \in Nat /\ WordBits + i = j
          BY <3>1
        <4> HIDE DEF i, j
        <4>2. 2 ^ (WordBits + i) = 2 ^ WordBits * 2 ^ i
          BY <1>1, <4>1, PowerSum
        <4>3. 2 ^ i \in Nat /\ 2 ^ i >= 1
          BY <4>1, PowerPositive
        <4> QED BY <3>1, <4>1, <4>2, <4>3 DEF i, Values, WordBits
      <3>3. z \in Nat \ {0} /\ u < z
        BY <1>1, ValuesAreWords DEF Addrs
      <3> HIDE DEF y, z, u
      <3>4. y >= z /\ y \in Nat \ {0}
        BY <3>2, <3>3
      <3>5. u = y * 0 + u /\ 0 <= u /\ u < y
        BY <1>1, <3>3, <3>4
      <3>6. u \div y = 0
        BY <1>1, <3>4, <3>5, DivModUnique, 0 \in Int
      <3> QED BY <2>3, <3>6 DEF y
    <2> HIDE DEF u, c, x, v
    <2>6. ASSUME NEW k \in BitPlaces
          PROVE  k \in Bits(RShiftU(a, n)) <=> \E j \in Bits(u) : k = j - n
      <3>1. k \in Int /\ n \in Int
        BY <1>1, <1>2
      <3>2. ASSUME k \in Bits(RShiftU(a, n)) PROVE \E j \in Bits(u) : k = j - n
        <4>1. Bit(RShiftU(a, n), k) = 1
          BY <3>2 DEF Bits
        <4>2. k + n < WordBits
          BY <2>5, <4>1
        <4>3. k + n \in Bits(u)
          BY <2>4, <4>1, <4>2 DEF Bits
        <4>4. k = (k + n) - n
          BY <3>1
        <4> QED BY <4>3, <4>4
      <3>3. ASSUME NEW j \in Bits(u), k = j - n PROVE k \in Bits(RShiftU(a, n))
        <4>1. j \in BitPlaces /\ Bit(u, j) = 1
          BY DEF Bits
        <4>2. k + n = j /\ k + n < WordBits
          BY <1>1, <1>2, <3>1, <3>3, <4>1
        <4>3. Bit(RShiftU(a, n), k) = 1
          BY <2>4, <4>1, <4>2
        <4> QED BY <4>3 DEF Bits
      <3> QED BY <3>2, <3>3
    <2>7. Bits(RShiftU(a, n)) \subseteq BitPlaces
      BY DEF Bits
    <2>8. Bits(RShiftU(a, n)) = {k - n : k \in Bits(u)} \cap BitPlaces
      BY <2>6, <2>7
    <2> QED BY <2>1, <2>8 DEF u, c
  <1> QED BY <1>3, <1>4

\* A shift left moves the bits up, past the width out of the word.
LEMMA LShiftMeans ==
  ASSUME NEW a \in Words, NEW n \in Words
  PROVE  Bits(LShift(a, n)) = {k + Unsigned(n) : k \in Bits(Unsigned(a))} \cap BitPlaces
  <1> DEFINE c == Unsigned(n)
  <1>1. a \in Int /\ n \in Int /\ c \in Nat /\ WordBits \in Nat
    BY InWords, UnsignedType, WordBitsFacts
  <1>2. BitPlaces = 0 .. WordBits - 1
    BY DEF BitPlaces
  <1>3. Bits(Unsigned(a)) = Bits(a)
    BY <1>1, BitOfUnsigned DEF Bits
  <1>4. CASE ShiftsOut(n)
    <2>1. LShift(a, n) = 0 /\ c >= WordBits
      BY <1>4 DEF LShift, ShiftsOut
    <2>2. ASSUME NEW k \in BitPlaces PROVE Bit(0, k) = 0
      <3> DEFINE x == 2 ^ k
      <3>1. x \in Nat \ {0}
        BY <1>1, <1>2, PowerFacts
      <3>2. Bit(0, k) = (0 \div x) % 2
        BY BitIs, 0 \in Int
      <3> HIDE DEF x
      <3>3. 0 = x * 0 + 0 /\ 0 < x
        BY <3>1
      <3>4. 0 \div x = 0
        BY <3>1, <3>3, DivModUnique, 0 \in Int
      <3> QED BY <3>2, <3>4
    <2>3. Bits(LShift(a, n)) = {}
      BY <2>1, <2>2 DEF Bits
    <2>4. \A k \in Bits(a) : k + c \notin BitPlaces
      BY <1>1, <1>2, <2>1 DEF Bits
    <2> HIDE DEF c
    <2> QED BY <1>3, <2>3, <2>4 DEF c
  <1>5. CASE ~ShiftsOut(n)
    <2> DEFINE x == 2 ^ n
               v == a * x
    <2>1. n \in Nat /\ n < WordBits /\ c = n /\ LShift(a, n) = Wrap(v) /\ x \in Nat \ {0}
      BY <1>5, ShiftCount DEF LShift
    <2>2. v \in Int
      <3> HIDE DEF x
      <3> QED BY <1>1, <2>1
    <2>3. ASSUME NEW k \in BitPlaces
          PROVE  Bit(LShift(a, n), k) = (v \div 2 ^ k) % 2
      BY <2>1, <2>2, BitOfWrap, BitIs
    <2>4. ASSUME NEW k \in BitPlaces, k >= n
          PROVE  Bit(LShift(a, n), k) = Bit(a, k - n) /\ k - n \in BitPlaces
      <3> DEFINE j == k - n
                 y == 2 ^ j
      <3>1. j \in Nat /\ j \in BitPlaces /\ n + j = k
        BY <1>1, <1>2, <2>1, <2>4
      <3>2. v \div x = a
        <4> HIDE DEF x
        <4>1. v = x * a + 0 /\ 0 < x
          BY <1>1, <2>1
        <4> HIDE DEF v
        <4> QED BY <1>1, <2>1, <2>2, <4>1, DivModUnique, 0 \in Int
      <3>3. (v \div 2 ^ n) \div 2 ^ j = v \div 2 ^ (n + j)
        <4> HIDE DEF v, j
        <4> QED BY <2>1, <2>2, <3>1, DivPowers
      <3>4. v \div 2 ^ k = a \div 2 ^ j
        <4> HIDE DEF v, j
        <4> QED BY <3>1, <3>2, <3>3
      <3>5. Bit(a, j) = (a \div 2 ^ j) % 2
        <4> HIDE DEF j
        <4> QED BY <1>1, <3>1, BitIs
      <3> QED BY <2>3, <3>1, <3>4, <3>5
    <2>5. ASSUME NEW k \in BitPlaces, ~(k >= n)
          PROVE  Bit(LShift(a, n), k) = 0
      <3> DEFINE i == n - 1 - k
                 y == 2 ^ k
                 z == 2 ^ i
                 w == a * z
      <3>1. i \in Nat /\ k \in Nat /\ k + (i + 1) = n
        BY <1>1, <1>2, <2>1, <2>5
      <3>2. x = y * (2 * z) /\ y \in Nat \ {0} /\ z \in Nat
        <4> HIDE DEF i
        <4>1. i + 1 \in Nat /\ 2 ^ (i + 1) = 2 * z /\ z \in Nat
          BY <3>1, PowerNext, PowerPositive
        <4>2. 2 ^ (k + (i + 1)) = 2 ^ k * 2 ^ (i + 1)
          BY <3>1, <4>1, PowerSum
        <4>3. y \in Nat \ {0}
          BY <3>1, PowerFacts
        <4> HIDE DEF z
        <4> QED BY <3>1, <4>1, <4>2, <4>3
      <3> HIDE DEF x, y, z
      <3>3. w \in Int /\ 2 * w \in Int /\ v = y * (2 * w) + 0 /\ 0 < y
        BY <1>1, <3>2
      <3> HIDE DEF v, w
      <3> DEFINE d == 2 * w
      <3>4. d \in Int /\ v = y * d + 0 /\ d = 2 * w + 0 /\ 0 < 2
        BY <3>3
      <3> HIDE DEF d
      <3>5. v \div y = d
        BY <2>2, <3>2, <3>3, <3>4, DivModUnique, 0 \in Int
      <3>6. d % 2 = 0
        BY <3>3, <3>4, DivModUnique, 0 \in Int
      <3> QED BY <2>3, <3>5, <3>6 DEF y
    <2> HIDE DEF c, x, v
    <2>6. ASSUME NEW k \in BitPlaces
          PROVE  k \in Bits(LShift(a, n)) <=> \E j \in Bits(a) : k = j + n
      <3>1. k \in Int /\ n \in Int
        BY <1>1, <1>2
      <3>2. ASSUME k \in Bits(LShift(a, n)) PROVE \E j \in Bits(a) : k = j + n
        <4>1. Bit(LShift(a, n), k) = 1
          BY <3>2 DEF Bits
        <4>2. k >= n
          BY <2>5, <4>1
        <4>3. k - n \in Bits(a)
          BY <2>4, <4>1, <4>2 DEF Bits
        <4>4. k = (k - n) + n
          BY <3>1
        <4> QED BY <4>3, <4>4
      <3>3. ASSUME NEW j \in Bits(a), k = j + n PROVE k \in Bits(LShift(a, n))
        <4>1. j \in BitPlaces /\ Bit(a, j) = 1
          BY DEF Bits
        <4>2. k - n = j /\ k >= n
          BY <1>1, <1>2, <2>1, <3>1, <3>3, <4>1
        <4>3. Bit(LShift(a, n), k) = 1
          BY <2>4, <4>1, <4>2
        <4> QED BY <4>3 DEF Bits
      <3> QED BY <3>2, <3>3
    <2>7. Bits(LShift(a, n)) \subseteq BitPlaces
      BY DEF Bits
    <2>8. Bits(LShift(a, n)) = {k + n : k \in Bits(a)} \cap BitPlaces
      BY <2>6, <2>7
    <2> QED BY <1>3, <2>1, <2>8 DEF c
  <1> QED BY <1>4, <1>5

\* Euclid's division of unsigned words.
LEMMA UnsignedDivisionMeans ==
  ASSUME NEW a \in Nat, NEW b \in Nat, a < Values(4), b < Values(4), b # 0
  PROVE  /\ a - b * Unsigned(Wrap(a \div b)) \in 0 .. b - 1
         /\ Unsigned(Wrap(a % b)) < b /\ (a - Unsigned(Wrap(a % b))) % b = 0
  <1> DEFINE q == a \div b
             r == a % b
             n == Values(4)
             p == b * q
  <1>1. q \in Nat /\ q <= a /\ r \in Int /\ a = b * q + r /\ 0 <= r /\ r < b /\ n \in Nat
    BY DivMod, DivNat, ValuesAreWords
  <1> HIDE DEF q, r, n
  <1>2. Unsigned(Wrap(q)) = q /\ Unsigned(Wrap(r)) = r
    <2>1. q < n /\ r < n /\ r \in Nat
      BY <1>1 DEF n
    <2> QED BY <1>1, <2>1, UnsignedOfSmall DEF n
  <1>3. a - b * q = r
    BY <1>1
  <1>4. p \in Int /\ p = b * q + 0 /\ 0 < b /\ a - r = p
    BY <1>1
  <1>5. p % b = 0
    <2>1. b \in Nat \ {0} /\ q \in Int
      BY <1>1
    <2>2. p \in Int /\ p = b * q + 0 /\ 0 < b /\ 0 <= 0
      BY <1>4
    <2> HIDE DEF p
    <2>3. p \div b = q /\ p % b = 0
      BY <2>1, <2>2, DivModUnique, 0 \in Int
    <2> QED BY <2>3
  <1> QED BY <1>1, <1>2, <1>3, <1>4, <1>5 DEF q, r

\* The two words of a long product.
LEMMA LongProductMeans ==
  ASSUME NEW a \in Int, NEW b \in Int
  PROVE  /\ LongProduct(a, b) = <<Wrap(a * b), (a * b) \div Values(4)>>
         /\ (a * b) \div Values(4) \in Int
         /\ ((a * b) \div Values(4)) * Values(4) + Unsigned(Wrap(a * b)) = a * b
  <1> DEFINE v == a * b
             n == Values(4)
             q == v \div n
             r == v % n
  <1>1. v \in Int /\ n \in Nat \ {0}
    BY ValuesAreWords
  <1>2. Unsigned(Wrap(v)) = r
    BY <1>1, UnsignedOfWrap DEF Unsigned
  <1> HIDE DEF v, n
  <1>3. q \in Int /\ r \in Int /\ v = n * q + r
    BY <1>1, DivMod
  <1> HIDE DEF q, r
  <1>4. q * n + r = v
    BY <1>1, <1>3
  <1> QED BY <1>2, <1>3, <1>4 DEF q, r, v, n, LongProduct

LEMMA LongProductSmall ==
  ASSUME NEW a \in Nat, NEW b \in Nat, a < Values(4), b < Values(4)
  PROVE  Unsigned(Wrap((a * b) \div Values(4))) = (a * b) \div Values(4)
  <1> DEFINE v == a * b
             n == Values(4)
             q == v \div n
             r == v % n
  <1>1. v \in Nat /\ n \in Nat \ {0}
    BY ValuesAreWords
  <1>2. v <= n * (n - 1)
    <2> HIDE DEF n
    <2>1. a <= n - 1 /\ b <= n - 1 /\ n - 1 \in Nat
      BY <1>1 DEF n
    <2>2. a * b <= (n - 1) * b /\ (n - 1) * b <= (n - 1) * n
      BY <1>1, <2>1
    <2>3. (n - 1) * n = n * (n - 1) /\ (n - 1) * n \in Int /\ (n - 1) * b \in Int
      BY <1>1
    <2> QED BY <1>1, <2>2, <2>3
  <1> HIDE DEF v, n
  <1>3. q \in Nat /\ r \in Int /\ v = n * q + r /\ 0 <= r
    BY <1>1, DivMod, DivNat
  <1> HIDE DEF q, r
  <1>4. q < n
    <2> SUFFICES ASSUME q >= n PROVE FALSE
      BY <1>1, <1>3
    <2>1. n * q >= n * n
      BY <1>1, <1>3
    <2>2. n * (n - 1) = n * n - n /\ n * n \in Int /\ n * q \in Int
      BY <1>1, <1>3
    <2> QED BY <1>1, <1>2, <1>3, <2>1, <2>2
  <1> QED BY <1>3, <1>4, UnsignedOfSmall DEF q, v, n

\* A signed division by its quotient, a remainder by what it leaves.
LEMMA RemainderMeans ==
  ASSUME NEW a \in Int, NEW b \in Int, b # 0
  PROVE  (a - TruncRem(a, b)) % Magnitude(b) = 0
  <1> DEFINE q == TruncDiv(a, b)
             r == TruncRem(a, b)
             n == Magnitude(b)
             p == IF b < 0 THEN -q ELSE q
             w == a - r
  <1>1. q \in Int /\ r \in Int /\ a = b * q + r
    BY TruncDivMeans
  <1>2. n \in Nat \ {0} /\ (b >= 0 => n = b) /\ (b < 0 => n = -b)
    BY MagnitudeFacts
  <1> HIDE DEF q, r, n
  <1>3. p \in Int /\ w \in Int /\ w = n * p + 0 /\ 0 < n
    <2>1. w = b * q
      BY <1>1
    <2>2. CASE b < 0
      <3>1. n * p = b * q
        BY <1>1, <1>2, <2>2
      <3> QED BY <1>1, <1>2, <2>1, <3>1
    <2>3. CASE ~(b < 0)
      <3>1. n * p = b * q
        BY <1>1, <1>2, <2>3
      <3> QED BY <1>1, <1>2, <2>1, <3>1
    <2> QED BY <2>2, <2>3
  <1> HIDE DEF p, w
  <1>4. w % n = 0
    BY <1>2, <1>3, DivModUnique, 0 \in Int
  <1> QED BY <1>4 DEF w, n, r

-----------------------------------------------------------------------------
(* The inductive invariant: an expression as it was written, the           *)
(* instruction the code makes of it, and what the VM makes of that.        *)

Compared(e) ==
  \E f \in CompareForms, k \in CmpKinds, a, b \in Vals, i \in BOOLEAN :
    e = [form |-> f, kind |-> k, a |-> a, b |-> b, int_first |-> i]
Moved(e) ==
  \E c \in Classes, a, b \in Vals :
    e = [form |-> "mov", kind |-> c, a |-> a, b |-> b, x |-> 1, y |-> 2]
Binary(e) ==
  \E k \in BinOps, a, b \in Vals : e = [form |-> "binary", kind |-> k, a |-> a, b |-> b]
Unary(e) ==
  \E k \in {"neg", "abs", "~"}, a \in Vals : e = [form |-> "unary", kind |-> k, a |-> a]
Named(e) ==
  \E k \in NamedOps, a, b \in Vals : e = [form |-> "named", kind |-> k, a |-> a, b |-> b]
Written(e) == Compared(e) \/ Moved(e) \/ Binary(e) \/ Unary(e) \/ Named(e)

\* i is what Assemble* make of e.
Assembled(e, i) ==
  LET c == Comparison(e) IN
  /\ e.form = "assign" => i = Tst(IfClass[c.kind], c.a, c.b)
  /\ e.form = "if"     => i = Br(IfClass[c.kind], c.a, c.b)
  /\ e.form = "else"   => i = Br(ElseClass[c.kind], c.a, c.b)
  /\ e.form = "mov"    => i = Mov(e.kind, e.a, e.b, e.x, e.y)
  /\ e.form = "binary" => i = Inst(BinaryOp(e.kind), <<e.a, e.b>>)
  /\ e.form = "unary"  => i = Inst(UnaryOp(e.kind), <<e.a>>)
  /\ e.form = "named"  => i = Inst(e.kind, <<e.a, e.b>>)

DerivedInv ==
  /\ expr = None \/ Written(expr)
  /\ inst # None => expr # None /\ Assembled(expr, inst)
  /\ out # None => inst # None /\ out = OutOf(inst)

LEMMA Invariant == Spec => []DerivedInv
  <1>1. Init => DerivedInv
    BY DEF Init, DerivedInv
  <1>2. DerivedInv /\ [Next]_vars => DerivedInv'
    <2> SUFFICES ASSUME DerivedInv, [Next]_vars PROVE DerivedInv'
      OBVIOUS
    <2> USE DEF DerivedInv
    <2>1. CASE WriteComparison
      <3>1. Compared(expr') /\ inst = None /\ out = None /\ inst' = inst /\ out' = out
        BY <2>1 DEF WriteComparison, Compared
      <3> QED BY <3>1 DEF Written
    <2>2. CASE WriteMove
      <3>1. Moved(expr') /\ inst = None /\ out = None /\ inst' = inst /\ out' = out
        BY <2>2 DEF WriteMove, Moved
      <3> QED BY <3>1 DEF Written
    <2>3. CASE WriteOperator
      <3>1. /\ Binary(expr') \/ Unary(expr')
            /\ inst = None /\ out = None /\ inst' = inst /\ out' = out
        BY <2>3 DEF WriteOperator, Binary, Unary
      <3> QED BY <3>1 DEF Written
    <2>4. CASE WriteInstruction
      <3>1. Named(expr') /\ inst = None /\ out = None /\ inst' = inst /\ out' = out
        BY <2>4 DEF WriteInstruction, Named
      <3> QED BY <3>1 DEF Written
    <2>5. CASE AssembleComparison
      <3>1. expr # None /\ expr' = expr /\ out' = out /\ out = None
        BY <2>5 DEF AssembleComparison, Assembling
      <3> DEFINE c == Comparison(expr)
      <3>2. /\ expr.form = "assign" => inst' = Tst(IfClass[c.kind], c.a, c.b)
            /\ expr.form = "if" => inst' = Br(IfClass[c.kind], c.a, c.b)
            /\ expr.form = "else" => inst' = Br(ElseClass[c.kind], c.a, c.b)
            /\ expr.form \in CompareForms
        BY <2>5 DEF AssembleComparison
      <3>3. Assembled(expr, inst')
        BY <3>2 DEF Assembled, CompareForms
      <3> QED BY <3>1, <3>3
    <2>6. CASE AssembleMove
      <3>1. expr # None /\ expr' = expr /\ out' = out /\ out = None
        BY <2>6 DEF AssembleMove, Assembling
      <3>2. expr.form = "mov" /\ inst' = Mov(expr.kind, expr.a, expr.b, expr.x, expr.y)
        BY <2>6 DEF AssembleMove
      <3>3. Assembled(expr, inst')
        BY <3>2 DEF Assembled
      <3> QED BY <3>1, <3>3
    <2>7. CASE AssembleOperator
      <3>1. expr # None /\ expr' = expr /\ out' = out /\ out = None
        BY <2>7 DEF AssembleOperator, Assembling
      <3>2. /\ expr.form = "binary" => inst' = Inst(BinaryOp(expr.kind), <<expr.a, expr.b>>)
            /\ expr.form = "unary" => inst' = Inst(UnaryOp(expr.kind), <<expr.a>>)
            /\ expr.form = "named" => inst' = Inst(expr.kind, <<expr.a, expr.b>>)
            /\ expr.form \in {"binary", "unary", "named"}
        BY <2>7 DEF AssembleOperator
      <3>3. Assembled(expr, inst')
        BY <3>2 DEF Assembled
      <3> QED BY <3>1, <3>3
    <2>8. CASE Run
      <3>1. inst # None /\ inst' = inst /\ expr' = expr /\ out' = OutOf(inst)
        BY <2>8 DEF Run, OutOf
      <3> QED BY <3>1
    <2>9. CASE Ran \/ UNCHANGED vars
      BY <2>9 DEF Ran, vars
    <2> QED BY <2>1, <2>2, <2>3, <2>4, <2>5, <2>6, <2>7, <2>8, <2>9 DEF Next
  <1> QED BY <1>1, <1>2, PTL DEF Spec

-----------------------------------------------------------------------------
(* The properties.                                                         *)

LEMMA ComparisonsDecided ==
  ASSUME NEW e, Compared(e), NEW i, Assembled(e, i)
  PROVE  OutOf(i).v = Truth(Relation(e.kind, e.a, e.b) = (e.form # "else"))
  <1>1. PICK f \in CompareForms, k \in CmpKinds, a \in Vals, b \in Vals, m \in BOOLEAN :
          e = [form |-> f, kind |-> k, a |-> a, b |-> b, int_first |-> m]
    BY DEF Compared
  <1>2. e.form = f /\ e.kind = k /\ e.a = a /\ e.b = b /\ e.int_first = m
    BY <1>1
  <1>3. a \in Int /\ b \in Int
    BY ValsAssumption, InWords
  <1> DEFINE c == Comparison(e)
  <1>4. /\ c.kind \in CmpKinds /\ c.a \in Int /\ c.b \in Int
        /\ Relation(c.kind, c.a, c.b) <=> Relation(k, a, b)
    BY <1>2, <1>3, MirroredMeans
  <1>5. /\ f = "assign" => i = Tst(IfClass[c.kind], c.a, c.b)
        /\ f = "if" => i = Br(IfClass[c.kind], c.a, c.b)
        /\ f = "else" => i = Br(ElseClass[c.kind], c.a, c.b)
    BY <1>2 DEF Assembled
  <1> HIDE DEF c
  <1>6. /\ IfClass[c.kind] \in Signed
        /\ Relation(IfClass[c.kind], c.a, c.b) <=> Relation(c.kind, c.a, c.b)
        /\ ElseClass[c.kind] \in Signed
        /\ Relation(ElseClass[c.kind], c.a, c.b) <=> ~Relation(c.kind, c.a, c.b)
    BY <1>4, ClassesMean
  <1>7. /\ OutOf(Tst(IfClass[c.kind], c.a, c.b)).v = Truth(Relation(IfClass[c.kind], c.a, c.b))
        /\ OutOf(Br(IfClass[c.kind], c.a, c.b)).v = Truth(Relation(IfClass[c.kind], c.a, c.b))
        /\ OutOf(Br(ElseClass[c.kind], c.a, c.b)).v
             = Truth(Relation(ElseClass[c.kind], c.a, c.b))
    BY <1>4, <1>6, ClassesDecide
  <1>8. OutOf(i).v = IF f = "else" THEN Truth(Relation(ElseClass[c.kind], c.a, c.b))
                     ELSE Truth(Relation(IfClass[c.kind], c.a, c.b))
    BY <1>5, <1>7 DEF CompareForms
  <1> DEFINE R == Relation(k, a, b)
  <1>9. OutOf(i).v = IF f = "else" THEN Truth(~R) ELSE Truth(R)
    BY <1>4, <1>6, <1>8 DEF Truth
  <1>10. Relation(k, a, b) \in BOOLEAN
    <2>1. CASE k = "=="
      BY <2>1 DEF Relation
    <2>2. CASE k = "!="
      BY <2>2 DEF Relation
    <2>3. CASE k = "<"
      BY <2>3 DEF Relation
    <2>4. CASE k = "<="
      BY <2>4 DEF Relation
    <2>5. CASE k = ">"
      BY <2>5 DEF Relation
    <2>6. CASE k = ">="
      BY <2>6 DEF Relation
    <2> QED BY <2>1, <2>2, <2>3, <2>4, <2>5, <2>6 DEF CmpKinds
  <1>11. OutOf(i).v = Truth(R = (f # "else"))
    BY <1>9, <1>10 DEF Truth
  <1> QED BY <1>2, <1>11

LEMMA MovesChosen ==
  ASSUME NEW e, Moved(e), NEW i, Assembled(e, i)
  PROVE  OutOf(i).v = IF Relation(e.kind, e.a, e.b) THEN e.x ELSE e.y
  <1>1. PICK c \in Classes, a \in Vals, b \in Vals :
          e = [form |-> "mov", kind |-> c, a |-> a, b |-> b, x |-> 1, y |-> 2]
    BY DEF Moved
  <1>2. e.kind = c /\ e.a = a /\ e.b = b /\ e.form = "mov"
    BY <1>1
  <1>3. a \in Int /\ b \in Int
    BY ValsAssumption, InWords
  <1>4. i = Mov(e.kind, e.a, e.b, e.x, e.y)
    BY <1>2 DEF Assembled
  <1> QED BY <1>2, <1>3, <1>4, MovesDecide

\* The instruction of an operator and its sources.
LEMMA BinaryIs ==
  ASSUME NEW e, Binary(e), NEW i, Assembled(e, i)
  PROVE  /\ e.form = "binary" /\ e.kind \in BinOps /\ e.a \in Words /\ e.b \in Words
         /\ \E s : s[1] = e.a /\ s[2] = e.b /\ i = Inst(BinaryOp(e.kind), s)
  <1>1. e.form = "binary" /\ e.kind \in BinOps /\ e.a \in Vals /\ e.b \in Vals
    BY DEF Binary
  <1>2. i = Inst(BinaryOp(e.kind), <<e.a, e.b>>)
    BY <1>1 DEF Assembled
  <1> DEFINE s == <<e.a, e.b>>
  <1>3. s[1] = e.a /\ s[2] = e.b /\ i = Inst(BinaryOp(e.kind), s)
    BY <1>2
  <1> HIDE DEF s
  <1>4. \E t : t[1] = e.a /\ t[2] = e.b /\ i = Inst(BinaryOp(e.kind), t)
    BY <1>3
  <1> QED BY <1>1, <1>4, ValsAssumption

LEMMA UnaryIs ==
  ASSUME NEW e, Unary(e), NEW i, Assembled(e, i)
  PROVE  /\ e.form = "unary" /\ e.kind \in {"neg", "abs", "~"} /\ e.a \in Words
         /\ \E s : s[1] = e.a /\ i = Inst(UnaryOp(e.kind), s)
  <1>1. e.form = "unary" /\ e.kind \in {"neg", "abs", "~"} /\ e.a \in Vals
    BY DEF Unary
  <1>2. i = Inst(UnaryOp(e.kind), <<e.a>>)
    BY <1>1 DEF Assembled
  <1> DEFINE s == <<e.a>>
  <1>3. s[1] = e.a /\ i = Inst(UnaryOp(e.kind), s)
    BY <1>2
  <1> HIDE DEF s
  <1>4. \E t : t[1] = e.a /\ i = Inst(UnaryOp(e.kind), t)
    BY <1>3
  <1> QED BY <1>1, <1>4, ValsAssumption

LEMMA NamedIs ==
  ASSUME NEW e, Named(e), NEW i, Assembled(e, i)
  PROVE  /\ e.form = "named" /\ e.kind \in NamedOps /\ e.a \in Words /\ e.b \in Words
         /\ \E s : s[1] = e.a /\ s[2] = e.b /\ i = Inst(e.kind, s)
  <1>1. e.form = "named" /\ e.kind \in NamedOps /\ e.a \in Vals /\ e.b \in Vals
    BY DEF Named
  <1>2. i = Inst(e.kind, <<e.a, e.b>>)
    BY <1>1 DEF Assembled
  <1> DEFINE s == <<e.a, e.b>>
  <1>3. s[1] = e.a /\ s[2] = e.b /\ i = Inst(e.kind, s)
    BY <1>2
  <1> HIDE DEF s
  <1>4. \E t : t[1] = e.a /\ t[2] = e.b /\ i = Inst(e.kind, t)
    BY <1>3
  <1> QED BY <1>1, <1>4, ValsAssumption

\* The operations of Result that the expressions use.
LEMMA ResultIs ==
  ASSUME NEW s
  PROVE  /\ Result("ADD", s) = Wrap(s[1] + s[2]) /\ Result("SUB", s) = Wrap(s[1] - s[2])
         /\ Result("MUL", s) = Wrap(s[1] * s[2]) /\ Result("NEG", s) = Wrap(-s[1])
         /\ Result("ABS", s) = Wrap(Magnitude(s[1])) /\ Result("INV", s) = -s[1] - 1
         /\ Result("DIV", s) = TruncDiv(s[1], s[2]) /\ Result("REM", s) = TruncRem(s[1], s[2])
         /\ Result("DIV_U", s) = Wrap(Unsigned(s[1]) \div Unsigned(s[2]))
         /\ Result("REM_U", s) = Wrap(Unsigned(s[1]) % Unsigned(s[2]))
         /\ Result("L_SHIFT", s) = LShift(s[1], s[2])
         /\ Result("R_SHIFT", s) = RShift(s[1], s[2])
         /\ Result("R_SHIFT_U", s) = RShiftU(s[1], s[2])
  BY DEF Result, TestOps, MoveIfOps, StoreOps

\* The operations of the operators that cannot fail leave their one result.
LEMMA OperationsCompute ==
  ASSUME NEW op \in {"ADD", "SUB", "MUL", "BIT_AND", "BIT_OR", "BIT_XOR", "R_SHIFT",
                     "NEG", "ABS", "INV", "L_SHIFT", "R_SHIFT_U"},
         NEW s
  PROVE  OutOf(Inst(op, s)).v = Result(op, s)
  <1>1. op \notin VarSrcOps \cup DivOps \cup LongOps \cup BranchIfOps
    BY DEF VarSrcOps, DivOps, LongOps, BranchIfOps
  <1> QED BY <1>1, OutOfOne

LEMMA DivisionsTruncate ==
  ASSUME NEW e, Binary(e), NEW i, Assembled(e, i), e.kind \in {"/", "//", "%"},
         NEW a, NEW b, a = e.a, b = e.b, NEW v, v = OutOf(i).v
  PROVE  IF b = 0 THEN v = "ZERO_DIVISION"
         ELSE IF e.kind = "%"
         THEN /\ (a - v) % Magnitude(b) = 0 /\ Magnitude(v) < Magnitude(b)
              /\ v = 0 \/ (v < 0 <=> a < 0)
         ELSE IF b = -1 /\ a = IntMin THEN v = "INTEGER_OVERFLOW"
         ELSE LET r == a - b * v
              IN  Magnitude(r) < Magnitude(b) /\ (r = 0 \/ (r < 0 <=> a < 0))
  <1>1. PICK s : s[1] = a /\ s[2] = b /\ i = Inst(BinaryOp(e.kind), s)
    BY BinaryIs
  <1>2. a \in Int /\ b \in Int
    BY BinaryIs, InWords
  <1>3. "DIV" \in DivOps /\ "REM" \in DivOps
    BY DEF DivOps
  <1>4. CASE e.kind = "%"
    <2>1. BinaryOp(e.kind) = "REM"
      BY <1>4 DEF BinaryOp
    <2>2. v = IF b = 0 THEN "ZERO_DIVISION" ELSE Result("REM", s)
      BY <1>1, <1>3, <2>1, OutOfDivision
    <2>3. b # 0 => v = TruncRem(a, b)
      BY <1>1, <2>2, ResultIs
    <2>4. b # 0 => /\ (a - TruncRem(a, b)) % Magnitude(b) = 0
                   /\ Magnitude(TruncRem(a, b)) < Magnitude(b)
                   /\ TruncRem(a, b) = 0 \/ (TruncRem(a, b) < 0 <=> a < 0)
      BY <1>2, RemainderMeans, TruncDivMeans
    <2> QED BY <1>4, <2>2, <2>3, <2>4
  <1>5. CASE e.kind # "%"
    <2>1. BinaryOp(e.kind) = "DIV"
      BY <1>5 DEF BinaryOp
    <2>2. v = IF b = 0 THEN "ZERO_DIVISION"
              ELSE IF a = IntMin /\ b = -1 THEN "INTEGER_OVERFLOW" ELSE Result("DIV", s)
      BY <1>1, <1>3, <2>1, OutOfDivision
    <2>3. Result("DIV", s) = TruncDiv(a, b)
      BY <1>1, ResultIs
    <2>4. b # 0 => LET r == a - b * TruncDiv(a, b)
                   IN  Magnitude(r) < Magnitude(b) /\ (r = 0 \/ (r < 0 <=> a < 0))
      BY <1>2, TruncDivMeans DEF TruncRem
    <2> QED BY <1>5, <2>2, <2>3, <2>4
  <1> QED BY <1>4, <1>5

\* Wrap's remainder, for the operators that are Python's reduced to a word.
LEMMA OperatorsCompute ==
  ASSUME NEW e, Binary(e), NEW i, Assembled(e, i),
         NEW a, NEW b, a = e.a, b = e.b, NEW v, v = OutOf(i).v
  PROVE  /\ e.kind = "+" => v = Wrap(a + b)
         /\ e.kind = "-" => v = Wrap(a - b)
         /\ e.kind = "*" => (v - a * b) % Values(4) = 0
         /\ e.kind = "&" => Bits(v) = Bits(a) \cap Bits(b)
         /\ e.kind = "|" => Bits(v) = Bits(a) \cup Bits(b)
         /\ e.kind = "^" => Bits(v) = (Bits(a) \cup Bits(b)) \ (Bits(a) \cap Bits(b))
         /\ e.kind = ">>" => \A k \in BitPlaces :
                               k \in Bits(v) <=>
                                 IF k + Unsigned(b) < WordBits
                                 THEN k + Unsigned(b) \in Bits(a) ELSE a < 0
  <1>1. PICK s : s[1] = a /\ s[2] = b /\ i = Inst(BinaryOp(e.kind), s)
    BY BinaryIs
  <1>2. a \in Words /\ b \in Words /\ a \in Int /\ b \in Int
    BY BinaryIs, InWords
  <1>3. ASSUME e.kind = "+" PROVE v = Wrap(a + b)
    <2>1. BinaryOp(e.kind) = "ADD"
      BY <1>3 DEF BinaryOp
    <2>2. v = Result("ADD", s)
      BY <1>1, <2>1, OperationsCompute
    <2> QED BY <1>1, <2>2, ResultIs
  <1>4. ASSUME e.kind = "-" PROVE v = Wrap(a - b)
    <2>1. BinaryOp(e.kind) = "SUB"
      BY <1>4 DEF BinaryOp
    <2>2. v = Result("SUB", s)
      BY <1>1, <2>1, OperationsCompute
    <2> QED BY <1>1, <2>2, ResultIs
  <1>5. ASSUME e.kind = "*" PROVE (v - a * b) % Values(4) = 0
    <2>1. BinaryOp(e.kind) = "MUL"
      BY <1>5 DEF BinaryOp
    <2>2. v = Wrap(a * b) /\ a * b \in Int
      <3>1. v = Result("MUL", s)
        BY <1>1, <1>2, <2>1, OperationsCompute
      <3> QED BY <1>1, <1>2, <3>1, ResultIs
    <2> QED BY <2>2, WrapMeans
  <1>6. ASSUME e.kind = "&" PROVE Bits(v) = Bits(a) \cap Bits(b)
    <2>1. BinaryOp(e.kind) = "BIT_AND"
      BY <1>6 DEF BinaryOp
    <2>2. v = Result("BIT_AND", s)
      BY <1>1, <2>1, OperationsCompute
    <2> QED BY <1>1, <1>2, <2>2, BitwiseMeans
  <1>7. ASSUME e.kind = "|" PROVE Bits(v) = Bits(a) \cup Bits(b)
    <2>1. BinaryOp(e.kind) = "BIT_OR"
      BY <1>7 DEF BinaryOp
    <2>2. v = Result("BIT_OR", s)
      BY <1>1, <2>1, OperationsCompute
    <2> QED BY <1>1, <1>2, <2>2, BitwiseMeans
  <1>8. ASSUME e.kind = "^"
        PROVE  Bits(v) = (Bits(a) \cup Bits(b)) \ (Bits(a) \cap Bits(b))
    <2>1. BinaryOp(e.kind) = "BIT_XOR"
      BY <1>8 DEF BinaryOp
    <2>2. v = Result("BIT_XOR", s)
      BY <1>1, <2>1, OperationsCompute
    <2> QED BY <1>1, <1>2, <2>2, BitwiseMeans
  <1>9. ASSUME e.kind = ">>", NEW k \in BitPlaces
        PROVE  k \in Bits(v) <=>
                 IF k + Unsigned(b) < WordBits THEN k + Unsigned(b) \in Bits(a) ELSE a < 0
    <2>1. BinaryOp(e.kind) = "R_SHIFT"
      BY <1>9 DEF BinaryOp
    <2>2. v = RShift(a, b)
      <3>1. v = Result("R_SHIFT", s)
        BY <1>1, <2>1, OperationsCompute
      <3> QED BY <1>1, <3>1, ResultIs
    <2>3. Bit(RShift(a, b), k) = 1 <=>
            IF k + Unsigned(b) < WordBits THEN Bit(a, k + Unsigned(b)) = 1 ELSE a < 0
      BY <1>2, RShiftMeans
    <2>4. k + Unsigned(b) < WordBits => k + Unsigned(b) \in BitPlaces
      BY <1>2, UnsignedType, WordBitsFacts DEF BitPlaces
    <2> QED BY <2>2, <2>3, <2>4 DEF Bits
  <1> QED BY <1>3, <1>4, <1>5, <1>6, <1>7, <1>8, <1>9

LEMMA UnaryOperatorsCompute ==
  ASSUME NEW e, Unary(e), NEW i, Assembled(e, i), NEW a, a = e.a, NEW v, v = OutOf(i).v
  PROVE  /\ e.kind = "~" => Bits(v) = BitPlaces \ Bits(a)
         /\ e.kind = "neg" => (v + a) % Values(4) = 0
         /\ e.kind = "abs" => (v - Magnitude(a)) % Values(4) = 0
  <1>1. PICK s : s[1] = a /\ i = Inst(UnaryOp(e.kind), s)
    BY UnaryIs
  <1>2. a \in Words /\ a \in Int
    BY UnaryIs, InWords
  <1>3. ASSUME e.kind = "~" PROVE Bits(v) = BitPlaces \ Bits(a)
    <2>1. UnaryOp(e.kind) = "INV"
      BY <1>3 DEF UnaryOp
    <2>2. v = -a - 1
      <3>1. v = Result("INV", s)
        BY <1>1, <2>1, OperationsCompute
      <3> QED BY <1>1, <3>1, ResultIs
    <2> QED BY <1>2, <2>2, ComplementMeans
  <1>4. ASSUME e.kind = "neg" PROVE (v + a) % Values(4) = 0
    <2>1. UnaryOp(e.kind) = "NEG"
      BY <1>4 DEF UnaryOp
    <2> DEFINE m == -a
    <2>2. v = Wrap(m) /\ m \in Int
      <3>1. v = Result("NEG", s)
        BY <1>1, <1>2, <2>1, OperationsCompute
      <3> QED BY <1>1, <1>2, <3>1, ResultIs
    <2>3. (v - m) % Values(4) = 0 /\ v \in Int
      <3> HIDE DEF m
      <3> QED BY <2>2, WrapMeans
    <2>4. v - m = v + a
      BY <1>2, <2>3
    <2> QED BY <2>3, <2>4
  <1>5. ASSUME e.kind = "abs" PROVE (v - Magnitude(a)) % Values(4) = 0
    <2>1. UnaryOp(e.kind) = "ABS"
      BY <1>5 DEF UnaryOp
    <2>2. v = Wrap(Magnitude(a)) /\ Magnitude(a) \in Int
      <3>1. v = Result("ABS", s)
        BY <1>1, <1>2, <2>1, OperationsCompute
      <3> QED BY <1>1, <1>2, <3>1, ResultIs, MagnitudeFacts
    <2> QED BY <2>2, WrapMeans
  <1> QED BY <1>3, <1>4, <1>5

\* What an instruction used by its name makes of the unsigned values a and b.
Computes(e, a, b, v, high) ==
  /\ e.kind = "L_SHIFT" => Bits(v) = {k + b : k \in Bits(a)} \cap BitPlaces
  /\ e.kind = "R_SHIFT_U" => Bits(v) = {k - b : k \in Bits(a)} \cap BitPlaces
  /\ e.kind \in {"DIV_U", "REM_U"} /\ b = 0 => v = "ZERO_DIVISION"
  /\ e.kind = "DIV_U" /\ b # 0 => a - b * Unsigned(v) \in 0 .. b - 1
  /\ e.kind = "REM_U" /\ b # 0 =>
       Unsigned(v) < b /\ (a - Unsigned(v)) % b = 0
  /\ e.kind = "LONG_MUL" => high * Values(4) + Unsigned(v) = e.a * e.b
  /\ e.kind = "LONG_MUL_U" => Unsigned(high) * Values(4) + Unsigned(v) = a * b

LEMMA InstructionsCompute ==
  ASSUME NEW e, Named(e), NEW i, Assembled(e, i),
         NEW a, NEW b, a = Unsigned(e.a), b = Unsigned(e.b),
         NEW v, v = OutOf(i).v, NEW high, high = OutOf(i).high
  PROVE  Computes(e, a, b, v, high)
  <1>1. PICK s : s[1] = e.a /\ s[2] = e.b /\ i = Inst(e.kind, s)
    BY NamedIs
  <1>2. e.a \in Words /\ e.b \in Words /\ e.a \in Int /\ e.b \in Int
    BY NamedIs, InWords
  <1>3. a \in Nat /\ b \in Nat /\ a < Values(4) /\ b < Values(4) /\ (b = 0 <=> e.b = 0)
    <2>1. a \in Addrs /\ b \in Addrs /\ a \in Nat /\ b \in Nat /\ (b = 0 <=> e.b = 0)
      BY <1>2, UnsignedType, UnsignedOfWord
    <2> QED BY <2>1, ValuesAreWords DEF Addrs
  <1>4. ASSUME e.kind = "L_SHIFT" PROVE Bits(v) = {k + b : k \in Bits(a)} \cap BitPlaces
    <2>1. v = LShift(e.a, e.b)
      <3>1. v = Result("L_SHIFT", s)
        BY <1>1, <1>4, OperationsCompute
      <3> QED BY <1>1, <3>1, ResultIs
    <2> QED BY <1>2, <2>1, LShiftMeans
  <1>5. ASSUME e.kind = "R_SHIFT_U"
        PROVE  Bits(v) = {k - b : k \in Bits(a)} \cap BitPlaces
    <2>1. v = RShiftU(e.a, e.b)
      <3>1. v = Result("R_SHIFT_U", s)
        BY <1>1, <1>5, OperationsCompute
      <3> QED BY <1>1, <3>1, ResultIs
    <2> QED BY <1>2, <2>1, RShiftUMeans
  <1>6. ASSUME e.kind \in {"DIV_U", "REM_U"}
        PROVE  v = IF b = 0 THEN "ZERO_DIVISION" ELSE Result(e.kind, s)
    <2>1. e.kind \in DivOps /\ e.kind # "DIV"
      BY <1>6 DEF DivOps
    <2> QED BY <1>1, <1>3, <2>1, OutOfDivision
  <1>7. ASSUME e.kind = "DIV_U", b # 0 PROVE a - b * Unsigned(v) \in 0 .. b - 1
    <2>1. v = Wrap(a \div b)
      BY <1>1, <1>6, <1>7, ResultIs
    <2> QED BY <1>3, <1>7, <2>1, UnsignedDivisionMeans
  <1>8. ASSUME e.kind = "REM_U", b # 0 PROVE Unsigned(v) < b /\ (a - Unsigned(v)) % b = 0
    <2>1. v = Wrap(a % b)
      BY <1>1, <1>6, <1>8, ResultIs
    <2> QED BY <1>3, <1>8, <2>1, UnsignedDivisionMeans
  <1>9. ASSUME e.kind = "LONG_MUL" PROVE high * Values(4) + Unsigned(v) = e.a * e.b
    <2> DEFINE p == e.a * e.b
    <2>1. Results(e.kind, s) = <<Wrap(p), p \div Values(4)>>
      BY <1>1, <1>2, <1>9, LongProductMeans DEF Results
    <2>2. e.kind \in LongOps
      BY <1>9 DEF LongOps
    <2>3. v = Wrap(p) /\ high = p \div Values(4)
      BY <1>1, <2>1, <2>2, OutOfLong
    <2> QED BY <1>2, <2>3, LongProductMeans
  <1>10. ASSUME e.kind = "LONG_MUL_U"
         PROVE  Unsigned(high) * Values(4) + Unsigned(v) = a * b
    <2> DEFINE p == a * b
    <2>1. LongProduct(a, b) = <<Wrap(p), p \div Values(4)>>
      BY DEF LongProduct
    <2>2. Results(e.kind, s) = <<Wrap(p), Wrap(p \div Values(4))>>
      BY <1>1, <1>10, <2>1 DEF Results
    <2>3. e.kind \in LongOps
      BY <1>10 DEF LongOps
    <2>4. v = Wrap(p) /\ high = Wrap(p \div Values(4))
      BY <1>1, <2>2, <2>3, OutOfLong
    <2>5. Unsigned(high) = p \div Values(4)
      BY <1>3, <2>4, LongProductSmall
    <2>6. (p \div Values(4)) * Values(4) + Unsigned(Wrap(p)) = p
      BY <1>3, LongProductMeans
    <2> QED BY <2>4, <2>5, <2>6
  <1> QED BY <1>3, <1>4, <1>5, <1>6, <1>7, <1>8, <1>9, <1>10 DEF Computes

\* Which of the five ways of writing an expression its form tells.
LEMMA FormsTell ==
  ASSUME NEW e, Written(e)
  PROVE  /\ e.form \in CompareForms => Compared(e)
         /\ e.form = "mov" => Moved(e)
         /\ e.form = "binary" => Binary(e)
         /\ e.form = "unary" => Unary(e)
         /\ e.form = "named" => Named(e)
  <1>1. Compared(e) => e.form \in CompareForms
    BY DEF Compared
  <1>2. Moved(e) => e.form = "mov"
    BY DEF Moved
  <1>3. Binary(e) => e.form = "binary"
    BY DEF Binary
  <1>4. Unary(e) => e.form = "unary"
    BY DEF Unary
  <1>5. Named(e) => e.form = "named"
    BY DEF Named
  <1> QED BY <1>1, <1>2, <1>3, <1>4, <1>5 DEF Written, CompareForms

\* What is known when an expression has been run.
LEMMA Ended ==
  ASSUME DerivedInv, out # None
  PROVE  Written(expr) /\ Assembled(expr, inst) /\ out = OutOf(inst)
  BY DEF DerivedInv

\* Every comparison, stored in a register or made a branch by when() and case(),
\* decides by the relation written, with an int on the left too.
THEOREM ComparisonsProved == Spec => []ComparisonsDecide
  <1>1. DerivedInv => ComparisonsDecide
    <2> SUFFICES ASSUME DerivedInv, Done(CompareForms)
                 PROVE  out.v = Truth(Relation(expr.kind, expr.a, expr.b) = (expr.form # "else"))
      BY DEF ComparisonsDecide
    <2>1. Compared(expr) /\ Assembled(expr, inst) /\ out = OutOf(inst)
      BY Ended, FormsTell DEF Done
    <2> QED BY <2>1, ComparisonsDecided
  <1> QED BY <1>1, Invariant, PTL

\* Every conditional move takes its first value exactly when its relation holds.
THEOREM MovesProved == Spec => []MovesChoose
  <1>1. DerivedInv => MovesChoose
    <2> SUFFICES ASSUME DerivedInv, Done({"mov"})
                 PROVE  out.v = IF Relation(expr.kind, expr.a, expr.b) THEN expr.x ELSE expr.y
      BY DEF MovesChoose
    <2>1. Moved(expr) /\ Assembled(expr, inst) /\ out = OutOf(inst)
      BY Ended, FormsTell DEF Done
    <2> QED BY <2>1, MovesChosen
  <1> QED BY <1>1, Invariant, PTL

\* a / b and a % b truncate, and fail exactly when they have no result.
THEOREM DivisionProved == Spec => []DivisionTruncates
  <1>1. DerivedInv => DivisionTruncates
    <2> SUFFICES ASSUME DerivedInv, Done({"binary"}), expr.kind \in {"/", "//", "%"}
                 PROVE  DivisionTruncates
      BY DEF DivisionTruncates
    <2>1. Binary(expr) /\ Assembled(expr, inst) /\ out = OutOf(inst)
      BY Ended, FormsTell DEF Done
    <2> DEFINE a == expr.a
               b == expr.b
               v == out.v
    <2>2. IF b = 0 THEN v = "ZERO_DIVISION"
          ELSE IF expr.kind = "%"
          THEN /\ (a - v) % Magnitude(b) = 0 /\ Magnitude(v) < Magnitude(b)
               /\ v = 0 \/ (v < 0 <=> a < 0)
          ELSE IF b = -1 /\ a = IntMin THEN v = "INTEGER_OVERFLOW"
          ELSE LET r == a - b * v
               IN  Magnitude(r) < Magnitude(b) /\ (r = 0 \/ (r < 0 <=> a < 0))
      BY <2>1, DivisionsTruncate
    <2> QED BY <2>2 DEF DivisionTruncates
  <1> QED BY <1>1, Invariant, PTL

\* The other operators are Python's on integers, reduced to a word.
THEOREM OperatorsProved == Spec => []OperatorsMean
  <1>1. DerivedInv => OperatorsMean
    <2> SUFFICES ASSUME DerivedInv, Done({"binary", "unary"}) PROVE OperatorsMean
      BY DEF OperatorsMean
    <2>1. Assembled(expr, inst) /\ out = OutOf(inst) /\ (Binary(expr) \/ Unary(expr))
      BY Ended, FormsTell DEF Done
    <2> DEFINE a == expr.a
               b == expr.b
               v == out.v
    <2>2. CASE Binary(expr)
      <3>1. /\ expr.kind = "+" => v = Wrap(a + b)
            /\ expr.kind = "-" => v = Wrap(a - b)
            /\ expr.kind = "*" => (v - a * b) % Values(4) = 0
            /\ expr.kind = "&" => Bits(v) = Bits(a) \cap Bits(b)
            /\ expr.kind = "|" => Bits(v) = Bits(a) \cup Bits(b)
            /\ expr.kind = "^" => Bits(v) = (Bits(a) \cup Bits(b)) \ (Bits(a) \cap Bits(b))
            /\ expr.kind = ">>" => \A k \in BitPlaces :
                                     k \in Bits(v) <=>
                                       IF k + Unsigned(b) < WordBits
                                       THEN k + Unsigned(b) \in Bits(a) ELSE a < 0
        BY <2>1, <2>2, OperatorsCompute
      <3>2. expr.kind \in {"+", "-", "*", "/", "//", "%", "<<", ">>", "&", "^", "|"}
        BY <2>1, <2>2, BinaryIs, BinOpsAssumption
      <3>3. CASE expr.kind \in {"+", "-", "*"}
        BY <3>1, <3>3 DEF OperatorsMean
      <3>4. CASE expr.kind \in {"&", "|", "^"}
        BY <3>1, <3>4 DEF OperatorsMean
      <3>5. CASE expr.kind = ">>"
        BY <3>1, <3>5 DEF OperatorsMean
      <3>6. CASE expr.kind \in {"/", "//", "%", "<<"}
        BY <3>6 DEF OperatorsMean
      <3> QED BY <3>2, <3>3, <3>4, <3>5, <3>6
    <2>3. CASE Unary(expr)
      <3>1. /\ expr.kind = "~" => Bits(v) = BitPlaces \ Bits(a)
            /\ expr.kind = "neg" => (v + a) % Values(4) = 0
            /\ expr.kind = "abs" => (v - Magnitude(a)) % Values(4) = 0
        BY <2>1, <2>3, UnaryOperatorsCompute
      <3>2. expr.kind \in {"neg", "abs", "~"}
        BY <2>1, <2>3, UnaryIs
      <3>3. CASE expr.kind = "~"
        BY <3>1, <3>3 DEF OperatorsMean
      <3>4. CASE expr.kind = "neg"
        BY <3>1, <3>4 DEF OperatorsMean
      <3>5. CASE expr.kind = "abs"
        BY <3>1, <3>5 DEF OperatorsMean
      <3> QED BY <3>2, <3>3, <3>4, <3>5
    <2> QED BY <2>1, <2>2, <2>3
  <1> QED BY <1>1, Invariant, PTL

\* Shifts, unsigned divisions and long products are those of the whole words.
THEOREM InstructionsProved == Spec => []NamedInstructionsMean
  <1>1. DerivedInv => NamedInstructionsMean
    <2> SUFFICES ASSUME DerivedInv, Done({"named"}) PROVE NamedInstructionsMean
      BY DEF NamedInstructionsMean
    <2>1. Named(expr) /\ Assembled(expr, inst) /\ out = OutOf(inst)
      BY Ended, FormsTell DEF Done
    <2> DEFINE a == Unsigned(expr.a)
               b == Unsigned(expr.b)
               v == out.v
               high == out.high
    <2>10. /\ a = Unsigned(expr.a) /\ b = Unsigned(expr.b)
           /\ v = OutOf(inst).v /\ high = OutOf(inst).high
      BY <2>1
    <2> HIDE DEF a, b, v, high
    <2>2. Computes(expr, a, b, v, high)
      BY <2>1, <2>10, InstructionsCompute
    <2>3. expr.kind \in {"L_SHIFT", "R_SHIFT_U", "DIV_U", "REM_U", "LONG_MUL", "LONG_MUL_U"}
      BY <2>1, NamedIs DEF NamedOps, LongOps
    <2>4. CASE expr.kind = "L_SHIFT"
      BY <2>2, <2>4 DEF NamedInstructionsMean, Computes, a, b, v, high
    <2>5. CASE expr.kind = "R_SHIFT_U"
      BY <2>2, <2>5 DEF NamedInstructionsMean, Computes, a, b, v, high
    <2>6. CASE expr.kind = "DIV_U"
      BY <2>2, <2>6 DEF NamedInstructionsMean, Computes, a, b, v, high
    <2>7. CASE expr.kind = "REM_U"
      BY <2>2, <2>7 DEF NamedInstructionsMean, Computes, a, b, v, high
    <2>8. CASE expr.kind = "LONG_MUL"
      BY <2>2, <2>8 DEF NamedInstructionsMean, Computes, a, b, v, high
    <2>9. CASE expr.kind = "LONG_MUL_U"
      BY <2>2, <2>9 DEF NamedInstructionsMean, Computes, a, b, v, high
    <2> QED BY <2>3, <2>4, <2>5, <2>6, <2>7, <2>8, <2>9
  <1> QED BY <1>1, Invariant, PTL
=============================================================================
