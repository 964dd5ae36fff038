-------------------------- MODULE CycleGuardProofs --------------------------
(***************************************************************************)
(* What holds of the guarded walks for every program, every number of      *)
(* threads and every recursion limit.                                      *)
(***************************************************************************)
EXTENDS CycleGuard, SequenceTheorems, FiniteSetTheorems, TLAPS

\* What a method walks from an object, and the objects it comes to.
Kids(g, m, x) == {Walks(g, m, x)[i] : i \in DOMAIN Walks(g, m, x)}
ReachBy(g, m, x) ==
  {y \in DOMAIN g :
     \A s \in SUBSET DOMAIN g : (x \in s /\ \A z \in s : Kids(g, m, z) \subseteq s) => y \in s}
CyclicBy(g, m, x) ==
  \E y \in ReachBy(g, m, x) : \E z \in Kids(g, m, y) : y \in ReachBy(g, m, z)

-----------------------------------------------------------------------------
(* Graphs: what is walked is an object, and reaching is closed.            *)

LEMMA ObjectOfGraph ==
  ASSUME NEW g \in Graphs, NEW x \in DOMAIN g
  PROVE  g[x] \in Object(DOMAIN g)
BY GraphsAssumption

\* What an instruction encodes are its operands.
LEMMA OpEncodesTyped ==
  ASSUME NEW S, NEW o, o.tgts \in Seq(S), o.srcs \in Seq(S)
  PROVE  OpEncodes(o) \in Seq(S)
<1> DEFINE both == o.srcs # <<>> /\ o.tgts # <<>>
           rmw == both /\ o.srcs[1] = o.tgts[1]
           first == IF both THEN <<o.srcs[1], o.tgts[1]>> ELSE <<>>
           rest == IF rmw THEN Tail(o.srcs) ELSE o.srcs
<1>1. first \in Seq(S)
  BY ElementOfSeq
<1>2. rest \in Seq(S)
  BY HeadTailProperties
<1>3. OpEncodes(o) = first \o o.tgts \o rest
  BY DEF OpEncodes
<1> HIDE DEF first, rest
<1> QED BY <1>1, <1>2, <1>3, ConcatProperties

LEMMA ShortSeqs ==
  ASSUME NEW S, NEW a \in S, NEW b \in S
  PROVE  <<a>> \in Seq(S) /\ <<a, b>> \in Seq(S)
OBVIOUS

LEMMA WalksTyped ==
  ASSUME NEW g \in Graphs, NEW x \in DOMAIN g, NEW m \in Methods
  PROVE  Walks(g, m, x) \in Seq(DOMAIN g)
<1> DEFINE o == g[x]
<1>1. o \in Object(DOMAIN g)
  BY ObjectOfGraph
<1>2. CASE o.is = "op"
  <2>1. o.tgts \in Seq(DOMAIN g) /\ o.srcs \in Seq(DOMAIN g)
    BY <1>1, <1>2 DEF Object
  <2>2. OpEncodes(o) \in Seq(DOMAIN g)
    BY <2>1, OpEncodesTyped
  <2>3. OpChecks(o) \in Seq(DOMAIN g)
    BY <2>1, ConcatProperties DEF OpChecks
  <2>4. Walks(g, m, x) = OpEncodes(o) \/ Walks(g, m, x) = OpChecks(o)
    BY <1>2 DEF Walks, Methods
  <2> QED BY <2>2, <2>3, <2>4
<1>3. CASE o.is = "imem"
  <2>1. o.ref \in DOMAIN g /\ o.offset \in DOMAIN g
    BY <1>1, <1>3 DEF Object
  <2>2. Walks(g, m, x) = <<o.ref, o.offset>> \/ Walks(g, m, x) = <<o.offset>>
    BY <1>3 DEF Walks, IMemWalks
  <2> QED BY <2>1, <2>2, ShortSeqs
<1>4. CASE o.is \in {"expr", "offset"}
  <2>1. \/ o.is = "expr" /\ o.a \in DOMAIN g /\ o.b \in DOMAIN g
        \/ o.is = "offset" /\ o.base \in DOMAIN g /\ o.tgt \in DOMAIN g
    BY <1>1, <1>4 DEF Object
  <2>2. Walks(g, m, x) \in {<<>>, <<o.a, o.b>>, <<o.base, o.tgt>>}
    BY <1>4 DEF Walks, ExprChecks, OffsetChecks
  <2>3. /\ o.is = "expr" => Walks(g, m, x) \in {<<>>, <<o.a, o.b>>}
        /\ o.is = "offset" => Walks(g, m, x) \in {<<>>, <<o.base, o.tgt>>}
    BY DEF Walks, ExprChecks, OffsetChecks
  <2> QED BY <1>4, <2>1, <2>3, EmptySeq, ShortSeqs
<1>5. CASE o.is \notin {"op", "imem", "expr", "offset"}
  <2>1. Walks(g, m, x) = <<>>
    BY <1>5 DEF Walks
  <2> QED BY <2>1, EmptySeq
<1> QED BY <1>2, <1>3, <1>4, <1>5

\* A method that walks further is guarded.
LEMMA WalkersGuarded ==
  ASSUME NEW g, NEW x, NEW m \in Methods, Walks(g, m, x) # <<>>
  PROVE  Guarded(g, m, x)
BY DEF Walks, Guarded, Methods

LEMMA KidsTyped ==
  ASSUME NEW g \in Graphs, NEW x \in DOMAIN g, NEW m \in Methods
  PROVE  Kids(g, m, x) \subseteq DOMAIN g
BY WalksTyped, ElementOfSeq, LenProperties DEF Kids

LEMMA ReachRoot ==
  ASSUME NEW g, NEW m, NEW x \in DOMAIN g
  PROVE  x \in ReachBy(g, m, x)
BY DEF ReachBy

LEMMA ReachKids ==
  ASSUME NEW g \in Graphs, NEW m \in Methods, NEW x,
         NEW y \in ReachBy(g, m, x), NEW z \in Kids(g, m, y)
  PROVE  z \in ReachBy(g, m, x)
<1>1. y \in DOMAIN g
  BY DEF ReachBy
<1>2. z \in DOMAIN g
  BY <1>1, KidsTyped
<1> QED BY <1>1, <1>2 DEF ReachBy

LEMMA ReachLeast ==
  ASSUME NEW g, NEW m, NEW x, NEW s \in SUBSET DOMAIN g,
         x \in s, \A z \in s : Kids(g, m, z) \subseteq s
  PROVE  ReachBy(g, m, x) \subseteq s
BY DEF ReachBy

LEMMA ReachTransitive ==
  ASSUME NEW g \in Graphs, NEW m \in Methods, NEW x, NEW y \in ReachBy(g, m, x)
  PROVE  ReachBy(g, m, y) \subseteq ReachBy(g, m, x)
<1> DEFINE s == ReachBy(g, m, x)
<1>1. s \in SUBSET DOMAIN g
  BY DEF ReachBy
<1>2. \A z \in s : Kids(g, m, z) \subseteq s
  BY ReachKids
<1> HIDE DEF s
<1>3. ReachBy(g, m, y) \subseteq s
  BY <1>1, <1>2, ReachLeast DEF s
<1> QED BY <1>3 DEF s

\* An object none of whose operands is cyclic is not cyclic.
LEMMA AcyclicFromKids ==
  ASSUME NEW g \in Graphs, NEW m \in Methods, NEW x \in DOMAIN g,
         \A k \in Kids(g, m, x) : ~CyclicBy(g, m, k)
  PROVE  ~CyclicBy(g, m, x)
<1> DEFINE s == {x} \cup UNION {ReachBy(g, m, k) : k \in Kids(g, m, x)}
<1>1. \A k \in Kids(g, m, x) : k \in ReachBy(g, m, k)
  BY KidsTyped, ReachRoot
<1>2. s \in SUBSET DOMAIN g
  BY DEF ReachBy
<1>3. \A z \in s : Kids(g, m, z) \subseteq s
  <2> SUFFICES ASSUME NEW z \in s, NEW w \in Kids(g, m, z) PROVE w \in s
    OBVIOUS
  <2>1. CASE z = x
    BY <1>1, <2>1
  <2>2. CASE \E k \in Kids(g, m, x) : z \in ReachBy(g, m, k)
    BY <2>2, ReachKids
  <2> QED BY <2>1, <2>2, ShortSeqs
<1>4. ReachBy(g, m, x) \subseteq s
  <2> HIDE DEF s
  <2>1. x \in s
    BY DEF s
  <2> QED BY <1>2, <1>3, <2>1, ReachLeast
<1> SUFFICES ASSUME NEW y \in ReachBy(g, m, x), NEW z \in Kids(g, m, y), y \in ReachBy(g, m, z)
             PROVE  FALSE
  BY DEF CyclicBy
<1>5. CASE \E k \in Kids(g, m, x) : y \in ReachBy(g, m, k)
  BY <1>5 DEF CyclicBy
<1>6. CASE y = x
  BY <1>6 DEF CyclicBy
<1> QED BY <1>4, <1>5, <1>6

-----------------------------------------------------------------------------
(* The inductive invariant, a thread at a time.                            *)

FrameSet == [obj : DOMAIN graph, at : {"look", "mark", "body"}, todo : Seq(DOMAIN graph)]
IsTodo(f, y) == \E i \in DOMAIN f.todo : f.todo[i] = y

\* The calls a thread is in.  Only the top one may still be on its way in, and a thread
\* with an exception is on its way out of methods that have begun.
StackInv(t) ==
  /\ stack[t] \in Seq(FrameSet) /\ Len(stack[t]) <= MaxDepth
  /\ call[t].method \in Methods \cup {None}
  /\ call[t].method \in Methods => call[t].root \in DOMAIN graph
  /\ stack[t] # <<>> => call[t].method \in Methods /\ stack[t][1].obj = call[t].root
  /\ \A k \in DOMAIN stack[t] :
       stack[t][k].at # "body" =>
         k = Len(stack[t]) /\ err[t] = None /\ stack[t][k].todo = <<>>

\* y is an operand of x, or of an operand of it...
Behind(g, m, x, y) == \E z \in Kids(g, m, x) : y \in ReachBy(g, m, z)

\* The calls are a way through the operands.
PathInv(t) ==
  /\ \A k \in DOMAIN stack[t] : \A y \in DOMAIN graph :
       IsTodo(stack[t][k], y) => y \in Kids(graph, call[t].method, stack[t][k].obj)
  /\ \A j, k \in DOMAIN stack[t] :
       j < k => Behind(graph, call[t].method, stack[t][j].obj, stack[t][k].obj)

\* An object is marked for a thread exactly when a guarded method has begun with it.
\* Behind "look", the object is known to be unmarked.
InMethod(t, m, x) ==
  /\ call[t].method = m /\ Guarded(graph, m, x)
  /\ \E k \in DOMAIN stack[t] : stack[t][k].at = "body" /\ stack[t][k].obj = x
MarkInv(t) ==
  /\ \A m \in Methods, x \in DOMAIN graph : <<m, x, t>> \in seen <=> InMethod(t, m, x)
  /\ \A j, k \in DOMAIN stack[t] :
       /\ stack[t][j].obj = stack[t][k].obj
       /\ stack[t][j].at = "body" /\ stack[t][k].at \in {"mark", "body"}
       => j = k

\* What is worked on is reached from the root; as long as no exception is on its way,
\* it was without fault, and what it refers to is worked on or still on the list.
Waits(calls, y) == \E k \in DOMAIN calls : calls[k].obj = y \/ IsTodo(calls[k], y)
Reached(t) ==
  /\ done[t] \subseteq ReachBy(graph, call[t].method, call[t].root)
  /\ \A k \in DOMAIN stack[t] : stack[t][k].at = "body" => stack[t][k].obj \in done[t]
Listed(t) ==
  /\ call[t].root \in done[t] \/ Waits(stack[t], call[t].root)
  /\ \A x \in done[t] : \A y \in Kids(graph, call[t].method, x) :
       y \in done[t] \/ Waits(stack[t], y)
Faultless(t) == \A x \in done[t] : Fault(graph, call[t].method, x) = None
Blamed(t) ==
  LET objects == ReachBy(graph, call[t].method, call[t].root)
  IN  /\ err[t] \notin {None, "CycleError"} =>
           (\E x \in objects : Fault(graph, call[t].method, x) = err[t]) \/ RanDeep(t, objects)
      /\ err[t] = "CycleError" => call[t].method = "encode_for"
WorkInv(t) ==
  call[t].method \in Methods =>
    Reached(t) /\ (err[t] = None => Listed(t) /\ Faultless(t)) /\ Blamed(t)

\* Encoding: the operands a method is through with are not cyclic.
CycleInv(t) ==
  call[t].method = "encode_for" =>
    /\ err[t] = "CycleError" => CyclicBy(graph, "encode_for", call[t].root)
    /\ err[t] = None =>
         /\ stack[t] = <<>> => ~CyclicBy(graph, "encode_for", call[t].root)
         /\ \A k \in DOMAIN stack[t] : stack[t][k].at = "body" =>
              \A y \in Kids(graph, "encode_for", stack[t][k].obj) :
                \/ IsTodo(stack[t][k], y)
                \/ k < Len(stack[t]) /\ stack[t][k + 1].obj = y
                \/ ~CyclicBy(graph, "encode_for", y)

SharedInv ==
  /\ graph \in Graphs
  /\ seen \subseteq Methods \X (DOMAIN graph) \X Threads
  /\ DOMAIN stack = Threads /\ DOMAIN call = Threads
  /\ DOMAIN err = Threads /\ DOMAIN done = Threads
  /\ \A t \in Threads :
       /\ err[t] \in {None, "CycleError", "AddrError", "RecursionError"}
       /\ done[t] \subseteq DOMAIN graph
ThreadInv(t) == StackInv(t) /\ PathInv(t) /\ MarkInv(t) /\ WorkInv(t) /\ CycleInv(t)
IInv == SharedInv /\ \A t \in Threads : ThreadInv(t)

-----------------------------------------------------------------------------
(* What a step does to the calls of its thread, and to those of the others. *)

\* Taking off, replacing and adding the last element of a sequence.
LEMMA Popped ==
  ASSUME NEW S, NEW s \in Seq(S), s # <<>>
  PROVE  LET f == SubSeq(s, 1, Len(s) - 1)
         IN  /\ f \in Seq(S) /\ Len(f) = Len(s) - 1
             /\ \A k \in 1 .. Len(s) - 1 : f[k] = s[k]
<1>1. Len(s) \in Nat /\ Len(s) > 0
  BY EmptySeq, LenProperties
<1>2. SubSeq(s, 1, Len(s) - 1) = [i \in 1 .. Len(s) - 1 |-> s[i]]
  BY <1>1, LenProperties
<1>3. \A i \in 1 .. Len(s) - 1 : s[i] \in S
  BY <1>1, ElementOfSeq
<1>4. [i \in 1 .. Len(s) - 1 |-> s[i]] \in Seq(S)
  BY <1>1, <1>3, IsASeq
<1> DEFINE f == SubSeq(s, 1, Len(s) - 1)
<1>5. f \in Seq(S) /\ f = [i \in 1 .. Len(s) - 1 |-> s[i]]
  BY <1>2, <1>4
<1> HIDE DEF f
<1>6. DOMAIN f = 1 .. Len(f) /\ DOMAIN f = 1 .. Len(s) - 1 /\ Len(f) \in Nat
  BY <1>5, LenProperties
<1>7. Len(f) = Len(s) - 1
  BY <1>1, <1>6
<1> QED BY <1>5, <1>7 DEF f

LEMMA Replaced ==
  ASSUME NEW S, NEW s \in Seq(S), s # <<>>, NEW e \in S
  PROVE  LET f == [s EXCEPT ![Len(s)] = e]
         IN  /\ f \in Seq(S) /\ Len(f) = Len(s) /\ f[Len(s)] = e
             /\ \A k \in 1 .. Len(s) - 1 : f[k] = s[k]
<1>0. Len(s) \in Nat
  BY LenProperties
<1>1. Len(s) \in 1 .. Len(s)
  BY EmptySeq
<1> DEFINE f == [s EXCEPT ![Len(s)] = e]
<1>2. /\ f \in Seq(S) /\ Len(f) = Len(s)
      /\ \A j \in 1 .. Len(s) : f[j] = IF j = Len(s) THEN e ELSE s[j]
  BY <1>1, ExceptSeq
<1> HIDE DEF f
<1>3. f[Len(s)] = e
  BY <1>1, <1>2
<1>4. ASSUME NEW k \in 1 .. Len(s) - 1 PROVE f[k] = s[k]
  <2>1. k \in 1 .. Len(s) /\ k # Len(s)
    BY <1>0
  <2> QED BY <1>2, <2>1
<1> QED BY <1>2, <1>3, <1>4 DEF f

LEMMA Added ==
  ASSUME NEW S, NEW s \in Seq(S), NEW e \in S
  PROVE  LET f == Append(s, e)
         IN  /\ f \in Seq(S) /\ Len(f) = Len(s) + 1 /\ f[Len(s) + 1] = e
             /\ \A k \in 1 .. Len(s) : f[k] = s[k]
BY AppendProperties, LenProperties

\* The other threads keep their calls and their marks.
OthersStay(t) ==
  /\ graph' = graph
  /\ DOMAIN stack' = Threads /\ DOMAIN call' = Threads /\ DOMAIN err' = Threads /\ DOMAIN done' = Threads
  /\ \A u \in Threads \ {t} :
       /\ stack'[u] = stack[u] /\ call'[u] = call[u] /\ err'[u] = err[u] /\ done'[u] = done[u]
       /\ \A m \in Methods, x \in DOMAIN graph : <<m, x, u>> \in seen' <=> <<m, x, u>> \in seen

LEMMA OthersKeepInv ==
  ASSUME IInv, NEW t \in Threads, OthersStay(t), NEW u \in Threads, u # t
  PROVE  ThreadInv(u)'
<1> DEFINE Same == /\ graph' = graph /\ stack'[u] = stack[u] /\ call'[u] = call[u]
                   /\ err'[u] = err[u] /\ done'[u] = done[u]
<1>1. Same
  BY DEF OthersStay
<1>2. \A m \in Methods, x \in DOMAIN graph : <<m, x, u>> \in seen' <=> <<m, x, u>> \in seen
  BY DEF OthersStay
<1>3. StackInv(u) /\ PathInv(u) /\ MarkInv(u) /\ WorkInv(u) /\ CycleInv(u)
  BY DEF IInv, ThreadInv
<1>4. StackInv(u)'
  BY <1>1, <1>3 DEF StackInv, FrameSet
<1>5. PathInv(u)'
  BY <1>1, <1>3 DEF PathInv, IsTodo
<1>6. MarkInv(u)'
  BY <1>1, <1>2, <1>3 DEF MarkInv, InMethod
<1>7. WorkInv(u)'
  BY <1>1, <1>3 DEF WorkInv, Reached, Listed, Faultless, Blamed, RanDeep
<1>8. CycleInv(u)'
  BY <1>1, <1>3 DEF CycleInv, IsTodo
<1> QED BY <1>4, <1>5, <1>6, <1>7, <1>8 DEF ThreadInv

\* The top call ends, or it goes on, or it calls.
Ends(t) ==
  /\ stack[t] # <<>> /\ stack'[t] \in Seq(FrameSet) /\ Len(stack'[t]) = Len(stack[t]) - 1
  /\ \A k \in 1 .. Len(stack[t]) - 1 : stack'[t][k] = stack[t][k]
Goes(t, at, todo) ==
  /\ stack[t] # <<>> /\ stack'[t] \in Seq(FrameSet) /\ Len(stack'[t]) = Len(stack[t])
  /\ stack'[t][Len(stack[t])] = [obj |-> Top(t).obj, at |-> at, todo |-> todo]
  /\ \A k \in 1 .. Len(stack[t]) - 1 : stack'[t][k] = stack[t][k]
Calls(t) ==
  LET n == Len(stack[t])
  IN  /\ stack[t] # <<>> /\ stack'[t] \in Seq(FrameSet) /\ Len(stack'[t]) = n + 1
      /\ stack'[t][n] = [obj |-> Top(t).obj, at |-> "body", todo |-> Tail(Top(t).todo)]
      /\ stack'[t][n + 1] = Frame(Head(Top(t).todo))
      /\ \A k \in 1 .. n - 1 : stack'[t][k] = stack[t][k]

LEMMA TopTyped ==
  ASSUME IInv, NEW t \in Threads, stack[t] # <<>>
  PROVE  /\ Len(stack[t]) \in Nat /\ Len(stack[t]) > 0 /\ DOMAIN stack[t] = 1 .. Len(stack[t])
         /\ Top(t) \in FrameSet /\ call[t].method \in Methods /\ graph \in Graphs
         /\ call[t].root \in DOMAIN graph
<1>1. stack[t] \in Seq(FrameSet)
  BY DEF IInv, ThreadInv, StackInv
<1>2. Len(stack[t]) \in Nat /\ Len(stack[t]) > 0 /\ DOMAIN stack[t] = 1 .. Len(stack[t])
  BY <1>1, EmptySeq, LenProperties
<1>3. Top(t) \in FrameSet
  BY <1>1, <1>2, ElementOfSeq DEF Top
<1> QED BY <1>2, <1>3 DEF IInv, SharedInv, ThreadInv, StackInv

LEMMA PopEnds ==
  ASSUME IInv, NEW t \in Threads, stack[t] # <<>>, Pop(t)
  PROVE  Ends(t) /\ DOMAIN stack' = Threads /\ \A u \in Threads \ {t} : stack'[u] = stack[u]
<1>1. stack[t] \in Seq(FrameSet) /\ DOMAIN stack = Threads
  BY DEF IInv, ThreadInv, StackInv, SharedInv
<1>2. /\ stack'[t] = SubSeq(stack[t], 1, Len(stack[t]) - 1)
      /\ DOMAIN stack' = Threads /\ \A u \in Threads \ {t} : stack'[u] = stack[u]
  BY <1>1 DEF Pop
<1> QED BY <1>1, <1>2, Popped DEF Ends

LEMMA MoveGoes ==
  ASSUME IInv, NEW t \in Threads, stack[t] # <<>>,
         NEW at \in {"look", "mark", "body"}, NEW todo \in Seq(DOMAIN graph), Move(t, at, todo)
  PROVE  /\ Goes(t, at, todo)
         /\ DOMAIN stack' = Threads /\ \A u \in Threads \ {t} : stack'[u] = stack[u]
<1> DEFINE e == [obj |-> Top(t).obj, at |-> at, todo |-> todo]
<1>1. stack[t] \in Seq(FrameSet) /\ DOMAIN stack = Threads
  BY DEF IInv, ThreadInv, StackInv, SharedInv
<1>2. e \in FrameSet
  BY TopTyped DEF FrameSet
<1>3. /\ stack'[t] = [stack[t] EXCEPT ![Len(stack[t])] = e]
      /\ DOMAIN stack' = Threads /\ \A u \in Threads \ {t} : stack'[u] = stack[u]
  BY <1>1, TopTyped DEF Move, Top
<1> HIDE DEF e
<1>4. Goes(t, at, todo) <=>
        /\ stack'[t] \in Seq(FrameSet) /\ Len(stack'[t]) = Len(stack[t])
        /\ stack'[t][Len(stack[t])] = e
        /\ \A k \in 1 .. Len(stack[t]) - 1 : stack'[t][k] = stack[t][k]
  BY DEF Goes, e
<1> QED BY <1>1, <1>2, <1>3, <1>4, Replaced

LEMMA DescendCalls ==
  ASSUME IInv, NEW t \in Threads, Descend(t)
  PROVE  Calls(t) /\ OthersStay(t)
<1> DEFINE s == stack[t]
           n == Len(s)
           y == Head(Top(t).todo)
           e == [obj |-> Top(t).obj, at |-> "body", todo |-> Tail(Top(t).todo)]
           r == [s EXCEPT ![n] = e]
<1>1. s \in Seq(FrameSet) /\ DOMAIN stack = Threads /\ s # <<>> /\ Top(t).todo # <<>> /\ Top(t).at = "body"
  BY DEF IInv, ThreadInv, StackInv, SharedInv, Descend, In
<1>2. Top(t) \in FrameSet /\ n \in Nat /\ n > 0 /\ DOMAIN s = 1 .. n
  BY <1>1, TopTyped
<1>3. Top(t).todo \in Seq(DOMAIN graph) /\ Top(t).obj \in DOMAIN graph
  BY <1>2 DEF FrameSet
<1>4. y \in DOMAIN graph /\ Tail(Top(t).todo) \in Seq(DOMAIN graph)
  BY <1>1, <1>3, HeadTailProperties
<1>5. e \in FrameSet /\ Frame(y) \in FrameSet
  BY <1>3, <1>4 DEF FrameSet, Frame
<1>9. /\ stack'[t] = Append(r, Frame(y))
      /\ DOMAIN stack' = Threads /\ \A u \in Threads \ {t} : stack'[u] = stack[u]
  BY <1>1 DEF Descend
<1> HIDE DEF e
<1>10. r \in Seq(FrameSet) /\ Len(r) = n /\ r[n] = e /\ \A k \in 1 .. n - 1 : r[k] = s[k]
  BY <1>1, <1>5, Replaced
<1> HIDE DEF r
<1>11. /\ stack'[t] \in Seq(FrameSet) /\ Len(stack'[t]) = n + 1 /\ stack'[t][n + 1] = Frame(y)
       /\ \A k \in 1 .. n : stack'[t][k] = r[k]
  BY <1>5, <1>9, <1>10, Added
<1>12. stack'[t][n] = e /\ \A k \in 1 .. n - 1 : stack'[t][k] = s[k]
  BY <1>2, <1>10, <1>11
<1>13. Calls(t)
  BY <1>1, <1>11, <1>12 DEF Calls, e
<1> QED BY <1>9, <1>13 DEF OthersStay, Descend, IInv, SharedInv

-----------------------------------------------------------------------------
(* Consequences of the invariant. *)

\* Every call a thread is in is one for an object the root leads to.
LEMMA FramesReached ==
  ASSUME IInv, NEW t \in Threads, NEW k \in DOMAIN stack[t]
  PROVE  stack[t][k].obj \in ReachBy(graph, call[t].method, call[t].root)
<1> DEFINE m == call[t].method
           r == call[t].root
<1>1. stack[t] # <<>>
  BY DEF IInv, ThreadInv, StackInv
<1>2. /\ Len(stack[t]) \in Nat /\ Len(stack[t]) > 0 /\ DOMAIN stack[t] = 1 .. Len(stack[t])
      /\ m \in Methods /\ graph \in Graphs /\ r \in DOMAIN graph
  BY <1>1, TopTyped
<1>3. stack[t][1].obj = r
  BY <1>1 DEF IInv, ThreadInv, StackInv
<1>4. CASE k = 1
  BY <1>2, <1>3, <1>4, ReachRoot
<1>5. CASE k # 1
  <2>1. 1 < k /\ 1 \in DOMAIN stack[t]
    BY <1>2, <1>5
  <2>2. PICK z \in Kids(graph, m, r) : stack[t][k].obj \in ReachBy(graph, m, z)
    BY <1>3, <2>1 DEF IInv, ThreadInv, PathInv, Behind
  <2>3. z \in ReachBy(graph, m, r)
    BY <1>2, ReachRoot, ReachKids
  <2> QED BY <1>2, <2>2, <2>3, ReachTransitive
<1> QED BY <1>4, <1>5

\* A call that another one was made from is guarded, and so is marked.
LEMMA CallersMarked ==
  ASSUME IInv, NEW t \in Threads, NEW j \in DOMAIN stack[t], NEW k \in DOMAIN stack[t], j < k
  PROVE  /\ stack[t][j].at = "body" /\ stack[t][j].obj \in DOMAIN graph
         /\ Guarded(graph, call[t].method, stack[t][j].obj)
         /\ <<call[t].method, stack[t][j].obj, t>> \in seen
<1> DEFINE m == call[t].method
           x == stack[t][j].obj
<1>1. stack[t] # <<>>
  BY DEF IInv, ThreadInv, StackInv
<1>2. Len(stack[t]) \in Nat /\ DOMAIN stack[t] = 1 .. Len(stack[t]) /\ m \in Methods
  BY <1>1, TopTyped
<1>3. stack[t][j].at = "body"
  BY <1>2 DEF IInv, ThreadInv, StackInv
<1>4. x \in DOMAIN graph
  BY FramesReached DEF ReachBy
<1>5. Kids(graph, m, x) # {}
  BY DEF IInv, ThreadInv, PathInv, Behind
<1>6. Guarded(graph, m, x)
  BY <1>2, <1>5, WalkersGuarded DEF Kids
<1> QED BY <1>2, <1>3, <1>4, <1>6 DEF IInv, ThreadInv, MarkInv, InMethod

\* No two calls that have begun are for the same object.
LEMMA BegunOnce ==
  ASSUME IInv, NEW t \in Threads, NEW j \in DOMAIN stack[t], NEW k \in DOMAIN stack[t],
         stack[t][j].obj = stack[t][k].obj,
         stack[t][j].at = "body", stack[t][k].at = "body"
  PROVE  j = k
BY DEF IInv, ThreadInv, MarkInv

-----------------------------------------------------------------------------
(* The calls of the thread that takes a step. *)

LEMMA EndsKeepsStack ==
  ASSUME IInv, NEW t \in Threads, Ends(t), graph' = graph, call'[t] = call[t]
  PROVE  StackInv(t)' /\ PathInv(t)'
<1> DEFINE n == Len(stack[t])
<1>1. n \in Nat /\ n > 0 /\ DOMAIN stack[t] = 1 .. n /\ call[t].method \in Methods
  BY TopTyped DEF Ends
<1>2. DOMAIN stack'[t] = 1 .. n - 1 /\ \A k \in 1 .. n - 1 : stack'[t][k] = stack[t][k]
  BY <1>1, LenProperties DEF Ends
<1>3. \A k \in 1 .. n - 1 : stack[t][k].at = "body"
  BY <1>1 DEF IInv, ThreadInv, StackInv
<1>4. FrameSet' = FrameSet
  BY DEF FrameSet
<1>5. stack'[t] # <<>> => stack'[t][1] = stack[t][1]
  BY <1>1, <1>2, EmptySeq DEF Ends
<1>6. StackInv(t) /\ PathInv(t) /\ MaxDepth \in Nat
  BY DepthAssumption DEF IInv, ThreadInv
<1>7. Len(stack'[t]) <= MaxDepth
  BY <1>1, <1>6 DEF Ends, StackInv
<1>8. StackInv(t)'
  BY <1>2, <1>3, <1>4, <1>5, <1>6, <1>7 DEF StackInv, Ends
<1>9. ASSUME NEW k \in 1 .. n - 1, NEW y \in DOMAIN graph, IsTodo(stack'[t][k], y)
      PROVE  y \in Kids(graph, call[t].method, stack'[t][k].obj)
  <2>1. k \in DOMAIN stack[t] /\ stack'[t][k] = stack[t][k]
    BY <1>1, <1>2
  <2> QED BY <1>6, <1>9, <2>1 DEF PathInv
<1>10. ASSUME NEW j \in 1 .. n - 1, NEW k \in 1 .. n - 1, j < k
       PROVE  Behind(graph, call[t].method, stack'[t][j].obj, stack'[t][k].obj)
  <2>1. /\ j \in DOMAIN stack[t] /\ stack'[t][j] = stack[t][j]
        /\ k \in DOMAIN stack[t] /\ stack'[t][k] = stack[t][k]
    BY <1>1, <1>2
  <2> QED BY <1>6, <1>10, <2>1 DEF PathInv
<1>11. PathInv(t)'
  BY <1>2, <1>9, <1>10 DEF PathInv, IsTodo
<1> QED BY <1>8, <1>11

LEMMA GoesKeepsStack ==
  ASSUME IInv, NEW t \in Threads, graph' = graph, call'[t] = call[t],
         NEW at \in {"mark", "body"}, NEW todo \in Seq(DOMAIN graph), Goes(t, at, todo),
         \A i \in DOMAIN todo : todo[i] \in Kids(graph, call[t].method, Top(t).obj),
         at # "body" => todo = <<>> /\ err'[t] = None
  PROVE  StackInv(t)' /\ PathInv(t)'
<1> DEFINE n == Len(stack[t])
<1>1. n \in Nat /\ n > 0 /\ DOMAIN stack[t] = 1 .. n /\ call[t].method \in Methods
  BY TopTyped DEF Goes
<1>2. DOMAIN stack'[t] = 1 .. n /\ \A k \in 1 .. n - 1 : stack'[t][k] = stack[t][k]
  BY <1>1, LenProperties DEF Goes
<1>3. \A k \in 1 .. n - 1 : stack[t][k].at = "body"
  BY <1>1 DEF IInv, ThreadInv, StackInv
<1>4. FrameSet' = FrameSet
  BY DEF FrameSet
<1>5. \A k \in 1 .. n : stack'[t][k].obj = stack[t][k].obj
  BY <1>1, <1>2 DEF Goes, Top
<1>6. StackInv(t) /\ PathInv(t)
  BY DEF IInv, ThreadInv
<1>7. stack'[t][n].at = at /\ stack'[t][n].todo = todo
  BY DEF Goes
<1>8. StackInv(t)'
  <2>1. \A k \in 1 .. n : stack'[t][k].at # "body" =>
          k = n /\ err'[t] = None /\ stack'[t][k].todo = <<>>
    BY <1>1, <1>2, <1>3, <1>7
  <2> QED BY <1>1, <1>2, <1>4, <1>5, <1>6, <2>1 DEF StackInv, Goes
<1>9. \A k \in 1 .. n : \A y \in DOMAIN graph :
        IsTodo(stack'[t][k], y) => y \in Kids(graph, call[t].method, stack'[t][k].obj)
  BY <1>1, <1>2, <1>5, <1>6, <1>7 DEF PathInv, IsTodo, Top
<1>10. PathInv(t)'
  BY <1>1, <1>2, <1>5, <1>6, <1>9 DEF PathInv, IsTodo
<1> QED BY <1>8, <1>10

LEMMA CallsKeepsStack ==
  ASSUME IInv, NEW t \in Threads, Descend(t)
  PROVE  StackInv(t)' /\ PathInv(t)'
<1> DEFINE n == Len(stack[t])
           m == call[t].method
           y == Head(Top(t).todo)
<1>1. Calls(t) /\ graph' = graph /\ call' = call /\ err' = err
  BY DescendCalls DEF Descend
<1>2. /\ n \in Nat /\ n > 0 /\ DOMAIN stack[t] = 1 .. n /\ m \in Methods /\ graph \in Graphs
      /\ Top(t) \in FrameSet
  BY <1>1, TopTyped DEF Calls
<1>3. DOMAIN stack'[t] = 1 .. n + 1 /\ \A k \in 1 .. n - 1 : stack'[t][k] = stack[t][k]
  BY <1>1, LenProperties DEF Calls
<1>4. \A k \in 1 .. n : stack'[t][k].obj = stack[t][k].obj /\ stack'[t][k].at = "body"
  <2>1. \A k \in 1 .. n - 1 : stack[t][k].at = "body"
    BY <1>2 DEF IInv, ThreadInv, StackInv
  <2> QED BY <1>1, <1>2, <1>3, <2>1 DEF Calls, Top
<1>5. stack'[t][n + 1] = [obj |-> y, at |-> "look", todo |-> <<>>]
  BY <1>1 DEF Calls, Frame
<1>6. StackInv(t) /\ PathInv(t) /\ MaxDepth \in Nat
  BY DepthAssumption DEF IInv, ThreadInv
<1>7. Top(t).todo \in Seq(DOMAIN graph) /\ Top(t).todo # <<>> /\ err[t] = None
  BY <1>2 DEF Descend, FrameSet
<1>8. y \in DOMAIN graph /\ IsTodo(Top(t), y)
  <2>1. Top(t).todo[1] = y /\ 1 \in DOMAIN Top(t).todo
    BY <1>7, HeadTailProperties, EmptySeq, LenProperties
  <2>2. y \in DOMAIN graph
    BY <1>7, HeadTailProperties
  <2> QED BY <2>1, <2>2 DEF IsTodo
<1>9. y \in Kids(graph, m, stack[t][n].obj)
  BY <1>2, <1>6, <1>8 DEF PathInv, Top
<1>10. StackInv(t)'
  <2>1. Len(stack'[t]) <= MaxDepth
    BY <1>1, <1>2, <1>6 DEF Calls, Descend
  <2>2. FrameSet' = FrameSet
    BY <1>1 DEF FrameSet
  <2>3. \A k \in 1 .. n + 1 : stack'[t][k].at # "body" =>
          k = n + 1 /\ err'[t] = None /\ stack'[t][k].todo = <<>>
    BY <1>1, <1>2, <1>4, <1>5, <1>7
  <2>4. stack'[t][1].obj = stack[t][1].obj
    BY <1>2, <1>4
  <2> QED BY <1>1, <1>2, <1>3, <1>6, <2>1, <2>2, <2>3, <2>4 DEF StackInv, Calls
<1>11. \A k \in 1 .. n + 1 : \A x \in DOMAIN graph :
        IsTodo(stack'[t][k], x) => x \in Kids(graph, m, stack'[t][k].obj)
  <2> SUFFICES ASSUME NEW k \in 1 .. n + 1, NEW x \in DOMAIN graph, IsTodo(stack'[t][k], x)
               PROVE  x \in Kids(graph, m, stack'[t][k].obj)
    OBVIOUS
  <2>1. CASE k < n
    BY <1>2, <1>3, <1>6, <2>1 DEF PathInv
  <2>2. CASE k = n
    <3>0. stack'[t][n].todo = Tail(Top(t).todo)
      BY <1>1 DEF Calls
    <3>1. PICK i \in DOMAIN Tail(Top(t).todo) : Tail(Top(t).todo)[i] = x
      BY <2>2, <3>0 DEF IsTodo
    <3>2. IsTodo(Top(t), x)
      <4>1. /\ i \in 1 .. Len(Top(t).todo) - 1 /\ Tail(Top(t).todo)[i] = Top(t).todo[i + 1]
        BY <1>7, <3>1, HeadTailProperties, LenProperties
      <4>2. i + 1 \in DOMAIN Top(t).todo
        BY <1>7, <4>1, LenProperties
      <4> QED BY <3>1, <4>1, <4>2 DEF IsTodo
    <3> QED BY <1>2, <1>4, <1>6, <2>2, <3>2 DEF PathInv, Top
  <2>3. CASE k = n + 1
    BY <1>5, <2>3 DEF IsTodo
  <2> QED BY <1>2, <2>1, <2>2, <2>3
<1>12. ASSUME NEW j \in 1 .. n + 1, NEW k \in 1 .. n + 1, j < k
       PROVE  Behind(graph, m, stack'[t][j].obj, stack'[t][k].obj)
  <2>1. CASE k \in 1 .. n
    <3>1. j \in 1 .. n
      BY <1>2, <1>12, <2>1
    <3>2. Behind(graph, m, stack[t][j].obj, stack[t][k].obj)
      BY <1>2, <1>6, <1>12, <2>1, <3>1 DEF PathInv
    <3> QED BY <1>4, <2>1, <3>1, <3>2
  <2>2. CASE k = n + 1 /\ j = n
    <3>1. stack'[t][k].obj = y /\ stack'[t][j].obj = stack[t][n].obj
      BY <1>2, <1>4, <1>5, <2>2
    <3>2. y \in ReachBy(graph, m, y)
      BY <1>8, ReachRoot
    <3> QED BY <1>9, <3>1, <3>2 DEF Behind
  <2>3. CASE k = n + 1 /\ j < n
    <3>1. j \in 1 .. n /\ n \in 1 .. n
      BY <1>2, <2>3
    <3>2. PICK z \in Kids(graph, m, stack[t][j].obj) : stack[t][n].obj \in ReachBy(graph, m, z)
      BY <1>2, <1>6, <2>3, <3>1 DEF PathInv, Behind
    <3>3. y \in ReachBy(graph, m, z)
      BY <1>2, <1>9, <3>2, ReachKids
    <3> QED BY <1>4, <1>5, <2>3, <3>1, <3>2, <3>3 DEF Behind
  <2> QED BY <1>2, <1>12, <2>1, <2>2, <2>3
<1>13. PathInv(t)'
  BY <1>1, <1>3, <1>11, <1>12 DEF PathInv, IsTodo
<1> QED BY <1>10, <1>13

-----------------------------------------------------------------------------
(* The steps, one by one. *)

\* The frames of a thread, with its stack's length.
LEMMA EndsFrames ==
  ASSUME IInv, NEW t \in Threads, Ends(t)
  PROVE  /\ DOMAIN stack[t] = 1 .. Len(stack[t]) /\ Len(stack[t]) \in Nat /\ Len(stack[t]) > 0
         /\ DOMAIN stack'[t] = 1 .. Len(stack[t]) - 1
         /\ \A k \in DOMAIN stack'[t] :
              k \in DOMAIN stack[t] /\ k # Len(stack[t]) /\ stack'[t][k] = stack[t][k]
<1>1. Len(stack[t]) \in Nat /\ Len(stack[t]) > 0 /\ DOMAIN stack[t] = 1 .. Len(stack[t])
  BY TopTyped DEF Ends
<1>2. DOMAIN stack'[t] = 1 .. Len(stack[t]) - 1
  BY <1>1, LenProperties DEF Ends
<1>3. \A k \in 1 .. Len(stack[t]) - 1 :
        k \in 1 .. Len(stack[t]) /\ k # Len(stack[t]) /\ stack'[t][k] = stack[t][k]
  BY <1>1 DEF Ends
<1> QED BY <1>1, <1>2, <1>3

LEMMA OtherwiseKeeps ==
  ASSUME IInv, NEW t \in Threads, Otherwise(t)
  PROVE  SharedInv' /\ OthersStay(t) /\ ThreadInv(t)'
<1> DEFINE n == Len(stack[t])
           m == call[t].method
           r == call[t].root
           x == Top(t).obj
<1>1. stack[t] # <<>> /\ Top(t).at = "look" /\ <<m, x, t>> \in seen
  BY DEF Otherwise, In, Mine, Key
<1>2. Ends(t) /\ DOMAIN stack' = Threads /\ \A u \in Threads \ {t} : stack'[u] = stack[u]
  BY <1>1, PopEnds DEF Otherwise
<1>3. /\ graph' = graph /\ seen' = seen /\ call' = call /\ done' = done
      /\ err' = [err EXCEPT ![t] = IF m = "encode_for" THEN "CycleError" ELSE @]
  BY DEF Otherwise
<1>4. SharedInv' /\ OthersStay(t)
  BY <1>2, <1>3 DEF SharedInv, OthersStay, IInv
<1>5. /\ err'[t] = IF m = "encode_for" THEN "CycleError" ELSE err[t]
      /\ SharedInv /\ ThreadInv(t)
  BY <1>3 DEF IInv, SharedInv
<1>6. /\ DOMAIN stack[t] = 1 .. n /\ n \in Nat /\ n \in 1 .. n /\ DOMAIN stack'[t] = 1 .. n - 1
      /\ \A k \in DOMAIN stack'[t] : k \in DOMAIN stack[t] /\ k # n /\ stack'[t][k] = stack[t][k]
      /\ m \in Methods /\ graph \in Graphs /\ x \in DOMAIN graph /\ r \in DOMAIN graph
      /\ stack[t][n].obj = x /\ stack[t][n].at = "look" /\ stack[t][n].todo = <<>>
  <2>1. DOMAIN stack[t] = 1 .. n /\ n \in Nat /\ n > 0
    BY <1>2, EndsFrames
  <2>2. /\ DOMAIN stack'[t] = 1 .. n - 1
        /\ \A k \in DOMAIN stack'[t] :
             k \in DOMAIN stack[t] /\ k # n /\ stack'[t][k] = stack[t][k]
    BY <1>2, EndsFrames
  <2>3. m \in Methods /\ graph \in Graphs /\ x \in DOMAIN graph /\ r \in DOMAIN graph
    BY <1>1, TopTyped DEF FrameSet
  <2>4. stack[t][n].obj = x /\ stack[t][n].at = "look" /\ n \in 1 .. n
    BY <1>1, <2>1 DEF Top
  <2>5. stack[t][n].todo = <<>>
    BY <1>5, <2>1, <2>4 DEF ThreadInv, StackInv
  <2> QED BY <2>1, <2>2, <2>3, <2>4, <2>5
<1>7. \A k \in DOMAIN stack[t] : k # n => k \in DOMAIN stack'[t] /\ stack'[t][k] = stack[t][k]
  BY <1>6
<1>8. PICK j \in DOMAIN stack[t] : stack[t][j].at = "body" /\ stack[t][j].obj = x
  BY <1>1, <1>5, <1>6 DEF ThreadInv, MarkInv, InMethod
<1>9. StackInv(t)' /\ PathInv(t)'
  BY <1>2, <1>3, EndsKeepsStack
<1>10. MarkInv(t)'
  <2>1. \A k \in DOMAIN stack[t] : stack[t][k].at = "body" =>
          k \in DOMAIN stack'[t] /\ stack'[t][k] = stack[t][k]
    BY <1>6, <1>7
  <2>2. \A mm \in Methods, y \in DOMAIN graph : InMethod(t, mm, y)' <=> InMethod(t, mm, y)
    BY <1>3, <1>6, <2>1 DEF InMethod
  <2>3. \A mm \in Methods, y \in DOMAIN graph : <<mm, y, t>> \in seen' <=> InMethod(t, mm, y)'
    BY <1>3, <1>5, <2>2 DEF ThreadInv, MarkInv
  <2>4. ASSUME NEW i \in DOMAIN stack'[t], NEW k \in DOMAIN stack'[t],
               stack'[t][i].obj = stack'[t][k].obj,
               stack'[t][i].at = "body", stack'[t][k].at \in {"mark", "body"}
        PROVE  i = k
    BY <1>5, <1>6, <2>4 DEF ThreadInv, MarkInv
  <2> QED BY <1>3, <2>3, <2>4 DEF MarkInv
<1>11. WorkInv(t) /\ Reached(t) /\ Blamed(t) /\ (err[t] = None => Listed(t) /\ Faultless(t))
  BY <1>5, <1>6 DEF ThreadInv, WorkInv
<1>12. x \in done[t]
  BY <1>8, <1>11 DEF Reached
<1>13. ASSUME NEW y, Waits(stack[t], y), y \notin done[t]
       PROVE  Waits(stack'[t], y)
  <2>1. PICK k \in DOMAIN stack[t] : stack[t][k].obj = y \/ IsTodo(stack[t][k], y)
    BY <1>13 DEF Waits
  <2>2. k # n
    BY <1>6, <1>12, <1>13, <2>1 DEF IsTodo
  <2> QED BY <1>7, <2>1, <2>2 DEF Waits
<1>14. WorkInv(t)'
  <2>1. Reached(t)'
    BY <1>3, <1>6, <1>11 DEF Reached
  <2>2. Blamed(t)'
    BY <1>3, <1>5, <1>11 DEF Blamed, RanDeep
  <2>3. err'[t] = None => err[t] = None
    BY <1>5 DEF None
  <2>4. Listed(t) => Listed(t)'
    BY <1>3, <1>13 DEF Listed
  <2>5. Faultless(t) => Faultless(t)'
    BY <1>3 DEF Faultless
  <2> QED BY <1>3, <1>11, <2>1, <2>2, <2>3, <2>4, <2>5 DEF WorkInv
<1>15. CycleInv(t)'
  <2> SUFFICES ASSUME m = "encode_for" PROVE CyclicBy(graph, m, r)
    BY <1>3, <1>5 DEF CycleInv, None
  <2>1. j # n /\ j < n
    BY <1>6, <1>8
  <2>2. PICK z \in Kids(graph, m, x) : x \in ReachBy(graph, m, z)
    BY <1>5, <1>6, <1>8, <2>1 DEF ThreadInv, PathInv, Behind
  <2>3. x \in ReachBy(graph, m, r)
    BY <1>6, FramesReached
  <2> QED BY <2>2, <2>3 DEF CyclicBy
<1> QED BY <1>4, <1>9, <1>10, <1>14, <1>15 DEF ThreadInv

LEMMA GoesFrames ==
  ASSUME IInv, NEW t \in Threads, NEW at, NEW todo, Goes(t, at, todo)
  PROVE  LET n == Len(stack[t])
             x == Top(t).obj
         IN  /\ DOMAIN stack[t] = 1 .. n /\ n \in Nat /\ n \in 1 .. n /\ DOMAIN stack'[t] = 1 .. n
             /\ \A k \in 1 .. n : stack'[t][k].obj = stack[t][k].obj
             /\ \A k \in 1 .. n : k # n =>
                  stack[t][k].at = "body" /\ stack'[t][k] = stack[t][k]
             /\ stack[t][n] = Top(t) /\ x \in DOMAIN graph
             /\ stack'[t][n].at = at /\ stack'[t][n].todo = todo
             /\ call[t].method \in Methods /\ graph \in Graphs /\ call[t].root \in DOMAIN graph
<1> DEFINE n == Len(stack[t])
<1>1. stack[t] # <<>>
  BY DEF Goes
<1>2. n \in Nat /\ n > 0 /\ DOMAIN stack[t] = 1 .. n /\ n \in 1 .. n
  BY <1>1, TopTyped
<1>3. DOMAIN stack'[t] = 1 .. n
  BY LenProperties DEF Goes
<1>4. \A k \in 1 .. n : k # n => stack[t][k].at = "body" /\ stack'[t][k] = stack[t][k]
  BY <1>2 DEF Goes, IInv, ThreadInv, StackInv
<1>5. /\ stack'[t][n].obj = Top(t).obj /\ stack'[t][n].at = at /\ stack'[t][n].todo = todo
      /\ stack[t][n] = Top(t)
  BY DEF Goes, Top
<1>6. Top(t).obj \in DOMAIN graph
  BY <1>1, TopTyped DEF FrameSet
<1> QED BY <1>1, <1>2, <1>3, <1>4, <1>5, <1>6, TopTyped

LEMMA FreshKeeps ==
  ASSUME IInv, NEW t \in Threads, Fresh(t)
  PROVE  SharedInv' /\ OthersStay(t) /\ ThreadInv(t)'
<1> DEFINE n == Len(stack[t])
           m == call[t].method
           x == Top(t).obj
<1>1. /\ stack[t] # <<>> /\ Top(t).at = "look" /\ Move(t, "mark", <<>>)
      /\ Guarded(graph, m, x) => <<m, x, t>> \notin seen
      /\ graph' = graph /\ seen' = seen /\ call' = call /\ done' = done /\ err' = err
  BY DEF Fresh, In, Mine, Key, IsGuarded
<1>2. /\ Goes(t, "mark", <<>>)
      /\ DOMAIN stack' = Threads /\ \A u \in Threads \ {t} : stack'[u] = stack[u]
  BY <1>1, MoveGoes, EmptySeq
<1>3. SharedInv' /\ OthersStay(t)
  BY <1>1, <1>2 DEF SharedInv, OthersStay, IInv
<1>4. /\ DOMAIN stack[t] = 1 .. n /\ n \in Nat /\ n \in 1 .. n /\ DOMAIN stack'[t] = 1 .. n
      /\ \A k \in 1 .. n : stack'[t][k].obj = stack[t][k].obj
      /\ \A k \in 1 .. n : k # n => stack[t][k].at = "body" /\ stack'[t][k] = stack[t][k]
      /\ stack[t][n] = Top(t) /\ stack'[t][n].at = "mark" /\ stack'[t][n].todo = <<>>
      /\ m \in Methods
  BY <1>2, GoesFrames
<1>5. ThreadInv(t) /\ err[t] = None /\ stack[t][n].todo = <<>>
  BY <1>1, <1>4 DEF IInv, ThreadInv, StackInv
<1>6. StackInv(t)' /\ PathInv(t)'
  <2>1. <<>> \in Seq(DOMAIN graph) /\ DOMAIN <<>> = {}
    BY EmptySeq
  <2> QED BY <1>1, <1>2, <1>5, <2>1, GoesKeepsStack
<1>7. MarkInv(t)'
  <2>1. \A mm \in Methods, y \in DOMAIN graph : InMethod(t, mm, y)' <=> InMethod(t, mm, y)
    BY <1>1, <1>4 DEF InMethod
  <2>2. \A mm \in Methods, y \in DOMAIN graph : <<mm, y, t>> \in seen' <=> InMethod(t, mm, y)'
    BY <1>1, <1>5, <2>1 DEF ThreadInv, MarkInv
  <2>3. ASSUME NEW i \in 1 .. n, NEW k \in 1 .. n, stack'[t][i].obj = stack'[t][k].obj,
               stack'[t][i].at = "body", stack'[t][k].at \in {"mark", "body"}
        PROVE  i = k
    <3>1. i # n /\ i < n /\ stack'[t][i] = stack[t][i]
      BY <1>4, <2>3
    <3>2. CASE k = n
      <4>1. Guarded(graph, m, stack[t][i].obj) /\ <<m, stack[t][i].obj, t>> \in seen
        BY <1>4, <3>1, CallersMarked
      <4>2. stack[t][i].obj = x
        BY <1>4, <2>3, <3>1, <3>2
      <4> QED BY <1>1, <4>1, <4>2
    <3>3. CASE k # n
      BY <1>4, <1>5, <2>3, <3>1, <3>3 DEF ThreadInv, MarkInv
    <3> QED BY <3>2, <3>3
  <2> QED BY <1>1, <1>4, <2>2, <2>3 DEF MarkInv
<1>8. \A y : Waits(stack[t], y) => Waits(stack'[t], y)
  BY <1>4, <1>5 DEF Waits, IsTodo
<1>9. WorkInv(t)'
  <2>1. WorkInv(t) /\ Reached(t) /\ Blamed(t) /\ (err[t] = None => Listed(t) /\ Faultless(t))
    BY <1>4, <1>5 DEF ThreadInv, WorkInv
  <2>2. Reached(t)'
    BY <1>1, <1>4, <2>1 DEF Reached
  <2>3. Blamed(t)' /\ Listed(t)' /\ Faultless(t)'
    BY <1>1, <1>5, <1>8, <2>1 DEF Blamed, RanDeep, Listed, Faultless
  <2> QED BY <2>2, <2>3 DEF WorkInv
<1>10. CycleInv(t)'
  <2>1. CycleInv(t)
    BY <1>5 DEF ThreadInv
  <2>2. stack'[t] # <<>>
    BY <1>4, EmptySeq
  <2>3. \A k \in 1 .. n : stack'[t][k].at = "body" => stack[t][k].at = "body" /\ stack'[t][k] = stack[t][k]
    BY <1>4
  <2>4. Len(stack'[t]) = Len(stack[t])
    BY <1>2 DEF Goes
  <2>5. \A k \in 1 .. n : k < n => k + 1 \in 1 .. n
    BY <1>4
  <2> QED BY <1>1, <1>4, <2>1, <2>2, <2>3, <2>4, <2>5 DEF CycleInv
<1> QED BY <1>3, <1>6, <1>7, <1>9, <1>10 DEF ThreadInv

LEMMA FaultType ==
  ASSUME NEW m, NEW x
  PROVE  Fault(graph, m, x) \in {None, "RecursionError", "AddrError"}
BY DEF Fault

LEMMA MarkKeeps ==
  ASSUME IInv, NEW t \in Threads, Mark(t)
  PROVE  SharedInv' /\ OthersStay(t) /\ ThreadInv(t)'
<1> DEFINE n == Len(stack[t])
           m == call[t].method
           r == call[t].root
           x == Top(t).obj
           w == Walks(graph, m, x)
<1>1. /\ stack[t] # <<>> /\ Top(t).at = "mark" /\ Move(t, "body", w)
      /\ seen' = (IF Guarded(graph, m, x) THEN seen \cup {<<m, x, t>>} ELSE seen)
      /\ err' = [err EXCEPT ![t] = Fault(graph, m, x)]
      /\ done' = [done EXCEPT ![t] = @ \cup {x}]
      /\ graph' = graph /\ call' = call
  BY DEF Mark, In, Mine, Key, IsGuarded
<1>2. m \in Methods /\ graph \in Graphs /\ x \in DOMAIN graph /\ r \in DOMAIN graph
  BY <1>1, TopTyped DEF FrameSet
<1>3. w \in Seq(DOMAIN graph)
  BY <1>2, WalksTyped
<1>4. \A y : (\E i \in DOMAIN w : w[i] = y) <=> y \in Kids(graph, m, x)
  BY DEF Kids
<1> HIDE DEF w
<1>5. /\ Goes(t, "body", w)
      /\ DOMAIN stack' = Threads /\ \A u \in Threads \ {t} : stack'[u] = stack[u]
  BY <1>1, <1>3, MoveGoes
<1>6. SharedInv /\ ThreadInv(t)
  BY DEF IInv
<1>7. SharedInv' /\ OthersStay(t)
  BY <1>1, <1>2, <1>5, <1>6, FaultType DEF SharedInv, OthersStay
<1>8. err'[t] = Fault(graph, m, x) /\ done'[t] = done[t] \cup {x}
  BY <1>1, <1>6 DEF SharedInv
<1>9. /\ DOMAIN stack[t] = 1 .. n /\ n \in Nat /\ n \in 1 .. n /\ DOMAIN stack'[t] = 1 .. n
      /\ \A k \in 1 .. n : stack'[t][k].obj = stack[t][k].obj
      /\ \A k \in 1 .. n : k # n => stack[t][k].at = "body" /\ stack'[t][k] = stack[t][k]
      /\ stack[t][n] = Top(t) /\ stack'[t][n].at = "body" /\ stack'[t][n].todo = w
  BY <1>5, GoesFrames
<1>10. err[t] = None /\ stack[t][n].todo = <<>>
  BY <1>1, <1>6, <1>9 DEF ThreadInv, StackInv
<1>11. StackInv(t)' /\ PathInv(t)'
  BY <1>1, <1>3, <1>4, <1>5, GoesKeepsStack
<1>12. MarkInv(t)'
  <2>1. ASSUME NEW mm \in Methods, NEW y \in DOMAIN graph
        PROVE  <<mm, y, t>> \in seen' <=> InMethod(t, mm, y)'
    <3>1. <<mm, y, t>> \in seen <=> InMethod(t, mm, y)
      BY <1>6 DEF ThreadInv, MarkInv
    <3>2. InMethod(t, mm, y)' <=> InMethod(t, mm, y) \/ (m = mm /\ x = y /\ Guarded(graph, mm, y))
      BY <1>1, <1>9 DEF InMethod
    <3> QED BY <1>1, <3>1, <3>2
  <2>2. ASSUME NEW i \in 1 .. n, NEW k \in 1 .. n, stack'[t][i].obj = stack'[t][k].obj
        PROVE  i = k
    BY <1>1, <1>6, <1>9, <2>2 DEF ThreadInv, MarkInv
  <2> QED BY <1>1, <1>9, <2>1, <2>2 DEF MarkInv
<1>13. /\ WorkInv(t) /\ Reached(t) /\ Blamed(t) /\ Listed(t) /\ Faultless(t)
  BY <1>2, <1>6, <1>10 DEF ThreadInv, WorkInv
<1>14. \A y : Waits(stack[t], y) => Waits(stack'[t], y)
  BY <1>9, <1>10 DEF Waits, IsTodo
<1>15. x \in ReachBy(graph, m, r)
  BY <1>9, FramesReached
<1>16. WorkInv(t)'
  <2>1. Reached(t)'
    BY <1>1, <1>8, <1>9, <1>13, <1>15 DEF Reached
  <2>2. Blamed(t)'
    BY <1>1, <1>8, <1>15, FaultType DEF Blamed, None
  <2>3. \A y \in Kids(graph, m, x) : Waits(stack'[t], y)
    BY <1>4, <1>9 DEF Waits, IsTodo
  <2>4. Listed(t)'
    BY <1>1, <1>8, <1>13, <1>14, <2>3 DEF Listed
  <2>5. err'[t] = None => Faultless(t)'
    BY <1>1, <1>8, <1>13 DEF Faultless
  <2> QED BY <2>1, <2>2, <2>4, <2>5 DEF WorkInv
<1>17. CycleInv(t)'
  <2>1. CycleInv(t)
    BY <1>6 DEF ThreadInv
  <2>2. stack'[t] # <<>> /\ Len(stack'[t]) = n
    BY <1>5, <1>9, EmptySeq DEF Goes
  <2>3. err'[t] # "CycleError"
    BY <1>8, FaultType DEF None
  <2>4. ASSUME m = "encode_for", NEW k \in 1 .. n, NEW y \in Kids(graph, "encode_for", stack'[t][k].obj)
        PROVE  \/ IsTodo(stack'[t][k], y)
               \/ k < n /\ stack'[t][k + 1].obj = y
               \/ ~CyclicBy(graph, "encode_for", y)
    <3>1. CASE k = n
      BY <1>4, <1>9, <2>4, <3>1 DEF IsTodo
    <3>2. CASE k # n
      <4>1. k + 1 \in 1 .. n
        BY <1>9, <3>2
      <4> QED BY <1>9, <1>10, <2>1, <2>4, <3>2, <4>1 DEF CycleInv
    <3> QED BY <3>1, <3>2
  <2> QED BY <1>1, <1>9, <2>2, <2>3, <2>4 DEF CycleInv
<1> QED BY <1>7, <1>11, <1>12, <1>16, <1>17 DEF ThreadInv

LEMMA DescendKeeps ==
  ASSUME IInv, NEW t \in Threads, Descend(t)
  PROVE  SharedInv' /\ OthersStay(t) /\ ThreadInv(t)'
<1> DEFINE n == Len(stack[t])
           m == call[t].method
           y0 == Head(Top(t).todo)
<1>1. Calls(t) /\ OthersStay(t)
  BY DescendCalls
<1>2. /\ stack[t] # <<>> /\ Top(t).at = "body" /\ Top(t).todo # <<>> /\ err[t] = None
      /\ graph' = graph /\ seen' = seen /\ call' = call /\ done' = done /\ err' = err
  BY DEF Descend, In
<1>3. SharedInv /\ ThreadInv(t)
  BY DEF IInv
<1>4. SharedInv'
  BY <1>1, <1>2, <1>3 DEF SharedInv, OthersStay
<1>5. /\ n \in Nat /\ n > 0 /\ DOMAIN stack[t] = 1 .. n /\ n \in 1 .. n /\ Top(t) \in FrameSet
      /\ m \in Methods
  BY <1>2, TopTyped
<1>6. DOMAIN stack'[t] = 1 .. n + 1 /\ Len(stack'[t]) = n + 1
  BY <1>1, LenProperties DEF Calls
<1>7. /\ stack[t][n] = Top(t)
      /\ stack'[t][n].obj = Top(t).obj /\ stack'[t][n].at = "body"
      /\ stack'[t][n].todo = Tail(Top(t).todo)
      /\ stack'[t][n + 1].obj = y0 /\ stack'[t][n + 1].at = "look"
      /\ stack'[t][n + 1].todo = <<>>
  BY <1>1 DEF Calls, Frame, Top
<1>8. \A k \in 1 .. n : k # n => stack'[t][k] = stack[t][k]
  BY <1>1, <1>5 DEF Calls
<1>9. \A k \in 1 .. n : stack'[t][k].obj = stack[t][k].obj /\ stack'[t][k].at = stack[t][k].at
  BY <1>2, <1>7, <1>8
<1>10. \A k \in 1 .. n + 1 : k \in 1 .. n \/ k = n + 1
  BY <1>5
<1>11. 1 .. n \subseteq 1 .. n + 1 /\ n + 1 \in 1 .. n + 1
  BY <1>5
<1>12. StackInv(t)' /\ PathInv(t)'
  BY CallsKeepsStack
<1>13. \A y : IsTodo(Top(t), y) => y = y0 \/ IsTodo(stack'[t][n], y)
  <2> SUFFICES ASSUME NEW i \in DOMAIN Top(t).todo, Top(t).todo[i] # y0
               PROVE  \E j \in DOMAIN Tail(Top(t).todo) : Tail(Top(t).todo)[j] = Top(t).todo[i]
    BY <1>7 DEF IsTodo
  <2>1. Top(t).todo \in Seq(DOMAIN graph)
    BY <1>5 DEF FrameSet
  <2>2. y0 = Top(t).todo[1] /\ Len(Top(t).todo) \in Nat /\ DOMAIN Top(t).todo = 1 .. Len(Top(t).todo)
    BY <1>2, <2>1, HeadTailProperties, LenProperties
  <2>3. i \in 2 .. Len(Top(t).todo)
    BY <2>2
  <2>4. /\ Tail(Top(t).todo) \in Seq(DOMAIN graph) /\ Len(Tail(Top(t).todo)) = Len(Top(t).todo) - 1
        /\ \A j \in 1 .. Len(Tail(Top(t).todo)) : Tail(Top(t).todo)[j] = Top(t).todo[j + 1]
    BY <1>2, <2>1, HeadTailProperties
  <2>5. i - 1 \in 1 .. Len(Tail(Top(t).todo)) /\ Tail(Top(t).todo)[i - 1] = Top(t).todo[i]
    BY <2>2, <2>3, <2>4
  <2> QED BY <2>4, <2>5, LenProperties
<1>14. MarkInv(t)'
  <2>1. \A mm \in Methods, y \in DOMAIN graph : InMethod(t, mm, y)' <=> InMethod(t, mm, y)
    BY <1>2, <1>5, <1>6, <1>7, <1>9, <1>10, <1>11 DEF InMethod
  <2>2. \A mm \in Methods, y \in DOMAIN graph : <<mm, y, t>> \in seen' <=> InMethod(t, mm, y)'
    BY <1>2, <1>3, <2>1 DEF ThreadInv, MarkInv
  <2>3. ASSUME NEW i \in 1 .. n + 1, NEW k \in 1 .. n + 1, stack'[t][i].obj = stack'[t][k].obj,
               stack'[t][i].at = "body", stack'[t][k].at \in {"mark", "body"}
        PROVE  i = k
    <3>1. i \in 1 .. n /\ k \in 1 .. n
      BY <1>7, <1>10, <2>3
    <3> QED BY <1>3, <1>5, <1>9, <2>3, <3>1 DEF ThreadInv, MarkInv
  <2> QED BY <1>2, <1>6, <2>2, <2>3 DEF MarkInv
<1>15. ASSUME NEW y, Waits(stack[t], y)
       PROVE  Waits(stack'[t], y)
  <2>1. PICK k \in 1 .. n : stack[t][k].obj = y \/ IsTodo(stack[t][k], y)
    BY <1>5, <1>15 DEF Waits
  <2>2. CASE stack[t][k].obj = y
    BY <1>6, <1>9, <1>11, <2>2 DEF Waits
  <2>3. CASE k # n /\ IsTodo(stack[t][k], y)
    BY <1>6, <1>8, <1>11, <2>3 DEF Waits
  <2>4. CASE k = n /\ IsTodo(stack[t][k], y)
    <3>1. y = y0 \/ IsTodo(stack'[t][n], y)
      BY <1>7, <1>13, <2>4
    <3> QED BY <1>5, <1>6, <1>7, <1>11, <3>1 DEF Waits
  <2> QED BY <2>1, <2>2, <2>3, <2>4
<1>16. WorkInv(t)'
  <2>1. WorkInv(t) /\ Reached(t) /\ Blamed(t) /\ Listed(t) /\ Faultless(t)
    BY <1>2, <1>3, <1>5 DEF ThreadInv, WorkInv
  <2>2. Reached(t)'
    <3>1. \A k \in 1 .. n : stack'[t][k].obj \in done[t]
      <4>1. \A k \in 1 .. n : stack[t][k].at = "body"
        BY <1>2, <1>3, <1>5, <1>7 DEF ThreadInv, StackInv
      <4> QED BY <1>5, <1>9, <2>1, <4>1 DEF Reached
    <3> QED BY <1>2, <1>6, <1>7, <1>10, <2>1, <3>1 DEF Reached
  <2>3. Blamed(t)' /\ Listed(t)' /\ Faultless(t)'
    BY <1>2, <1>15, <2>1 DEF Blamed, RanDeep, Listed, Faultless
  <2> QED BY <2>2, <2>3 DEF WorkInv
<1>17. CycleInv(t)'
  <2>1. CycleInv(t)
    BY <1>3 DEF ThreadInv
  <2>2. ASSUME m = "encode_for", NEW k \in 1 .. n, NEW y \in Kids(graph, "encode_for", stack'[t][k].obj)
        PROVE  \/ IsTodo(stack'[t][k], y)
               \/ k < n + 1 /\ stack'[t][k + 1].obj = y
               \/ ~CyclicBy(graph, "encode_for", y)
    <3>0. \/ IsTodo(stack[t][k], y)
          \/ k < n /\ stack[t][k + 1].obj = y
          \/ ~CyclicBy(graph, "encode_for", y)
      <4>1. stack[t][k].at = "body" /\ stack[t][k].obj = stack'[t][k].obj
        BY <1>2, <1>3, <1>5, <1>7, <1>9 DEF ThreadInv, StackInv
      <4> QED BY <1>2, <1>5, <2>1, <2>2, <4>1 DEF CycleInv
    <3>1. CASE k = n
      BY <1>5, <1>7, <1>13, <3>0, <3>1
    <3>2. CASE k # n
      <4>1. k + 1 \in 1 .. n /\ k < n + 1
        BY <1>5, <3>2
      <4> QED BY <1>8, <1>9, <3>0, <3>2, <4>1
    <3> QED BY <3>1, <3>2
  <2>3. stack'[t] # <<>>
    BY <1>5, <1>6, EmptySeq
  <2> QED BY <1>2, <1>6, <1>7, <1>10, <2>2, <2>3 DEF CycleInv, None
<1> QED BY <1>1, <1>4, <1>12, <1>14, <1>16, <1>17 DEF ThreadInv

\* At the recursion limit, that many different objects are inside each other.
LEMMA DeepMeansMany ==
  ASSUME IInv, NEW t \in Threads, In(t, "body"), Len(stack[t]) = MaxDepth
  PROVE  Cardinality(ReachBy(graph, call[t].method, call[t].root)) >= MaxDepth
<1> DEFINE n == Len(stack[t])
           R == ReachBy(graph, call[t].method, call[t].root)
           f == [k \in 1 .. n |-> stack[t][k].obj]
<1>1. stack[t] # <<>> /\ stack[t][n].at = "body"
  BY DEF In, Top
<1>2. n \in Nat /\ DOMAIN stack[t] = 1 .. n /\ graph \in Graphs
  BY <1>1, TopTyped
<1>3. \A k \in 1 .. n : stack[t][k].at = "body"
  BY <1>1, <1>2 DEF IInv, ThreadInv, StackInv
<1>4. \A k \in 1 .. n : stack[t][k].obj \in R
  BY <1>2, FramesReached
<1>5. \A j, k \in 1 .. n : f[j] = f[k] => j = k
  BY <1>2, <1>3, BegunOnce
<1>6. IsFiniteSet(R)
  <2>1. IsFiniteSet(DOMAIN graph) /\ R \in SUBSET DOMAIN graph
    BY <1>2, GraphsAssumption DEF ReachBy
  <2> HIDE DEF R
  <2> QED BY <2>1, FS_Subset
<1> HIDE DEF R
<1>7. f \in Injection(1 .. n, R)
  BY <1>4, <1>5 DEF Injection, IsInjective
<1>8. IsFiniteSet(R) /\ Cardinality(1 .. n) <= Cardinality(R)
  BY <1>6, <1>7, FS_Injection
<1>9. Cardinality(1 .. n) = n
  BY <1>2, FS_Interval
<1>10. Cardinality(R) \in Nat
  BY <1>6, FS_CardinalityType
<1> QED BY <1>2, <1>8, <1>9, <1>10 DEF R

LEMMA TooDeepKeeps ==
  ASSUME IInv, NEW t \in Threads, TooDeep(t)
  PROVE  SharedInv' /\ OthersStay(t) /\ ThreadInv(t)'
<1> DEFINE n == Len(stack[t])
           m == call[t].method
<1>1. /\ stack[t] # <<>> /\ Top(t).at = "body" /\ err[t] = None /\ n = MaxDepth
      /\ err' = [err EXCEPT ![t] = "RecursionError"]
      /\ graph' = graph /\ seen' = seen /\ call' = call /\ done' = done /\ stack' = stack
  BY DEF TooDeep, In
<1>2. SharedInv /\ ThreadInv(t)
  BY DEF IInv
<1>3. SharedInv' /\ OthersStay(t)
  BY <1>1, <1>2 DEF SharedInv, OthersStay
<1>4. err'[t] = "RecursionError"
  BY <1>1, <1>2 DEF SharedInv
<1>5. m \in Methods /\ n \in Nat /\ DOMAIN stack[t] = 1 .. n
  BY <1>1, TopTyped
<1>6. \A k \in 1 .. n : stack[t][k].at = "body"
  BY <1>1, <1>2, <1>5 DEF ThreadInv, StackInv, Top
<1>7. StackInv(t)'
  BY <1>1, <1>2, <1>5, <1>6 DEF ThreadInv, StackInv, FrameSet
<1>8. PathInv(t)' /\ MarkInv(t)'
  BY <1>1, <1>2 DEF ThreadInv, PathInv, MarkInv, InMethod
<1>9. WorkInv(t) /\ Reached(t)
  BY <1>2, <1>5 DEF ThreadInv, WorkInv
<1>10. Reached(t)'
  BY <1>1, <1>9 DEF Reached
<1>11. Blamed(t)'
  <2>1. Cardinality(ReachBy(graph, m, call[t].root)) >= MaxDepth
    BY <1>1, DeepMeansMany DEF In
  <2> QED BY <1>1, <1>4, <2>1 DEF Blamed, RanDeep
<1>12. WorkInv(t)' /\ CycleInv(t)'
  BY <1>4, <1>10, <1>11 DEF WorkInv, CycleInv, None
<1> QED BY <1>3, <1>7, <1>8, <1>12 DEF ThreadInv

LEMMA LeaveKeeps ==
  ASSUME IInv, NEW t \in Threads, Leave(t)
  PROVE  SharedInv' /\ OthersStay(t) /\ ThreadInv(t)'
<1> DEFINE n == Len(stack[t])
           m == call[t].method
           r == call[t].root
           x == Top(t).obj
<1>1. /\ stack[t] # <<>> /\ Top(t).at = "body" /\ (Top(t).todo = <<>> \/ err[t] # None)
      /\ seen' = (IF Guarded(graph, m, x) THEN seen \ {<<m, x, t>>} ELSE seen)
      /\ graph' = graph /\ call' = call /\ err' = err /\ done' = done
  BY DEF Leave, In, Mine, Key, IsGuarded, Unmarked
<1>2. Ends(t) /\ DOMAIN stack' = Threads /\ \A u \in Threads \ {t} : stack'[u] = stack[u]
  BY <1>1, PopEnds DEF Leave
<1>3. SharedInv /\ ThreadInv(t)
  BY DEF IInv
<1>4. SharedInv' /\ OthersStay(t)
  BY <1>1, <1>2, <1>3 DEF SharedInv, OthersStay
<1>5. /\ DOMAIN stack[t] = 1 .. n /\ n \in Nat /\ n > 0 /\ n \in 1 .. n
      /\ DOMAIN stack'[t] = 1 .. n - 1 /\ Len(stack'[t]) = n - 1
      /\ \A k \in 1 .. n - 1 : k \in 1 .. n /\ k # n /\ stack'[t][k] = stack[t][k]
      /\ \A k \in 1 .. n : k # n => k \in 1 .. n - 1
  BY <1>2, EndsFrames DEF Ends
<1>6. /\ m \in Methods /\ graph \in Graphs /\ x \in DOMAIN graph /\ r \in DOMAIN graph
      /\ stack[t][n] = Top(t)
  BY <1>1, TopTyped DEF FrameSet, Top
<1>7. StackInv(t)' /\ PathInv(t)'
  BY <1>1, <1>2, EndsKeepsStack
<1>8. \A k \in 1 .. n - 1 : stack[t][k].at = "body" /\ stack[t][k].obj # x
  <2>1. \A k \in 1 .. n - 1 : stack[t][k].at = "body"
    BY <1>3, <1>5 DEF ThreadInv, StackInv
  <2> QED BY <1>1, <1>5, <1>6, <2>1, BegunOnce
<1>9. MarkInv(t)'
  <2>1. ASSUME NEW mm \in Methods, NEW y \in DOMAIN graph
        PROVE  <<mm, y, t>> \in seen' <=> InMethod(t, mm, y)'
    <3>1. <<mm, y, t>> \in seen <=> InMethod(t, mm, y)
      BY <1>3 DEF ThreadInv, MarkInv
    <3>2. CASE mm = m /\ y = x
      <4>1. ~InMethod(t, mm, y)'
        BY <1>5, <1>8, <3>2 DEF InMethod
      <4>2. ~Guarded(graph, m, x) => ~InMethod(t, mm, y)
        BY <3>2 DEF InMethod
      <4> QED BY <1>1, <3>1, <3>2, <4>1, <4>2
    <3>3. CASE ~(mm = m /\ y = x)
      <4>1. InMethod(t, mm, y)' <=> InMethod(t, mm, y)
        BY <1>1, <1>5, <1>6, <3>3 DEF InMethod
      <4> QED BY <1>1, <3>1, <3>3, <4>1
    <3> QED BY <3>2, <3>3
  <2>2. ASSUME NEW i \in 1 .. n - 1, NEW k \in 1 .. n - 1, stack'[t][i].obj = stack'[t][k].obj
        PROVE  i = k
    BY <1>5, <1>8, <2>2, BegunOnce
  <2> QED BY <1>1, <1>5, <2>1, <2>2 DEF MarkInv
<1>10. WorkInv(t) /\ Reached(t) /\ Blamed(t) /\ (err[t] = None => Listed(t) /\ Faultless(t))
  BY <1>3, <1>6 DEF ThreadInv, WorkInv
<1>11. x \in done[t]
  BY <1>1, <1>5, <1>6, <1>10 DEF Reached
<1>12. ASSUME err[t] = None, NEW y, Waits(stack[t], y), y \notin done[t]
       PROVE  Waits(stack'[t], y)
  <2>1. PICK k \in 1 .. n : stack[t][k].obj = y \/ IsTodo(stack[t][k], y)
    BY <1>5, <1>12 DEF Waits
  <2>2. k # n
    BY <1>1, <1>6, <1>11, <1>12, <2>1 DEF IsTodo
  <2> QED BY <1>5, <2>1, <2>2 DEF Waits
<1>13. WorkInv(t)'
  <2>1. Reached(t)'
    BY <1>1, <1>5, <1>10 DEF Reached
  <2>2. Blamed(t)' /\ (Faultless(t) => Faultless(t)')
    BY <1>1, <1>10 DEF Blamed, RanDeep, Faultless
  <2>3. err[t] = None => Listed(t)'
    BY <1>1, <1>10, <1>12 DEF Listed
  <2> QED BY <1>1, <1>10, <2>1, <2>2, <2>3 DEF WorkInv
<1>14. CycleInv(t)'
  <2>1. CycleInv(t)
    BY <1>3 DEF ThreadInv
  <2> SUFFICES ASSUME m = "encode_for"
               PROVE  CycleInv(t)'
    BY <1>1 DEF CycleInv
  <2>2. CASE err[t] # None
    BY <1>1, <2>1, <2>2 DEF CycleInv
  <2>3. CASE err[t] = None
    <3>1. ~CyclicBy(graph, m, x)
      <4>1. ASSUME NEW y \in Kids(graph, m, x) PROVE ~CyclicBy(graph, m, y)
        <5>1. ~IsTodo(stack[t][n], y)
          BY <1>1, <1>6, <2>3 DEF IsTodo
        <5>2. stack[t][n].at = "body" /\ stack[t][n].obj = x /\ ~(n < n)
          BY <1>1, <1>5, <1>6
        <5> QED BY <1>5, <2>1, <2>3, <5>1, <5>2 DEF CycleInv
      <4> QED BY <1>6, <4>1, AcyclicFromKids
    <3>2. stack'[t] = <<>> => ~CyclicBy(graph, m, r)
      <4> SUFFICES ASSUME stack'[t] = <<>> PROVE ~CyclicBy(graph, m, r)
        OBVIOUS
      <4>1. n = 1
        BY <1>2, <1>5, EmptySeq
      <4>2. x = r
        BY <1>1, <1>3, <1>6, <4>1 DEF ThreadInv, StackInv
      <4> QED BY <3>1, <4>2
    <3>3. ASSUME NEW k \in 1 .. n - 1, NEW y \in Kids(graph, m, stack'[t][k].obj)
          PROVE  \/ IsTodo(stack'[t][k], y)
                 \/ k < n - 1 /\ stack'[t][k + 1].obj = y
                 \/ ~CyclicBy(graph, m, y)
      <4>1. /\ k \in 1 .. n /\ stack'[t][k] = stack[t][k] /\ stack[t][k].at = "body"
        BY <1>5, <1>8
      <4>2. \/ IsTodo(stack[t][k], y)
            \/ k < n /\ stack[t][k + 1].obj = y
            \/ ~CyclicBy(graph, m, y)
        BY <1>5, <2>1, <2>3, <3>3, <4>1 DEF CycleInv
      <4>3. CASE k + 1 = n
        BY <1>6, <3>1, <4>1, <4>2, <4>3
      <4>4. CASE k + 1 # n
        <5>1. k + 1 \in 1 .. n - 1 /\ k < n - 1
          BY <1>5, <4>4
        <5> QED BY <1>5, <4>1, <4>2, <5>1
      <4> QED BY <4>3, <4>4
    <3> QED BY <1>1, <1>5, <2>3, <3>2, <3>3 DEF CycleInv, None
  <2> QED BY <2>2, <2>3
<1> QED BY <1>4, <1>7, <1>9, <1>13, <1>14 DEF ThreadInv

LEMMA CallKeeps ==
  ASSUME IInv, NEW t \in Threads, Call(t)
  PROVE  SharedInv' /\ OthersStay(t) /\ ThreadInv(t)'
<1>1. PICK m \in Methods, x \in DOMAIN graph :
        call' = [call EXCEPT ![t] = [method |-> m, root |-> x]] /\ Push(t, x)
  BY DEF Call
<1>2. /\ stack[t] = <<>> /\ graph' = graph /\ seen' = seen
      /\ err' = [err EXCEPT ![t] = None] /\ done' = [done EXCEPT ![t] = {}]
  BY DEF Call
<1>3. SharedInv /\ ThreadInv(t)
  BY DEF IInv
<1>4. /\ err'[t] = None /\ done'[t] = {} /\ call'[t] = [method |-> m, root |-> x]
      /\ DOMAIN err' = Threads /\ DOMAIN done' = Threads /\ DOMAIN call' = Threads
      /\ \A u \in Threads \ {t} : err'[u] = err[u] /\ done'[u] = done[u] /\ call'[u] = call[u]
  BY <1>1, <1>2, <1>3 DEF SharedInv
<1>5. stack'[t] = <<Frame(x)>> /\ DOMAIN stack' = Threads /\ \A u \in Threads \ {t} : stack'[u] = stack[u]
  BY <1>1, <1>2, <1>3 DEF SharedInv, Push
<1>6. SharedInv' /\ OthersStay(t)
  BY <1>2, <1>3, <1>4, <1>5 DEF SharedInv, OthersStay
<1>7. /\ DOMAIN stack'[t] = {1} /\ Len(stack'[t]) = 1 /\ stack'[t][1] = Frame(x)
      /\ stack'[t] # <<>>
  BY <1>5
<1>8. stack'[t] \in Seq(FrameSet)'
  <2>1. Frame(x) \in FrameSet'
    BY <1>2, EmptySeq DEF Frame, FrameSet
  <2> QED BY <1>5, <2>1, ShortSeqs
<1>9. StackInv(t)'
  BY <1>2, <1>4, <1>7, <1>8, DepthAssumption DEF StackInv, Frame
<1>10. PathInv(t)'
  BY <1>7 DEF PathInv, IsTodo, Frame
<1>11. MarkInv(t)'
  <2>1. \A mm \in Methods, y \in DOMAIN graph : ~InMethod(t, mm, y) /\ ~InMethod(t, mm, y)'
    BY <1>2, <1>7, EmptySeq DEF InMethod, Frame
  <2> QED BY <1>2, <1>3, <1>7, <2>1 DEF ThreadInv, MarkInv
<1>12. WorkInv(t)'
  <2>1. Reached(t)'
    BY <1>4, <1>7 DEF Reached, Frame
  <2>2. Listed(t)' /\ Faultless(t)' /\ Blamed(t)'
    BY <1>4, <1>7 DEF Listed, Waits, Faultless, Blamed, Frame, None
  <2> QED BY <2>1, <2>2 DEF WorkInv
<1>13. CycleInv(t)'
  BY <1>4, <1>7 DEF CycleInv, Frame, None
<1> QED BY <1>6, <1>9, <1>10, <1>11, <1>12, <1>13 DEF ThreadInv

-----------------------------------------------------------------------------
(* The theorems. *)

LEMMA InvInit ==
  ASSUME Init PROVE IInv
<1>1. SharedInv
  BY DEF Init, SharedInv
<1>2. ASSUME NEW t \in Threads PROVE ThreadInv(t)
  <2>1. /\ stack[t] = <<>> /\ call[t] = [method |-> None, root |-> None] /\ seen = {}
        /\ err[t] = None /\ None \notin Methods
    BY DEF Init, None, Methods
  <2>2. StackInv(t) /\ PathInv(t)
    BY <2>1, EmptySeq, DepthAssumption DEF StackInv, PathInv
  <2>3. MarkInv(t) /\ WorkInv(t) /\ CycleInv(t)
    BY <2>1 DEF MarkInv, InMethod, WorkInv, CycleInv, Methods
  <2> QED BY <2>2, <2>3 DEF ThreadInv
<1> QED BY <1>1, <1>2 DEF IInv

LEMMA InvNext ==
  ASSUME IInv, [Next]_vars PROVE IInv'
<1>1. CASE UNCHANGED vars
  <2>1. SharedInv'
    BY <1>1 DEF vars, IInv, SharedInv
  <2>2. ASSUME NEW t \in Threads PROVE ThreadInv(t)'
    <3>1. StackInv(t) /\ PathInv(t) /\ MarkInv(t) /\ WorkInv(t) /\ CycleInv(t)
      BY DEF IInv, ThreadInv
    <3>2. StackInv(t)'
      BY <1>1, <3>1 DEF vars, StackInv, FrameSet
    <3>3. PathInv(t)'
      BY <1>1, <3>1 DEF vars, PathInv
    <3>4. MarkInv(t)'
      BY <1>1, <3>1 DEF vars, MarkInv, InMethod
    <3>5. WorkInv(t)'
      BY <1>1, <3>1 DEF vars, WorkInv, Reached, Listed, Faultless, Blamed, RanDeep
    <3>6. CycleInv(t)'
      BY <1>1, <3>1 DEF vars, CycleInv
    <3> QED BY <3>2, <3>3, <3>4, <3>5, <3>6 DEF ThreadInv
  <2> QED BY <2>1, <2>2 DEF IInv
<1>2. ASSUME NEW t \in Threads, Call(t) \/ Step(t) PROVE IInv'
  <2>1. SharedInv' /\ OthersStay(t) /\ ThreadInv(t)'
    BY <1>2, CallKeeps, OtherwiseKeeps, FreshKeeps, MarkKeeps, DescendKeeps, TooDeepKeeps, LeaveKeeps
    DEF Step
  <2>2. \A u \in Threads : u # t => ThreadInv(u)'
    BY <2>1, OthersKeepInv
  <2> QED BY <2>1, <2>2 DEF IInv
<1> QED BY <1>1, <1>2 DEF Next

LEMMA Invariant == Spec => []IInv
<1>1. Init => IInv
  BY InvInit
<1>2. IInv /\ [Next]_vars => IInv'
  BY InvNext
<1> QED BY <1>1, <1>2, PTL DEF Spec

\* Marks belong to calls that are under way, and a walk stays under the recursion limit.
THEOREM TypeCorrect == Spec => []TypeOK
<1>1. IInv => TypeOK
  <2> SUFFICES ASSUME IInv PROVE TypeOK
    OBVIOUS
  <2>1. ASSUME NEW mark \in seen PROVE stack[mark[3]] # <<>>
    <3>1. /\ mark[1] \in Methods /\ mark[2] \in DOMAIN graph /\ mark[3] \in Threads
          /\ mark = <<mark[1], mark[2], mark[3]>>
      BY DEF IInv, SharedInv
    <3>2. InMethod(mark[3], mark[1], mark[2])
      BY <3>1 DEF IInv, ThreadInv, MarkInv
    <3> QED BY <3>2, EmptySeq DEF InMethod
  <2>2. ASSUME NEW t \in Threads
        PROVE  /\ err[t] \in {None, "CycleError", "AddrError", "RecursionError"}
               /\ Len(stack[t]) <= MaxDepth
    BY DEF IInv, SharedInv, ThreadInv, StackInv
  <2>3. \A t \in Threads : done[t] \subseteq DOMAIN graph
    BY DEF IInv, SharedInv
  <2>4. ASSUME NEW t \in Threads, NEW k \in DOMAIN stack[t]
        PROVE  stack[t][k].obj \in DOMAIN graph /\ stack[t][k].at \in {"look", "mark", "body"}
    <3>1. stack[t] \in Seq(FrameSet)
      BY DEF IInv, ThreadInv, StackInv
    <3>2. stack[t][k] \in FrameSet
      BY <3>1, ElementOfSeq, LenProperties
    <3> QED BY <3>2 DEF FrameSet
  <2> QED BY <2>1, <2>2, <2>3, <2>4 DEF TypeOK, IInv, SharedInv
<1> QED BY <1>1, Invariant, PTL

\* The marks are exactly the guarded methods the threads are in, and no thread is twice
\* in the method of one object: the wrapper's finally clause undoes each mark once.
THEOREM MarksHold == Spec => []MarksAreFrames
<1>1. IInv => MarksAreFrames
  <2> SUFFICES ASSUME IInv PROVE MarksAreFrames
    OBVIOUS
  <2> DEFINE marks == {mark \in Methods \X (DOMAIN graph) \X Threads :
               \E k \in DOMAIN stack[mark[3]] :
                 /\ stack[mark[3]][k].at = "body" /\ stack[mark[3]][k].obj = mark[2]
                 /\ call[mark[3]].method = mark[1] /\ Guarded(graph, mark[1], mark[2])}
  <2>1. ASSUME NEW mark \in Methods \X (DOMAIN graph) \X Threads
        PROVE  mark \in seen <=> mark \in marks
    <3>1. /\ mark[1] \in Methods /\ mark[2] \in DOMAIN graph /\ mark[3] \in Threads
          /\ mark = <<mark[1], mark[2], mark[3]>>
      OBVIOUS
    <3>2. mark \in seen <=> InMethod(mark[3], mark[1], mark[2])
      BY <3>1 DEF IInv, ThreadInv, MarkInv
    <3>3. mark \in marks <=> InMethod(mark[3], mark[1], mark[2])
      BY <3>1 DEF InMethod
    <3> QED BY <3>2, <3>3
  <2>2. seen = marks
    BY <2>1 DEF IInv, SharedInv
  <2>3. ASSUME NEW t \in Threads, NEW j \in DOMAIN stack[t], NEW k \in DOMAIN stack[t],
               stack[t][j].at = "body", stack[t][k].at = "body",
               stack[t][j].obj = stack[t][k].obj
        PROVE  j = k
    BY <2>3, BegunOnce
  <2> QED BY <2>2, <2>3 DEF MarksAreFrames
<1> QED BY <1>1, Invariant, PTL

\* What is reached by the walks of the two methods.
LEMMA ReachOfChecks ==
  ASSUME NEW x
  PROVE  Reach(graph, x, Checks) = ReachBy(graph, "check_against", x)
BY DEF Reach, ReachBy, Checks, Kids

LEMMA ReachOfEncodes ==
  ASSUME NEW x
  PROVE  Reach(graph, x, Encodes) = ReachBy(graph, "encode_for", x)
BY DEF Reach, ReachBy, Encodes, Kids

LEMMA CyclicOfEncodes ==
  ASSUME NEW x
  PROVE  Cyclic(graph, x, Encodes) <=> CyclicBy(graph, "encode_for", x)
<1>1. \A y : Encodes(graph, y) = Kids(graph, "encode_for", y)
  BY DEF Encodes, Kids
<1> QED BY <1>1, ReachOfEncodes DEF Cyclic, CyclicBy

\* A walk that ended without an exception has been at every object and found no fault.
LEMMA AllVisited ==
  ASSUME IInv, NEW t \in Threads, call[t].method \in Methods, stack[t] = <<>>, err[t] = None
  PROVE  /\ done[t] = ReachBy(graph, call[t].method, call[t].root)
         /\ \A x \in done[t] : Fault(graph, call[t].method, x) = None
<1> DEFINE m == call[t].method
           r == call[t].root
<1>1. Reached(t) /\ Listed(t) /\ Faultless(t)
  BY DEF IInv, ThreadInv, WorkInv
<1>2. \A y : ~Waits(stack[t], y)
  BY DEF Waits
<1>3. r \in done[t] /\ \A x \in done[t] : Kids(graph, m, x) \subseteq done[t]
  BY <1>1, <1>2 DEF Listed
<1>4. done[t] \in SUBSET DOMAIN graph
  BY DEF IInv, SharedInv
<1>5. ReachBy(graph, m, r) \subseteq done[t]
  BY <1>3, <1>4, ReachLeast
<1> QED BY <1>1, <1>5 DEF Reached, Faultless

\* Every check that ends without an exception has checked everything the instruction
\* refers to, through whatever cycles; and an exception is the fault of one of these
\* objects, or there were as many of them inside each other as Python's stack holds.
THEOREM ChecksReachEverything == Spec => []ChecksAll
<1>1. IInv => ChecksAll
  <2> SUFFICES ASSUME IInv, NEW t \in Threads, Ended(t, "check_against")
               PROVE  LET objects == Reach(graph, call[t].root, Checks)
                      IN  IF err[t] = None
                          THEN /\ done[t] = objects
                               /\ \A x \in objects : Fault(graph, "check_against", x) = None
                          ELSE \/ \E x \in objects : Fault(graph, "check_against", x) = err[t]
                               \/ RanDeep(t, objects)
    BY DEF ChecksAll
  <2> DEFINE objects == ReachBy(graph, "check_against", call[t].root)
  <2>1. /\ call[t].method = "check_against" /\ stack[t] = <<>> /\ "check_against" \in Methods
        /\ Reach(graph, call[t].root, Checks) = objects
    BY ReachOfChecks DEF Ended, Methods
  <2>2. CASE err[t] = None
    BY <2>1, <2>2, AllVisited
  <2>3. CASE err[t] # None
    <3>1. Blamed(t)
      BY <2>1 DEF IInv, ThreadInv, WorkInv
    <3>2. err[t] # "CycleError"
      BY <2>1, <3>1 DEF Blamed
    <3> HIDE DEF objects
    <3>3. (\E x \in objects : Fault(graph, "check_against", x) = err[t]) \/ RanDeep(t, objects)
      BY <2>1, <2>3, <3>1, <3>2 DEF Blamed, objects
    <3> QED BY <2>1, <2>3, <3>3
  <2> QED BY <2>2, <2>3
<1> QED BY <1>1, Invariant, PTL

\* An instruction is reported as cyclic only if its operands are, and encoded only if they
\* are not and none of them has a fault; any other exception is one of its objects' own,
\* or there were as many of them inside each other as Python's stack holds.
THEOREM CyclesAreReported == Spec => []CyclesReported
<1>1. IInv => CyclesReported
  <2> SUFFICES ASSUME IInv, NEW t \in Threads, Ended(t, "encode_for")
               PROVE  LET objects == Reach(graph, call[t].root, Encodes)
                          faults  == {Fault(graph, "encode_for", x) : x \in objects} \ {None}
                          cyclic  == Cyclic(graph, call[t].root, Encodes)
                      IN  /\ err[t] = "CycleError" => cyclic
                          /\ err[t] = None => ~cyclic /\ faults = {}
                          /\ err[t] \notin {None, "CycleError"} =>
                               err[t] \in faults \/ RanDeep(t, objects)
    BY DEF CyclesReported
  <2> DEFINE objects == ReachBy(graph, "encode_for", call[t].root)
             faults == {Fault(graph, "encode_for", x) : x \in objects} \ {None}
  <2>1. /\ call[t].method = "encode_for" /\ stack[t] = <<>> /\ "encode_for" \in Methods
        /\ Reach(graph, call[t].root, Encodes) = objects
        /\ Cyclic(graph, call[t].root, Encodes) <=> CyclicBy(graph, "encode_for", call[t].root)
    BY ReachOfEncodes, CyclicOfEncodes DEF Ended, Methods
  <2>2. CycleInv(t) /\ Blamed(t)
    BY <2>1 DEF IInv, ThreadInv, WorkInv
  <2>3. err[t] = "CycleError" => CyclicBy(graph, "encode_for", call[t].root)
    BY <2>1, <2>2 DEF CycleInv
  <2>4. err[t] = None => ~CyclicBy(graph, "encode_for", call[t].root)
    BY <2>1, <2>2 DEF CycleInv
  <2>5. err[t] = None => faults = {}
    BY <2>1, AllVisited
  <2>6. err[t] \notin {None, "CycleError"} => err[t] \in faults \/ RanDeep(t, objects)
    <3> HIDE DEF objects
    <3> QED BY <2>1, <2>2 DEF Blamed, objects
  <2> QED BY <2>1, <2>3, <2>4, <2>5, <2>6
<1> QED BY <1>1, Invariant, PTL
=============================================================================
