----------------------------- MODULE CycleGuard -----------------------------
(***************************************************************************)
(* unless_recursive(): the guard around the methods that walk the objects  *)
(* of a program.  check_against() ignores an object it is already in, since*)
(* every branch refers to itself through its ImmOffset; encode_for() raises*)
(* CycleError.  Threads that build scripts walk the same objects, and share*)
(* the set of marks.                                                       *)
(*                                                                         *)
(* An object is a record whose field "is" says what it is: op, with tgts   *)
(* and srcs; imem, with ref and offset; expr, an expression of a and b;    *)
(* offset, an ImmOffset with base and tgt; data, a DataExpr with obj;      *)
(* codeat, with obj and the address it comes to; mem and reg, with their   *)
(* addresses; imm and label.                                               *)
(*                                                                         *)
(* The set of marks belongs to one method of one class, but each object is *)
(* of one class: a mark here names the method and the object.              *)
(*                                                                         *)
(* A definition named X_Y is X with one plausible mistake Y: no action     *)
(* uses it, it shows that a property notices the mistake.                  *)
(***************************************************************************)
EXTENDS Integers, Sequences, FiniteSets

CONSTANTS
  Threads,
  Graphs,       \* functions from names to objects
  Ram, Code,    \* the RAM of the environment and the range of the code: <<first, end>>
  MaxDepth      \* Python's recursion limit

ASSUME DepthAssumption == MaxDepth \in Nat \ {0}

\* The objects of a program, which refer to each other by their names.
Object(names) ==
  [is : {"op"}, tgts : Seq(names), srcs : Seq(names)]
    \cup [is : {"imem"}, ref : names, offset : names]
    \cup [is : {"expr"}, a : names, b : names]
    \cup [is : {"offset"}, base : names, tgt : names]
    \cup [is : {"data"}, obj : names]
    \cup [is : {"codeat"}, obj : names, addr : Int]
    \cup [is : {"mem", "reg"}, addr : Int]
    \cup [is : {"imm", "label"}]
ASSUME GraphsAssumption ==
  \A g \in Graphs : IsFiniteSet(DOMAIN g) /\ g \in [DOMAIN g -> Object(DOMAIN g)]

Within(range, a) == range[1] <= a /\ a < range[2]

\* The regions the constructor of Env takes.  It looks at the two ends of RAM only:
\* code in the middle of RAM is accepted.
Accepted(ram, code) ==
  /\ code[1] <= code[2] /\ ram[1] <= ram[2]
  /\ ~Within(code, ram[1]) /\ ~Within(code, ram[2] - 1)
  /\ ram[1] % 4 = 0 /\ ram[2] % 4 = 0
ASSUME RegionAssumption == Accepted(Ram, Code)

VARIABLES
  graph,
  seen,      \* the marks: <<method, object, thread>>
  call,      \* each thread's last call from outside
  stack,     \* the calls it is in: the object, how far it is, what it will still walk
  err,       \* the exception on its way out, or the one its last call ended with
  done       \* the objects its last call has worked on
vars == <<graph, seen, call, stack, err, done>>

Methods == {"check_against", "encode_for"}
None == "none"

-----------------------------------------------------------------------------
(* What the methods do with an object. *)

\* What the value or the address of an object is computed from.
Reads(g, x) ==
  CASE g[x].is = "expr"   -> {g[x].a, g[x].b}
    [] g[x].is = "offset" -> {g[x].tgt}
    [] g[x].is \in {"codeat", "data"} -> {g[x].obj}
    [] OTHER -> {}

\* The objects that kids leads to from x, x among them; and those of them in a cycle.
Reach(g, x, kids(_, _)) ==
  {y \in DOMAIN g :
     \A s \in SUBSET DOMAIN g : (x \in s /\ \A z \in s : kids(g, z) \subseteq s) => y \in s}
Cyclic(g, x, kids(_, _)) ==
  \E y \in Reach(g, x, kids) : \E z \in kids(g, y) : y \in Reach(g, z, kids)

\* The guarded methods.  Op, IMem and the expressions are always guarded; a register
\* and CodeAt, which override the check of Mem, are not when they are checked.
Guarded_OpOnly(g, m, x) == g[x].is = "op"
Guarded(g, m, x) ==
  IF m = "check_against" THEN g[x].is \in {"op", "imem", "expr", "offset", "mem"}
                         ELSE g[x].is # "imm"

\* The objects whose method a method calls, in order.  An op's first source and target
\* are encoded to compare them; then the first source is left out if they are equal.
OpEncodes(o) ==
  LET both == o.srcs # <<>> /\ o.tgts # <<>>
      rmw  == both /\ o.srcs[1] = o.tgts[1]
  IN  (IF both THEN <<o.srcs[1], o.tgts[1]>> ELSE <<>>)
        \o o.tgts \o (IF rmw THEN Tail(o.srcs) ELSE o.srcs)
OpChecks(o) == o.tgts \o o.srcs
IMemWalks(m, o) == IF m = "check_against" THEN <<o.ref, o.offset>> ELSE <<o.offset>>
ExprChecks(o) == <<o.a, o.b>>
OffsetChecks(o) == <<o.base, o.tgt>>
Walks(g, m, x) ==
  LET o == g[x]
  IN  CASE o.is = "imem" -> IMemWalks(m, o)
        [] o.is = "op" /\ m = "encode_for" -> OpEncodes(o)
        [] o.is = "op" /\ m = "check_against" -> OpChecks(o)
        [] o.is = "expr" /\ m = "check_against" -> ExprChecks(o)
        [] o.is = "offset" /\ m = "check_against" -> OffsetChecks(o)
        [] OTHER -> <<>>

\* Addresses that are refused: a register's outside of RAM, code's outside of the
\* code, and any other's outside of both.
RegOutside(o)    == o.is = "reg" /\ ~Within(Ram, o.addr)
CodeAtOutside(o) == o.is = "codeat" /\ ~Within(Code, o.addr)
MemOutside(o)    == o.is = "mem" /\ ~Within(Code, o.addr) /\ ~Within(Ram, o.addr)

\* What the method raises of its own.  Values are computed without a guard.
Fault(g, m, x) ==
  LET o == g[x]
      resolved == IF m = "check_against" THEN (IF o.is = "codeat" THEN {x} ELSE {})
                  ELSE IF o.is = "imem" THEN {o.ref} ELSE {x}
  IN  IF \E y \in resolved : Cyclic(g, y, Reads) THEN "RecursionError"
      ELSE IF /\ m = "check_against"
              /\ RegOutside(o) \/ CodeAtOutside(o) \/ MemOutside(o)
           THEN "AddrError"
      ELSE None

-----------------------------------------------------------------------------
(* The wrapper, a step of one thread at a time. *)

Key_AnyThread(m, x, t) == <<m, x, CHOOSE u \in Threads : TRUE>>
Key(m, x, t) == <<m, x, t>>

Frame(x) == [obj |-> x, at |-> "look", todo |-> <<>>]
Top(t) == stack[t][Len(stack[t])]
Push(t, x) == stack' = [stack EXCEPT ![t] = Append(@, Frame(x))]
Pop(t) == stack' = [stack EXCEPT ![t] = SubSeq(@, 1, Len(@) - 1)]
Move(t, at, todo) ==
  stack' = [stack EXCEPT ![t][Len(stack[t])] = [obj |-> @.obj, at |-> at, todo |-> todo]]
In(t, at) == stack[t] # <<>> /\ Top(t).at = at
Mine(t) == Key(call[t].method, Top(t).obj, t)
IsGuarded(t) == Guarded(graph, call[t].method, Top(t).obj)

Init ==
  /\ graph \in Graphs /\ seen = {}
  /\ call = [t \in Threads |-> [method |-> None, root |-> None]]
  /\ stack = [t \in Threads |-> <<>>]
  /\ err = [t \in Threads |-> None] /\ done = [t \in Threads |-> {}]

\* check() and encode() call the methods of instructions.
Call(t) ==
  /\ stack[t] = <<>>
  /\ \E m \in Methods, x \in DOMAIN graph :
       /\ graph[x].is = "op" \/ (graph[x].is = "data" /\ m = "encode_for")
       /\ call' = [call EXCEPT ![t] = [method |-> m, root |-> x]]
       /\ Push(t, x)
  /\ err' = [err EXCEPT ![t] = None] /\ done' = [done EXCEPT ![t] = {}]
  /\ UNCHANGED <<graph, seen>>

\* if key in seen: return otherwise(...)
Otherwise(t) ==
  /\ In(t, "look") /\ IsGuarded(t) /\ Mine(t) \in seen
  /\ err' = [err EXCEPT ![t] = IF call[t].method = "encode_for" THEN "CycleError" ELSE @]
  /\ Pop(t)
  /\ UNCHANGED <<graph, seen, call, done>>
Fresh(t) ==
  /\ In(t, "look") /\ (IsGuarded(t) => Mine(t) \notin seen)
  /\ Move(t, "mark", <<>>)
  /\ UNCHANGED <<graph, seen, call, err, done>>

\* seen.add(key), and the method itself begins.
Mark(t) ==
  /\ In(t, "mark")
  /\ LET m == call[t].method
         x == Top(t).obj
     IN  /\ seen' = IF IsGuarded(t) THEN seen \cup {Mine(t)} ELSE seen
         /\ err' = [err EXCEPT ![t] = Fault(graph, m, x)]
         /\ done' = [done EXCEPT ![t] = @ \cup {x}]
         /\ Move(t, "body", Walks(graph, m, x))
  /\ UNCHANGED <<graph, call>>

Descend(t) ==
  /\ In(t, "body") /\ err[t] = None /\ Top(t).todo # <<>>
  /\ Len(stack[t]) < MaxDepth
  /\ LET rest == [obj |-> Top(t).obj, at |-> "body", todo |-> Tail(Top(t).todo)]
     IN  stack' = [stack EXCEPT ![t] =
                     Append([@ EXCEPT ![Len(stack[t])] = rest], Frame(Head(Top(t).todo)))]
  /\ UNCHANGED <<graph, seen, call, err, done>>
TooDeep(t) ==
  /\ In(t, "body") /\ err[t] = None /\ Top(t).todo # <<>>
  /\ Len(stack[t]) = MaxDepth
  /\ err' = [err EXCEPT ![t] = "RecursionError"]
  /\ UNCHANGED <<graph, seen, call, stack, done>>

\* finally: seen.discard(key), on a return and under an exception.
Unmarked_NotOnError(s, key, e) == IF e = None THEN s \ {key} ELSE s
Unmarked(s, key, e) == s \ {key}
Leave(t) ==
  /\ In(t, "body") /\ (Top(t).todo = <<>> \/ err[t] # None)
  /\ seen' = IF IsGuarded(t) THEN Unmarked(seen, Mine(t), err[t]) ELSE seen
  /\ Pop(t)
  /\ UNCHANGED <<graph, call, err, done>>

Step(t) == Otherwise(t) \/ Fresh(t) \/ Mark(t) \/ Descend(t) \/ TooDeep(t) \/ Leave(t)
Next == \E t \in Threads : Call(t) \/ Step(t)
Spec == Init /\ [][Next]_vars

-----------------------------------------------------------------------------
(* Properties. *)

\* Marks name the objects of the program and never outlive the calls of their thread,
\* and a walk stays under the recursion limit.
TypeOK ==
  /\ graph \in Graphs
  /\ seen \subseteq Methods \X (DOMAIN graph) \X Threads
  /\ \A mark \in seen : stack[mark[3]] # <<>>
  /\ \A t \in Threads :
       /\ err[t] \in {None, "CycleError", "AddrError", "RecursionError"}
       /\ done[t] \subseteq DOMAIN graph
       /\ Len(stack[t]) <= MaxDepth
       /\ \A k \in DOMAIN stack[t] :
            stack[t][k].obj \in DOMAIN graph /\ stack[t][k].at \in {"look", "mark", "body"}

\* The marks are exactly the guarded methods the threads are in, whatever exception
\* they are left with, and no thread is twice in the method of one object.
MarksAreFrames ==
  /\ seen = {mark \in Methods \X (DOMAIN graph) \X Threads :
       \E k \in DOMAIN stack[mark[3]] :
         /\ stack[mark[3]][k].at = "body" /\ stack[mark[3]][k].obj = mark[2]
         /\ call[mark[3]].method = mark[1] /\ Guarded(graph, mark[1], mark[2])}
  /\ \A t \in Threads : \A j, k \in DOMAIN stack[t] :
       (stack[t][j].at = "body" /\ stack[t][k].at = "body" /\ stack[t][j].obj = stack[t][k].obj)
         => j = k

Checks(g, x)  == {Walks(g, "check_against", x)[k] : k \in DOMAIN Walks(g, "check_against", x)}
Encodes(g, x) == {Walks(g, "encode_for", x)[k] : k \in DOMAIN Walks(g, "encode_for", x)}
Ended(t, m) == call[t].method = m /\ stack[t] = <<>>

\* Enough different objects inside each other to reach the recursion limit: a walk in
\* circles is no such thing.
RanDeep(t, objects) == err[t] = "RecursionError" /\ Cardinality(objects) >= MaxDepth

\* A check that ends without an exception has checked every object the instruction
\* refers to, through whatever cycles, and none of them was wrong; an exception is
\* that of one of these objects.  Other threads make no difference.
ChecksAll ==
  \A t \in Threads : Ended(t, "check_against") =>
    LET objects == Reach(graph, call[t].root, Checks)
    IN  IF err[t] = None
        THEN done[t] = objects /\ \A x \in objects : Fault(graph, "check_against", x) = None
        ELSE \/ \E x \in objects : Fault(graph, "check_against", x) = err[t]
             \/ RanDeep(t, objects)

\* An instruction is reported as cyclic only if its operands are, and encoded only if
\* they are not; using an operand twice is no cycle.  Any other exception is one of
\* its objects' own, or the limit of a walk through that many objects.
CyclesReported ==
  \A t \in Threads : Ended(t, "encode_for") =>
    LET objects == Reach(graph, call[t].root, Encodes)
        faults  == {Fault(graph, "encode_for", x) : x \in objects} \ {None}
        cyclic  == Cyclic(graph, call[t].root, Encodes)
    IN  /\ err[t] = "CycleError" => cyclic
        /\ err[t] = None => ~cyclic /\ faults = {}
        /\ err[t] \notin {None, "CycleError"} => err[t] \in faults \/ RanDeep(t, objects)
=============================================================================
