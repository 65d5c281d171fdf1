-------------------------- MODULE ThreadInvariance --------------------------
(***************************************************************************)
(* The data-flow analysis of ThreadInvariance.cpp: the blocks of a         *)
(* function are on a work list; a block that is taken off it has all its   *)
(* instructions visited in order, and a verdict that changes puts the      *)
(* blocks of its users back on the list.                                   *)
(*                                                                         *)
(* A function is a graph of Cfg, whose code is the names of instructions,  *)
(* with [instr, kernel, args, pointers, globals]: the instructions, if it  *)
(* is a kernel, its arguments, those that are pointers, and the __local    *)
(* variables.  An instruction is a record [op, args, width, with]: with is *)
(* the lane, mask, address space, incoming blocks or storage it needs.     *)
(***************************************************************************)
EXTENDS Cfg, InvarianceLattice

CONSTANT Functions

VARIABLES
  fn,                 \* the function
  dt,                 \* its dominator tree
  inputDependences,   \* what ControlDependence found
  order,              \* the order in which a set of blocks is gone through
  variances,          \* the verdicts on instructions, arguments, variables
  blockVariances,     \* the verdicts on blocks
  queue,              \* the work list
  here, pos,          \* the block being analysed, 0 if none; the next visit
  globalInvariances,  \* the variables whose verdict was ever changed
  coarseDetected      \* a vector was loaded

vars == <<fn, dt, inputDependences, order, variances, blockVariances, queue,
          here, pos, globalInvariances, coarseDetected>>

Instructions == DOMAIN fn.instr
Constants == {"const", "undef"}

-----------------------------------------------------------------------------
\* ControlDependence::runOnFunction: the branches a block hangs on.
ControlInputs(f) ==
  LET pdom == PDom(f) IN
  [n \in Blocks(f) |->
     {m \in Blocks(f) : /\ Len(f.succ[m]) > 1
                        /\ m \notin pdom[n]
                        /\ \E s \in Range(f.succ[m]) : s \in pdom[n]}]

OutputDependence(b) == {n \in Blocks(fn) : b \in inputDependences[n]}

\* InitializeMap, and getInvariance of what is not in the map.
InitialVerdict(f, x) ==
  IF x \in f.args
    THEN ResetPointer(Verdict(1, IF f.kernel THEN "Invariant" ELSE "MaybeNonInvariant"),
                      IF x \in f.pointers THEN x ELSE "none")
  ELSE IF x \in f.globals THEN ResetPointer(Verdict(1, "Invariant"), x)
  ELSE Verdict(f.instr[x].width, "Unknown")

Names(f) == DOMAIN f.instr \cup f.args \cup f.globals

Init ==
  /\ fn \in Functions
  /\ dt = Dom(fn)
  /\ inputDependences = ControlInputs(fn)
  /\ order \in SetToSeqs(Blocks(fn))
  /\ variances = [x \in Names(fn) |-> InitialVerdict(fn, x)]
  /\ blockVariances = [b \in Blocks(fn) |-> Verdict(1, "Unknown")]
  /\ queue = fn.layout
  /\ here = 0 /\ pos = 1
  /\ globalInvariances = {}
  /\ coarseDetected = FALSE

-----------------------------------------------------------------------------
(***************************************************************************)
(* The visits work on what an analysis changes, as a record.               *)
(***************************************************************************)
Now == [v |-> variances, b |-> blockVariances, q |-> queue, g |-> globalInvariances]

Read(S, x) == IF x \in Constants THEN Verdict(1, "Invariant") ELSE S.v[x]

Wide(v, width) == IF Len(v) = width THEN v ELSE [l \in 1 .. width |-> v[1]]

\* A slip: a block that is on the list goes to its end once more.
PushAgain(q, blocks) == q \o SelectSeq(order, LAMBDA b : b \in blocks)

Push(q, blocks) ==
  q \o SelectSeq(order, LAMBDA b : b \in blocks /\ b \notin Range(q))

\* A slip: a PHI of the block itself is taken for visited, too.
OtherUserBlocks(x, own) ==
  {b \in Blocks(fn) \ {own} : \E i \in Range(fn.code[b]) : x \in Range(fn.instr[i].args)}

\* The blocks of x's users.  In its own block only PHIs come before x.
UserBlocks(x, own) ==
  {b \in Blocks(fn) : \E i \in Range(fn.code[b]) :
     x \in Range(fn.instr[i].args) /\ (b = own => fn.instr[i].op = "phi")}

BlockOf(x) == CHOOSE b \in Blocks(fn) : x \in Range(fn.code[b])
IsA(op, x) == x \in Instructions /\ fn.instr[x].op = op

\* A slip: users are visited again though the verdict is what it was.
UpdateAlways(S, x, result) ==
  [S EXCEPT !.v[x] = result, !.q = Push(@, UserBlocks(x, BlockOf(x)))]

UpdateInstruction(S, x, result) ==
  IF Same(S.v[x], result) THEN S
  ELSE LET out == IF IsA("br", x) THEN OutputDependence(BlockOf(x)) ELSE {}
       IN [S EXCEPT
             !.v[x] = result,
             !.b = [b \in Blocks(fn) |-> IF b \in out THEN MeetVerdict(@[b], result) ELSE @[b]],
             !.q = Push(@, UserBlocks(x, BlockOf(x)) \cup out)]

UpdateArgument(S, x, result) ==
  LET actual == MeetVerdict(S.v[x], result)
  IN IF Same(S.v[x], actual) THEN S
     ELSE [S EXCEPT !.v[x] = actual, !.q = Push(@, UserBlocks(x, 0))]

UpdateVariable(S, x, result) ==
  IF Same(S.v[x], result) THEN S
  ELSE [S EXCEPT !.v[x] = result, !.g = @ \cup {x}, !.q = Push(@, UserBlocks(x, 0))]

-----------------------------------------------------------------------------
MeetOf(S, args, width) ==
  FoldLeft(LAMBDA v, x : MeetVerdict(v, Read(S, x)), Verdict(width, "Unknown"), args)

\* applyStandardRule
StandardRule(S, x, i) == UpdateInstruction(S, x, MeetOf(S, i.args, i.width))

\* visitInstruction
VisitOther(S, x, i) ==
  UpdateInstruction(S, x, Verdict(i.width, "MaybeNonInvariant"))

VisitAlloca(S, x, i) ==
  UpdateInstruction(IF i.with = "static" THEN S ELSE VisitOther(S, x, i), x,
                    ResetPointer(Verdict(1, "Invariant"), x))

\* The levels a call is told to be an id of.
Levels(op) == CASE op = "global_id" -> {"local", "global"}
                [] op = "local_id"  -> {"local"}
                [] op = "group_id"  -> {"global"}

\* The ids come as a vector: a lane hangs on its own axis.
VisitId(S, x, i) ==
  LET lane(axis) == [kind |-> [d \in Dims |-> IF d[1] \in Levels(i.op) /\ d[2] = axis
                                                THEN "NonInvariant" ELSE "Invariant"],
                     base |-> "none"]
  IN UpdateInstruction(S, x, [l \in 1 .. i.width |-> lane(l - 1)])

\* A slip: the verdicts of the local level are taken, too.
WholeFrom(s, t) == [s EXCEPT !.kind = t.kind]

\* s with its verdicts of the global level taken from t.
GlobalFrom(s, t) ==
  [s EXCEPT !.kind = [d \in Dims |-> IF d[1] = "global" THEN t.kind[d] ELSE @[d]]]

\* The verdict that the result is variant gives way to the standard rule.  Of
\* a pointer that has no base the code goes on to ask for the type (line 286);
\* here nothing is lowered then.
VisitAtomic(S, x, i) ==
  LET S1   == UpdateInstruction(S, x, Verdict(i.width, "NonInvariant"))
      ptr  == Read(S1, i.args[1])
      base == ptr[1].base
      new  == [ptr EXCEPT ![1] = GlobalFrom(@, Scalar("NonInvariant"))]
      S2   == IF Same(new, ptr) \/ i.with # "global" THEN S1
              ELSE IF base \in fn.globals THEN UpdateVariable(S1, base, new)
              ELSE IF base \in fn.args THEN UpdateArgument(S1, base, new)
              ELSE S1
  IN StandardRule(S2, x, i)

\* with is the lane, 0 for one that is not known.
VisitInsertElement(S, x, i) ==
  IF i.with = 0 THEN StandardRule(S, x, i)
  ELSE UpdateInstruction(S, x,
         [Wide(Read(S, i.args[1]), i.width) EXCEPT ![i.with] = Read(S, i.args[2])[1]])

\* Of a lane that is not known, nothing is said.
VisitExtractElement(S, x, i) ==
  IF i.with = 0 THEN S
  ELSE UpdateInstruction(S, x, <<Read(S, i.args[1])[i.with]>>)

\* A mask is a ConstantVector only if an element of it, here 0, is undefined;
\* one of numbers is a ConstantDataVector or, of zeros, a ConstantAggregateZero.
\* Then every lane is the first one, as it is in a splat.
VisitShuffleVector(S, x, i) ==
  LET lhs == Wide(Read(S, i.args[1]), i.width)
      rhs == Wide(Read(S, i.args[2]), i.width)
      lane(m) == CASE m = 0            -> Scalar("Unknown")
                   [] m \in DOMAIN lhs -> lhs[m]
                   [] OTHER            -> rhs[m - Len(rhs)]
  IN UpdateInstruction(S, x,
       [l \in 1 .. i.width |-> IF 0 \in Range(i.with) THEN lane(i.with[l]) ELSE lhs[1]])

VisitLoad(S, x, i) == StandardRule(S, x, i)

StorePrivate(S, base, result) ==
  IF IsA("alloca", base) THEN UpdateInstruction(S, base, MeetVerdict(result, S.v[base]))
  ELSE IF base \in fn.args THEN UpdateArgument(S, base, result)
  ELSE S

\* What work-items of a group share can differ between groups only.
StoreLocal(S, base, result) ==
  LET new == [S.v[base] EXCEPT ![1] = GlobalFrom(@, result[1])]
  IN IF base \in fn.globals THEN UpdateVariable(S, base, new)
     ELSE IF base \in fn.args THEN UpdateArgument(S, base, new)
     ELSE S

\* args are value and pointer; with is the address space.
VisitStore(S, x, i) ==
  LET result == MeetOf(S, <<i.args[2], i.args[1]>>, 1)
      base   == Read(S, i.args[2])[1].base
      S1     == UpdateInstruction(S, x, result)
  IN CASE i.with = "private" -> StorePrivate(S1, base, result)
       [] i.with = "local"   -> StoreLocal(S1, base, result)
       [] i.with = "global"  -> S1

Condition(b) == fn.instr[Last(fn.code[b])].args[1]

ControlInvarianceForBlock(S, b) ==
  MeetVerdict(Verdict(1, "Invariant"),
              MeetOf(S, SetToSeq({Condition(m) : m \in inputDependences[b]}), 1))

\* A slip: how the incoming block was chosen is not looked at.
PHIByValues(S, x, i, b) == StandardRule(S, x, i)

\* args are what comes in, with the blocks it comes from.
VisitPHI(S, x, i, b) ==
  LET defined == {k \in DOMAIN i.args : i.args[k] # "undef"}
      aside   == {k \in defined : i.with[k] \notin dt[b] /\ b \notin dt[i.with[k]]}
      control == FoldLeft(LAMBDA v, k : MeetVerdict(v, ControlInvarianceForBlock(S, i.with[k])),
                          Verdict(i.width, "Unknown"), SetToSeq(aside))
      result  == MeetOf(S, i.args, i.width)
  IN UpdateInstruction(S, x,
       IF defined = DOMAIN i.args \/ Cardinality(defined) > 1
         THEN MeetVerdict(result, control) ELSE result)

VisitBranch(S, x, i) ==
  UpdateInstruction(S, x,
    IF i.args = <<>> THEN Verdict(1, "Unknown")
    ELSE JoinVerdict(Verdict(1, "Unknown"), Read(S, i.args[1])))

Visit(S, x, b) ==
  LET i == fn.instr[x] IN
  CASE i.op = "op"      -> StandardRule(S, x, i)
    [] i.op = "alloca"  -> VisitAlloca(S, x, i)
    [] i.op \in {"global_id", "local_id", "group_id"} -> VisitId(S, x, i)
    [] i.op = "atomic"  -> VisitAtomic(S, x, i)
    [] i.op = "insert"  -> VisitInsertElement(S, x, i)
    [] i.op = "extract" -> VisitExtractElement(S, x, i)
    [] i.op = "shuffle" -> VisitShuffleVector(S, x, i)
    [] i.op = "load"    -> VisitLoad(S, x, i)
    [] i.op = "store"   -> VisitStore(S, x, i)
    [] i.op = "phi"     -> VisitPHI(S, x, i, b)
    [] i.op = "br"      -> VisitBranch(S, x, i)
    [] OTHER            -> VisitOther(S, x, i)

-----------------------------------------------------------------------------
\* Build takes the first block of the work list.
TakeBlock ==
  /\ here = 0
  /\ queue # <<>>
  /\ here' = Head(queue)
  /\ queue' = Tail(queue)
  /\ pos' = 1
  /\ UNCHANGED <<fn, dt, inputDependences, order, variances, blockVariances,
                 globalInvariances, coarseDetected>>

VisitNext ==
  /\ here # 0
  /\ pos <= Len(fn.code[here])
  /\ LET x == fn.code[here][pos] IN
     \E S \in {Visit(Now, x, here)} :
        /\ variances' = S.v
        /\ blockVariances' = S.b
        /\ queue' = S.q
        /\ globalInvariances' = S.g
        /\ coarseDetected' = (coarseDetected \/ (IsA("load", x) /\ fn.instr[x].width > 1))
  /\ pos' = pos + 1
  /\ UNCHANGED <<fn, dt, inputDependences, order, here>>

EndBlock ==
  /\ here # 0
  /\ pos > Len(fn.code[here])
  /\ here' = 0
  /\ UNCHANGED <<fn, dt, inputDependences, order, variances, blockVariances,
                 queue, pos, globalInvariances, coarseDetected>>

Done == here = 0 /\ queue = <<>>
Ended == Done /\ UNCHANGED vars

Next == TakeBlock \/ VisitNext \/ EndBlock \/ Ended

Spec == Init /\ [][Next]_vars /\ WF_vars(Next)

-----------------------------------------------------------------------------
(***************************************************************************)
(* What a value hangs on, found without a work list: a node is a lane of a *)
(* value; Feeds(node) are the lanes it is computed from.                   *)
(***************************************************************************)
WidthOf(x) == IF x \in Instructions THEN fn.instr[x].width ELSE 1

Nodes == UNION {{x} \X (1 .. WidthOf(x)) : x \in Names(fn)}

\* The lanes of x that lane l of a value of some width is computed from.
LanesOf(x, width, l) ==
  IF x \in Constants THEN {}
  ELSE IF WidthOf(x) = width THEN {<<x, l>>} ELSE {x} \X (1 .. WidthOf(x))

\* Where a pointer points.
Base(x) ==
  LET base[y \in Names(fn)] ==
        IF IsA("op", y) THEN base[fn.instr[y].args[1]] ELSE y
  IN base[x]

IsPointer(x) == IsA("alloca", Base(x)) \/ Base(x) \in fn.pointers \cup fn.globals

\* The blocks where paths from m's successors meet, back edges left aside.
Joins(m) ==
  LET ahead == [n \in Blocks(fn) |-> {s \in Range(fn.succ[n]) : n \notin dt[s]}]
      next  == [n \in Reach(ahead, {m}) |-> ahead[n]]
      dom   == [n \in DOMAIN next |-> Behind(next, {m}, n)]
      df    == [n \in DOMAIN next |-> Frontier(dom, next, n)]
  IN UNION {df[n] : n \in Reach(df, next[m])}

\* The branches that decide whether, and how often, b is run.
Governing(b) ==
  LET pdom == PDom(fn)
      by == [n \in Blocks(fn) |->
               {m \in Blocks(fn) : /\ Len(fn.succ[m]) > 1
                                  /\ m \notin pdom[n] \ {n}
                                  /\ \E s \in Range(fn.succ[m]) : s \in pdom[n]}]
  IN Reach(by, by[b])

\* The branches that end the loops x takes values out of.
Ending(x) ==
  UNION {{m \in loop : ~(Range(fn.succ[m]) \subseteq loop)} :
         loop \in {l \in Range(Loops(fn)) :
                     /\ BlockOf(x) \notin l
                     /\ \E y \in Range(fn.instr[x].args) \cap Instructions : BlockOf(y) \in l}}

ConditionsOf(blocks) == UNION {LanesOf(Condition(m), 1, 1) : m \in blocks}

Stored(level, ptr) ==
  {s \in Instructions :
     LET i == fn.instr[s] IN
     /\ i.op = "store"
     /\ i.with = "private" \/ (i.with = "local" /\ level = "global")
     /\ Base(i.args[2]) = Base(ptr)}

\* What a store leaves in memory: its value, where, and whether it is run.
LeftBy(s, width, l) ==
  LET i == fn.instr[s]
  IN LanesOf(i.args[1], width, l) \cup LanesOf(i.args[2], 1, 1)
       \cup ConditionsOf(Governing(BlockOf(s)))

Operands(level, x, l) ==
  LET i == fn.instr[x] IN
  CASE i.op = "op" -> UNION {LanesOf(y, i.width, l) : y \in Range(i.args)}
    [] i.op = "insert" ->
         IF i.with = 0 THEN UNION {LanesOf(y, i.width, l) : y \in Range(i.args)}
         ELSE IF l = i.with THEN LanesOf(i.args[2], 1, 1)
         ELSE LanesOf(i.args[1], i.width, l)
    [] i.op = "extract" ->
         IF i.with = 0 THEN LanesOf(i.args[1], 0, l) \cup LanesOf(i.args[2], 1, 1)
         ELSE {<<i.args[1], i.with>>}
    [] i.op = "shuffle" ->
         LET m == i.with[l] IN
         IF m = 0 THEN {}
         ELSE IF m <= i.width THEN LanesOf(i.args[1], i.width, m)
         ELSE LanesOf(i.args[2], i.width, m - i.width)
    [] i.op \in {"load", "atomic"} ->
         UNION {LanesOf(y, i.width, l) : y \in Range(i.args)}
           \cup UNION {LeftBy(s, i.width, l) : s \in Stored(level, i.args[1])}
    [] i.op = "phi" ->
         UNION {LanesOf(y, i.width, l) : y \in Range(i.args)}
           \cup ConditionsOf({m \in Blocks(fn) : Len(fn.succ[m]) > 1 /\ BlockOf(x) \in Joins(m)})
    [] i.op = "br" -> UNION {LanesOf(y, 1, 1) : y \in Range(i.args)}
    [] OTHER -> {}

Feeds(level, x, l) == Operands(level, x, l) \cup ConditionsOf(Ending(x))

\* What is read from memory that an atomic changes differs between groups.
ReadsOfCounters ==
  LET counters == {Base(i.args[1]) : i \in {j \in Range(fn.instr) : j.op = "atomic" /\ j.with = "global"}}
  IN {node \in Nodes : /\ IsA("load", node[1]) \/ IsA("atomic", node[1])
                       /\ Base(fn.instr[node[1]].args[1]) \in counters}

\* The lanes whose value hangs on the id of that level and axis.
Dependents(level, axis) ==
  LET ids   == {"global_id", IF level = "local" THEN "local_id" ELSE "group_id"}
      edges == UNION {Feeds(level, node[1], node[2]) \X {node} :
                      node \in {m \in Nodes : m[1] \in Instructions}}
      grow[T \in SUBSET Nodes] ==
        LET U == T \cup {e[2] : e \in {e \in edges : e[1] \in T}}
        IN IF U = T THEN T ELSE grow[U]
  IN grow[({x \in Instructions : fn.instr[x].op \in ids} \X {axis + 1})
            \cup IF level = "global" THEN ReadsOfCounters ELSE {}]

-----------------------------------------------------------------------------
TypeOK ==
  /\ fn \in Functions
  /\ here \in {0} \cup Blocks(fn)
  /\ IsInjective(queue) /\ Range(queue) \subseteq Blocks(fn)
  /\ \A x \in Names(fn) :
       /\ Len(variances[x]) = WidthOf(x)
       /\ \A l \in DOMAIN variances[x] :
            /\ variances[x][l].kind \in [Dims -> Kinds]
            /\ variances[x][l].base \in {"none"} \cup Names(fn)
  /\ globalInvariances \subseteq fn.globals

\* When the work list is empty, a visit of any instruction would leave its
\* verdict as it is: no block was forgotten.  (Of a store nothing hangs.)
Settled ==
  Done => \A b \in Blocks(fn) : \A x \in Range(fn.code[b]) :
    fn.instr[x].op \notin {"alloca", "atomic", "store"} =>
      Same(Visit(Now, x, b).v[x], variances[x])

KindOf(node, d) == variances[node[1]][node[2]].kind[d]

\* ThreadInvariance.cpp:1011: the analysis identifies the ids a value
\* depends on: by its operands; by the memory it is read from, which hangs on
\* what was stored, and whether; by the branches that choose what a PHI
\* takes; or by those that end a loop.  No such value is called invariant.
CoversDependences ==
  Done => \A d \in Dims : \A node \in Dependents(d[1], d[2]) :
    KindOf(node, d) \in {"NonInvariant", "MaybeNonInvariant"}

\* A value that is called variant along an axis does depend on that id; a
\* pointer is called what its memory holds.
VariantIsDependent ==
  Done => \A d \in Dims :
    {node \in Nodes : /\ node[1] \in Instructions /\ ~IsPointer(node[1])
                       /\ ~IsA("store", node[1])
                       /\ KindOf(node, d) = "NonInvariant"}
      \subseteq Dependents(d[1], d[2])

\* What was found to hang on an id is never taken back, though every visit
\* computes the verdict anew.  (An alloca starts again when its block does.)
VerdictsSink ==
  [][\A x \in Names(fn) : ~IsA("alloca", x) => Below(variances'[x], variances[x])]_vars

\* The work list runs empty.
Terminates == <>Done
=============================================================================
