-------------------------- MODULE BarrierPlacement --------------------------
(***************************************************************************)
(* The passes that put barriers into a kernel until a work-item loop can   *)
(* be wrapped around what is between them, in the order the driver script  *)
(* runs them: mxpa_IPBreakPhi (as far as it changes the graph),            *)
(* isolate-regions, mxpa_implicit-cdg-barriers, implicit-cond-barriers,    *)
(* loop-barriers (barriertails and hive-off follow, in Coarsening).  A     *)
(* block holds barriers, code that may differ between work-items, and last *)
(* what its branch hangs on, PHI nodes included.                           *)
(***************************************************************************)
EXTENDS Cfg

CONSTANT Kernels  \* the functions mergereturn, simplifycfg, loop-simplify leave

IsSeq(s) == s \in Seq(Range(s))

\* A function as LLVM has it: its layout lists the blocks, the entry first,
\* and its branches lead to blocks of the function.
IsFunction(g) ==
  /\ g = [layout |-> g.layout, code |-> g.code, succ |-> g.succ]
  /\ IsSeq(g.code) /\ \A n \in Blocks(g) : IsSeq(g.code[n])
  /\ g.layout \in Seq(Blocks(g)) /\ g.layout # << >> /\ Range(g.layout) = Blocks(g)
  /\ g.succ \in Seq(Seq(Blocks(g))) /\ DOMAIN g.succ = Blocks(g)

\* Nothing leads to the entry, all else is reached from it and leads to a
\* return: blocks that are not reached were removed, and no loop is endless.
Connected(g) ==
  /\ Pred(g)[Entry(g)] = {}
  /\ Reach(Succ(g), {Entry(g)}) = Blocks(g)
  /\ Reach(Pred(g), Returns(g)) = Blocks(g)

\* What loop-simplify leaves: only one block leads to a loop from outside,
\* and nowhere else.
Simplified(g) ==
  LET pred == Pred(g)  dom == Dom(g)
  IN \A h \in Blocks(g) : pred[h] \cap dom[h] # {} =>
       \E p \in Blocks(g) : pred[h] \ dom[h] = {p} /\ g.succ[p] = <<h>>

ASSUME GraphsAssumption ==
  \A k \in Kernels : IsFunction(k) /\ Connected(k) /\ Simplified(k)

\* An instruction is a record [op, id]; the barriers the passes add have
\* id 0.
IsBarrier(i) == i.op = "barrier"
AuxBarrier == [op |-> "barrier", id |-> 0]

VARIABLES
  kernel,  \* the kernel as it was given
  f,       \* the function as it is now
  pass,    \* the pass that runs, or is next
  todo,    \* what that pass has still to process
  walk     \* the walk of implicit-cond-barriers, or None

placementVars == <<kernel, f, pass, todo, walk>>

NoWalk == [b |-> 0, pos |-> 0, pred |-> 0]

-----------------------------------------------------------------------------
HasBarrier(b) == \E i \in DOMAIN b : IsBarrier(b[i])
JustABarrier(b) == Len(b) = 1 /\ IsBarrier(b[1])

\* Barriers in a row, one or more: more than two make no difference to any
\* pass, and are kept at two.
BarrierRun == 2

IsRun(b, i, j) == \A k \in i .. j : IsBarrier(b[k])

\* createBarrier at the first non-PHI, and in front of the terminator.
BarrierInFront(b) ==
  IF Len(b) >= BarrierRun /\ IsRun(b, 1, BarrierRun) THEN b
  ELSE <<AuxBarrier>> \o b

BarrierAtEnd(b) ==
  IF Len(b) >= BarrierRun /\ IsRun(b, Len(b) + 1 - BarrierRun, Len(b)) THEN b
  ELSE Append(b, AuxBarrier)

PutInFront(g, n) == [g EXCEPT !.code[n] = BarrierInFront(@)]
PutAtEnd(g, n)   == [g EXCEPT !.code[n] = BarrierAtEnd(@)]

PutAtEnds(g, S) ==
  [g EXCEPT !.code = [n \in DOMAIN @ |-> IF n \in S THEN BarrierAtEnd(@[n]) ELSE @[n]]]

BarrierBlocks(g) == {n \in Blocks(g) : HasBarrier(g.code[n])}

\* The blocks in S, in layout order.
InLayoutOrder(g, S) ==
  LET upTo[p \in 0 .. Len(g.layout)] ==
        IF p = 0 THEN << >>
        ELSE IF g.layout[p] \in S THEN Append(upTo[p - 1], g.layout[p])
        ELSE upTo[p - 1]
  IN upTo[Len(g.layout)]

-----------------------------------------------------------------------------
(***************************************************************************)
(* mxpa_IPBreakPhi.                                                        *)
(***************************************************************************)
\* What y's execution hangs on, for control[y] the blocks y is directly
\* control dependent on (ControlDep: CDG, TCCDG, and the reverse of both).
Controls(control, y) == Reach(control, {y}) \ {y}

\* BBsCtrl: the blocks that decide about a barrier.
BarrierControllers(g) ==
  LET pdf == PDF(g) IN UNION {Controls(pdf, y) : y \in BarrierBlocks(g)}

\* A slip: the branch stays, and nothing leads to the new block.
SplitCopy(g, x) ==
  LET h == AddBlock(g, Place(g, x) + 1, Front(g.code[x]), g.succ[x])
  IN [h EXCEPT !.code[x] = <<Last(@)>>]

\* A controller is split in front of its branch; all that the branch does
\* not hang on sinks into the new block.
SplitAndSink(g, x) ==
  LET h == AddBlock(g, Place(g, x) + 1, Front(g.code[x]), g.succ[x])
  IN [h EXCEPT !.code[x] = <<Last(@)>>, !.succ[x] = <<Len(h.code)>>]

CollectControllers ==
  /\ pass = "IPBreakPhi"
  /\ todo' = InLayoutOrder(f, BarrierControllers(f))
  /\ pass' = "SplitAndSink"
  /\ UNCHANGED <<kernel, f, walk>>

\* The code takes them by their addresses; splits of different blocks commute.
SinkController ==
  /\ pass = "SplitAndSink"
  /\ todo # << >>
  /\ f' = SplitAndSink(f, Head(todo))
  /\ todo' = Tail(todo)
  /\ UNCHANGED <<kernel, pass, walk>>

ControllersSunk ==
  /\ pass = "SplitAndSink"
  /\ todo = << >>
  /\ todo' = Regions(f)
  /\ pass' = "isolate-regions"
  /\ UNCHANGED <<kernel, f, walk>>

-----------------------------------------------------------------------------
(***************************************************************************)
(* isolate-regions.                                                        *)
(***************************************************************************)
\* A slip: the dummy is put behind the predecessors outside the region.
IsolateOutside(g, r) ==
  LET dom == Dom(g)
      outside == {p \in Pred(g)[r[2]] : ~InRegion(dom, r, p)}
  IN Split(SplitPredecessors(g, r[2], outside), r[1], 1)

\* addDummyBefore the exit, addDummyAfter the entry.
Isolate(g, r) ==
  LET dom == Dom(g)
      inside == {p \in Pred(g)[r[2]] : InRegion(dom, r, p)}
  IN Split(SplitPredecessors(g, r[2], inside), r[1], 1)

\* The region pass manager takes inner regions first.
Before(g, r, s) ==
  LET dom == Dom(g)
      size(t) == Cardinality({n \in Blocks(g) : InRegion(dom, t, n)})
  IN \/ size(r) < size(s)
     \/ size(r) = size(s) /\ r[1] < s[1]
     \/ size(r) = size(s) /\ r[1] = s[1] /\ r[2] < s[2]

IsolateRegion(r) ==
  /\ pass = "isolate-regions"
  /\ r \in todo
  /\ \A s \in todo \ {r} : Before(f, r, s)
  /\ f' = Isolate(f, r)
  /\ todo' = todo \ {r}
  /\ UNCHANGED <<kernel, pass, walk>>

-----------------------------------------------------------------------------
(***************************************************************************)
(* mxpa_implicit-cdg-barriers.                                             *)
(***************************************************************************)
\* Slip: no reverse of the control dependence.
ForwardControllers(pdf, df, y) == Controls(pdf, y)

Controllers(pdf, df, y) == Controls(pdf, y) \cup Controls(df, y)

\* BBsCtrl: the controllers of each barrier's block, in layout order.
BBsCtrl(g) ==
  LET pdf == PDF(g)  df == DF(g)
      of(y) == Controllers(pdf, df, y)
      barriers(n) == Cardinality({k \in DOMAIN g.code[n] : IsBarrier(g.code[n][k])})
      row(y) == InLayoutOrder(g, of(y))
  IN FlattenSeq([p \in DOMAIN g.layout |->
       FlattenSeq([k \in 1 .. barriers(g.layout[p]) |-> row(g.layout[p])])])

\* Slip: no barrier behind the controller's branch condition.
GuardControllerFront(g, x) == FoldLeft(PutInFront, PutInFront(g, x), g.succ[x])

\* Barriers at both ends of a controller, and at the start of what follows
\* it unless it is a loop header.
GuardController(g, x) ==
  LET h == PutAtEnd(PutInFront(g, x), x)
      hasBackEdge == Pred(g)[x] \cap Dom(g)[x] # {}
  IN IF hasBackEdge THEN h ELSE FoldLeft(PutInFront, h, h.succ[x])

\* The regions are isolated: the next pass collects its controllers.
RegionsIsolated ==
  /\ pass = "isolate-regions"
  /\ todo = {}
  /\ todo' = BBsCtrl(f)
  /\ pass' = "implicit-cdg-barriers"
  /\ UNCHANGED <<kernel, f, walk>>

ImplicitCdgBarriers ==
  /\ pass = "implicit-cdg-barriers"
  /\ todo # << >>
  /\ f' = GuardController(f, Head(todo))
  /\ todo' = Tail(todo)
  /\ UNCHANGED <<kernel, pass, walk>>

ControllersGuarded ==
  /\ pass = "implicit-cdg-barriers"
  /\ todo = << >>
  /\ pass' = "collect-conditional"
  /\ UNCHANGED <<kernel, f, todo, walk>>

-----------------------------------------------------------------------------
(***************************************************************************)
(* implicit-cond-barriers.                                                 *)
(***************************************************************************)
\* What firstNonBackedgePredecessor may return; 0 is NULL.
ForwardPredecessors(n) ==
  LET P == Pred(f)[n] \ Dom(f)[n] IN IF P = {} THEN {0} ELSE P

\* Slip: every barrier is taken to be conditional.
CollectEveryBarrier ==
  /\ pass = "collect-conditional"
  /\ todo' = InLayoutOrder(f, BarrierBlocks(f))
  /\ pass' = "implicit-cond-barriers"
  /\ UNCHANGED <<kernel, f, walk>>

\* Conditional: does not post-dominate the entry.
Conditional(g) == LET pdom == PDom(g)
                  IN {n \in Blocks(g) : Entry(g) \notin pdom[n]}

CollectConditional ==
  /\ pass = "collect-conditional"
  /\ todo' = InLayoutOrder(f, BarrierBlocks(f) \cap Conditional(f))
  /\ pass' = "implicit-cond-barriers"
  /\ UNCHANGED <<kernel, f, walk>>

StartWalk(p) ==
  /\ pass = "implicit-cond-barriers"
  /\ walk = NoWalk
  /\ todo # << >>
  /\ p \in ForwardPredecessors(Head(todo))
  /\ walk' = [b |-> Head(todo), pos |-> Head(todo), pred |-> p]
  /\ todo' = Tail(todo)
  /\ UNCHANGED <<kernel, f, pass>>

\* b post-dominates pred: the branch that makes it conditional is further up.
WalkOn ==
  /\ walk.pred # walk.b
  /\ ~JustABarrier(f.code[walk.pred])
  /\ walk.pred \in PDom(f)[walk.b]

WalkUp(p) ==
  /\ walk # NoWalk
  /\ WalkOn
  /\ p \in ForwardPredecessors(walk.pred)
  /\ walk' = [walk EXCEPT !.pos = walk.pred, !.pred = p]
  /\ UNCHANGED <<kernel, f, pass, todo>>

EndWalk ==
  /\ walk # NoWalk
  /\ ~WalkOn
  /\ f' = IF JustABarrier(f.code[walk.pos]) THEN f ELSE PutInFront(f, walk.pos)
  /\ walk' = NoWalk
  /\ UNCHANGED <<kernel, pass, todo>>

ConditionalDone ==
  /\ pass = "implicit-cond-barriers"
  /\ walk = NoWalk
  /\ todo = << >>
  /\ pass' = "loop-barriers"
  /\ todo' = DOMAIN Loops(f)
  /\ UNCHANGED <<kernel, f, walk>>

-----------------------------------------------------------------------------
(***************************************************************************)
(* loop-barriers.                                                          *)
(***************************************************************************)
\* Slip: no barrier at the end of the latch.
GuardUpToExit(g, loop, h) ==
  PutAtEnds(g, {Preheader(g, loop, h), Unique(ExitingBlocks(g, loop))})

\* A barrier loop: barriers at the end of the preheader, of the exiting
\* block and of the latch, where there is only one.  A latch that is the
\* exiting block, or one of several, gets another if the barrier found
\* first, in the header if it has any, dominates it.  PHIs are not here, so
\* there is no barrier behind the header's (lines 83-91).  A header that kept
\* some, because its branch hangs on them, has one in that place already: it
\* is in the dominance frontiers of its loop, so implicit-cdg-barriers has
\* guarded it.
GuardBarrierLoop(g, loop, h) ==
  LET exiting == Unique(ExitingBlocks(g, loop))
      latch   == Unique(Latches(g, loop, h))
      first   == Head(SelectSeq(<<h>> \o g.layout,
                        LAMBDA n : n \in loop /\ HasBarrier(g.code[n])))
      closing == IF latch # 0 /\ latch # exiting THEN {latch}
                 ELSE Latches(g, loop, h) \cap Dom(g)[first]
  IN PutAtEnds(PutAtEnds(g, {Preheader(g, loop, h), exiting}), closing)

\* Slip: the loop may start right behind a barrier.
LeaveAttached(g, loop, h) == g

\* Another loop: it must not start in a block whose last act is a barrier.
DetachLoop(g, loop, h) ==
  LET p == Preheader(g, loop, h)
      b == g.code[p]
  IN IF b # << >> /\ IsBarrier(Last(b)) THEN Split(g, p, Len(b) + 1) ELSE g

\* The loop pass manager takes inner loops first.
ProcessLoop(h) ==
  LET loop == Loops(f)[h]
  IN
  /\ pass = "loop-barriers"
  /\ h \in todo
  /\ todo \cap loop = {h}
  /\ f' = IF loop \cap BarrierBlocks(f) # {} THEN GuardBarrierLoop(f, loop, h)
          ELSE DetachLoop(f, loop, h)
  /\ todo' = todo \ {h}
  /\ UNCHANGED <<kernel, pass, walk>>

LoopsDone ==
  /\ pass = "loop-barriers"
  /\ todo = {}
  /\ pass' = "barriertails"
  /\ UNCHANGED <<kernel, f, todo, walk>>

-----------------------------------------------------------------------------
PlacementInit ==
  /\ kernel \in Kernels
  /\ f = kernel
  /\ pass = "IPBreakPhi"
  /\ todo = << >>
  /\ walk = NoWalk

PlacementNext ==
  \/ CollectControllers \/ SinkController \/ ControllersSunk
  \/ \E r \in Blocks(f) \X Blocks(f) : IsolateRegion(r)
  \/ RegionsIsolated \/ ImplicitCdgBarriers \/ ControllersGuarded
  \/ CollectConditional \/ ConditionalDone
  \/ \E p \in Blocks(f) \cup {0} : StartWalk(p) \/ WalkUp(p)
  \/ EndWalk
  \/ \E h \in Blocks(f) : ProcessLoop(h)
  \/ LoopsDone

PlacementSpec == PlacementInit /\ [][PlacementNext]_placementVars

-----------------------------------------------------------------------------
(***************************************************************************)
(* What an instruction of the kernel can be followed by; 0 stands for the  *)
(* kernel's start and end.  ids[n] are the kernel's instructions in n.     *)
(***************************************************************************)
Ids(b) ==
  LET upTo[p \in 0 .. Len(b)] ==
        IF p = 0 THEN << >>
        ELSE IF b[p].id = 0 THEN upTo[p - 1] ELSE Append(upTo[p - 1], b[p].id)
  IN upTo[Len(b)]

Shows(g, ids, n) ==
  IF ids[n] # << >> THEN {ids[n][1]} ELSE IF IsReturn(g, n) THEN {0} ELSE {}

\* What comes first from the blocks in S on.
FirstIds(g, ids, S) ==
  LET silent == [n \in Blocks(g) |-> IF ids[n] = << >> THEN Range(g.succ[n]) ELSE {}]
  IN UNION {Shows(g, ids, n) : n \in Reach(silent, S)}

After(g, ids, n) ==
  IF IsReturn(g, n) THEN {0} ELSE FirstIds(g, ids, Range(g.succ[n]))

FollowsIn(g, ids, n) ==
  {<<ids[n][k], ids[n][k + 1]>> : k \in 1 .. Len(ids[n]) - 1}
    \cup {<<Last(ids[n]), i>> : i \in After(g, ids, n)}

Follows(g) ==
  LET ids == [n \in Blocks(g) |-> Ids(g.code[n])]
      alive == {n \in Reach(Succ(g), {Entry(g)}) : ids[n] # << >>}
  IN {<<0, i>> : i \in FirstIds(g, ids, {Entry(g)})}
       \cup UNION {FollowsIn(g, ids, n) : n \in alive}

\* What decides about a barrier first in its block, for the blocks in C.
ConditionsFirst(g, C) ==
  [g EXCEPT !.code = [n \in DOMAIN @ |->
     IF n \in C THEN <<Last(@[n])>> \o Front(@[n]) ELSE @[n]]]

\* Whatever is split, added and (in Coarsening) copied, an instruction of the
\* kernel is followed by what followed it in the source (all passes), but
\* that what decides about a barrier comes first in its block (SplitAndSink).
PathsPreserved ==
  pass \notin {"IPBreakPhi", "SplitAndSink", "run"} =>
    Follows(f) = Follows(ConditionsFirst(kernel, BarrierControllers(kernel)))

\* The walk from a conditional barrier to its branch stays in the function
\* (the predecessor ImplicitConditionalBarriers.cpp:114 looks into may be
\* NULL for all the code checks).
NoNullPredecessor == walk # NoWalk => walk.pred # 0

\* No pass cuts a block with a barrier off: each rewires what it splits, and
\* the dominator trees of all of them only know what the entry reaches.
BarriersReachable == BarrierBlocks(f) \subseteq Reach(Succ(f), {Entry(f)})

\* Every loop still has the preheader loop-simplify gave it when
\* loop-barriers asserts that it has (LoopBarriers.cpp:75 and :141).
PreheadersExist ==
  pass = "loop-barriers" => \A h \in todo : Preheader(f, Loops(f)[h], h) # 0
=============================================================================
