-------------------------- MODULE ParallelRegions --------------------------
(***************************************************************************)
(* The search for parallel regions (gatherParallelRegions in               *)
(* LoopInserter.cpp): what is between the barriers is collected backwards, *)
(* region by region, from the function's exits.  LLVM keeps predecessors   *)
(* in the order of a use list: here, in any order.                         *)
(***************************************************************************)
EXTENDS Cfg

VARIABLES
  exitBlocks,  \* ExitBlocks: the barriers to go back from
  visited,     \* VisitedBarriers
  regions,     \* PRVector
  exitBB,      \* ExitBB; 0 is NULL
  phase        \* where the search is

regionVars == <<exitBlocks, visited, regions, exitBB, phase>>

\* A barrier and the barriers right in front of it.
BarrierChain(f, b) ==
  LET pred == Pred(f)
  IN Reach([n \in Blocks(f) |-> {p \in pred[n] : AtBarrier(f, p)}], {b})

\* The blocks a region before barrier b has: back to the next barriers.
BlocksBefore(f, b) ==
  LET pred == Pred(f)
      code(S) == {n \in S : ~AtBarrier(f, n)}
  IN Reach([n \in Blocks(f) |-> code(pred[n])],
           code(UNION {pred[n] : n \in BarrierChain(f, b)}))

\* The barriers a region starts at.  The first one met is taken to be the
\* region's, any of them.
EntryBarriers(f, blocks) ==
  {n \in UNION {Pred(f)[m] : m \in blocks} : AtBarrier(f, n)}

RegionFrom(f, b, blocks, start) ==
  LET s == SelectSeq(f.succ[start], LAMBDA n : n \in blocks)
  IN [ blocks |-> blocks, entry |-> Head(s), exit |-> Unique(Pred(f)[b]),
       barrier |-> b ]

\* createRegionBeforeBarrier: the regions it may return, if any.
RegionsBefore(f, b) ==
  LET blocks == BlocksBefore(f, b)
  IN {RegionFrom(f, b, blocks, e) : e \in EntryBarriers(f, blocks)}

-----------------------------------------------------------------------------
RegionsInit ==
  /\ exitBlocks = << >> /\ visited = {} /\ regions = << >>
  /\ exitBB = 0 /\ phase = "start"

CollectExits(f) ==
  /\ phase = "start"
  /\ exitBlocks' = SelectSeq(f.layout, LAMBDA n : IsReturn(f, n))
  /\ phase' = "pop"
  /\ UNCHANGED <<visited, regions, exitBB>>

TakeExit ==
  /\ phase = "pop"
  /\ exitBlocks # << >>
  /\ exitBB' = Last(exitBlocks)
  /\ exitBlocks' = Front(exitBlocks)
  /\ phase' = "form"
  /\ UNCHANGED <<visited, regions>>

NoRegion(f) ==
  /\ phase = "form"
  /\ RegionsBefore(f, exitBB) = {}
  /\ phase' = "pop"
  /\ UNCHANGED <<exitBlocks, visited, regions, exitBB>>

SameLoop(f, m, n) ==
  LET loops == Loops(f)
  IN LoopFor(loops, m) # 0 /\ LoopFor(loops, m) = LoopFor(loops, n)

\* Slip: the rest is forgotten when the search goes on in a loop.
GoOnInLoop(P, looped, rest) ==
  /\ IF P = {} THEN phase' = "pop" /\ exitBB' = 0 /\ UNCHANGED exitBlocks
     ELSE /\ phase' = "form"
          /\ exitBB' = IF looped = << >> THEN rest ELSE Last(looped)
          /\ exitBlocks' = exitBlocks \o (IF looped = << >> THEN << >> ELSE Front(looped))

\* Where to go on from a region with the unvisited predecessors P, of which
\* those in looped share a loop with its entry, in the order they are met:
\* from the last of them, the others kept for later; of the rest only the
\* last is kept.
GoOn(P, looped, rest) ==
  /\ IF P = {} THEN phase' = "pop" /\ exitBB' = 0 /\ UNCHANGED exitBlocks
     ELSE /\ phase' = "form"
          /\ exitBB' = IF looped = << >> THEN rest ELSE Last(looped)
          /\ exitBlocks' = exitBlocks
               \o (IF looped = << >> THEN << >>
                   ELSE Front(looped) \o (IF rest = 0 THEN << >> ELSE <<rest>>))

FormRegion(f, r) ==
  LET P == Pred(f)[r.entry] \ (visited \cup {exitBB})
      L == {p \in P : SameLoop(f, p, r.entry)}
  IN
  /\ phase = "form"
  /\ r \in RegionsBefore(f, exitBB)
  /\ regions' = Append(regions, r)
  /\ visited' = visited \cup {exitBB}
  /\ \E looped \in SetToSeqs(L) :
       \E rest \in IF P = L THEN {0} ELSE P \ L : GoOn(P, looped, rest)

Gathered ==
  /\ phase = "pop"
  /\ exitBlocks = << >>
  /\ phase' = "gathered"
  /\ UNCHANGED <<exitBlocks, visited, regions, exitBB>>

RegionsNext(f) ==
  \/ CollectExits(f) \/ TakeExit \/ NoRegion(f)
  \/ phase = "form" /\ \E r \in RegionsBefore(f, exitBB) : FormRegion(f, r)
  \/ Gathered

-----------------------------------------------------------------------------
\* The blocks that hold something, and can be reached.
Working(f) == {n \in Reach(Succ(f), {Entry(f)}) : ~AtBarrier(f, n) /\ f.code[n] # << >>}

\* The search starts from barriers (the assertion at LoopInserter.cpp:237),
\* and never takes a block of a region for one (line 266 takes any
\* predecessor of a region's entry).
StartsAtBarriers(f) ==
  /\ exitBB # 0 => AtBarrier(f, exitBB)
  /\ \A i \in DOMAIN exitBlocks : AtBarrier(f, exitBlocks[i])

\* In the end every block that does something is in exactly one region, and
\* no region was formed twice (gatherParallelRegions).
RegionsPartition(f) ==
  phase = "gathered" =>
    \A n \in Working(f) :
      Cardinality({i \in DOMAIN regions : n \in regions[i].blocks}) = 1

\* A region is entered at its entry and left from its exit, which has one
\* successor: a loop can be wrapped around it (the assertions of
\* buildDWLoopOverRegion).
RegionsWrappable(f) ==
  LET pred == Pred(f)
      after(r) == {r.barrier} \cup IF r.exit \in r.blocks THEN {}
                                  ELSE BarrierChain(f, r.exit)
  IN \A i \in DOMAIN regions :
       LET r == regions[i] IN
       /\ r.exit # 0
       /\ Len(f.succ[r.exit]) = 1
       /\ \A n \in r.blocks \ {r.entry} : pred[n] \subseteq r.blocks
       /\ \A n \in r.blocks : Range(f.succ[n]) \subseteq r.blocks \cup after(r)
=============================================================================
