----------------------------- MODULE Coarsening -----------------------------
(***************************************************************************)
(* The passes one after another, from a kernel to the work-group function, *)
(* and that function's control flow: barriers are placed, their tails      *)
(* copied, each gets a block of its own; the regions between them are      *)
(* gathered, those with work-item variant code are wrapped in a work-item  *)
(* loop, and a single thread runs the result.                              *)
(*                                                                         *)
(* The three nested loops around a region, and its data, are in            *)
(* WorkItemLoop; here they are one loop.                                   *)
(***************************************************************************)
EXTENDS BarrierPlacement, BarrierTails, ParallelRegions

CONSTANT GroupSize  \* the number of work-items

WorkItems == 0 .. GroupSize - 1

VARIABLES
  loops,  \* the work-item loops that were wrapped around regions
  node,   \* the block the thread is in
  loop,   \* the loop whose latch it is in, or 0
  iv      \* the induction variable

runVars == <<loops, node, loop, iv>>
vars == <<placementVars, regionVars, runVars>>

-----------------------------------------------------------------------------
BarrierTailReplicationPass ==
  /\ pass = "barriertails"
  /\ f' = BarrierTailReplication(f)
  /\ pass' = "hiveoffbarrier"
  /\ UNCHANGED <<kernel, todo, walk, regionVars, runVars>>

\* The pieces a block is cut into by mxpa_hiveoffbarrier (HiveOffBarrier has
\* the details).  A barrier leaves an empty block in front of it where the
\* block began; between two barriers, that hangs on the order of BarrierSet.
Pieces(b, gaps) ==
  LET add(ps, i) ==
        IF ~IsBarrier(i)
        THEN IF HasBarrier(Last(ps)) THEN Append(ps, <<i>>)
             ELSE Append(Front(ps), Append(Last(ps), i))
        ELSE ps \o (IF gaps /\ HasBarrier(Last(ps)) THEN << << >> >> ELSE << >>)
                \o << <<i>> >>
  IN FoldLeft(add, << << >> >>, b)

\* The entry's first barrier is in front of everything; it and the exits
\* get one if they are not just a barrier.
PiecesOf(g, n, gaps) ==
  LET b  == g.code[n]
      b1 == IF n = Entry(g) /\ ~JustABarrier(b) THEN <<AuxBarrier>> \o b ELSE b
      b2 == IF IsReturn(g, n) /\ (b1 = << >> \/ ~IsBarrier(Last(b1)))
            THEN Append(b1, AuxBarrier) ELSE b1
  IN IF n = Entry(g) THEN Tail(Pieces(b2, gaps)) ELSE Pieces(b2, gaps)

\* Block n becomes the pieces ps, one leading to the next.
CutUp(g, n, ps) ==
  LET id(i) == IF i = 1 THEN n ELSE Len(g.code) + i - 1
      to == [i \in DOMAIN ps |-> IF i = Len(ps) THEN g.succ[n] ELSE <<id(i + 1)>>]
      place == Place(g, n)
  IN [ layout |-> SubSeq(g.layout, 1, place)
                  \o [i \in DOMAIN Tail(ps) |-> id(i + 1)]
                  \o SubSeq(g.layout, place + 1, Len(g.layout)),
       code   |-> [g.code EXCEPT ![n] = Head(ps)] \o Tail(ps),
       succ   |-> [g.succ EXCEPT ![n] = Head(to)] \o Tail(to) ]

HiveOff(g, gaps) ==
  FoldLeft(LAMBDA h, n : CutUp(h, n, PiecesOf(g, n, gaps)), g, g.layout)

HiveOffBarriers(gaps) ==
  /\ pass = "hiveoffbarrier"
  /\ f' = HiveOff(f, gaps)
  /\ pass' = "IPLoopInserter"
  /\ UNCHANGED <<kernel, todo, walk, regionVars, runVars>>

EnsureARealEntryOnTopABarrierEntry ==
  /\ pass = "IPLoopInserter"
  /\ f' = Split(f, Entry(f), 1)
  /\ pass' = "gather"
  /\ UNCHANGED <<kernel, todo, walk, regionVars, runVars>>

-----------------------------------------------------------------------------
(***************************************************************************)
(* buildDWLoopOverRegion.                                                  *)
(***************************************************************************)
\* Some code in the region is work-item variant.
NeedsLoop(r) == \E n \in r.blocks : \E i \in Range(f.code[n]) : i.op = "code"

\* The loop around a region: where it is entered from (predecessors the
\* entry dominates are taken to be in the region), and the blocks in it.
LoopAround(r) ==
  [ entry  |-> r.entry,
    exit   |-> r.exit,
    leave  |-> f.succ[r.exit][1],
    from   |-> Pred(f)[r.entry] \ Dom(f)[r.entry],
    inside |-> r.blocks \cup IF r.exit \in r.blocks THEN {}
                             ELSE BarrierChain(f, r.exit) ]

BuildLoops ==
  /\ pass = "gather"
  /\ phase = "gathered"
  /\ loops' = LET rs == SelectSeq(regions, NeedsLoop)
              IN [i \in DOMAIN rs |-> LoopAround(rs[i])]
  /\ node' = Entry(f)
  /\ pass' = "run"
  /\ UNCHANGED <<kernel, f, todo, walk, regionVars, loop, iv>>

(***************************************************************************)
(* The work-group function's thread.                                       *)
(***************************************************************************)
Leaving(l, t) == node \in {l.exit, l.entry} /\ t = l.leave
Entering(l, t) == node \in l.from /\ t = l.entry

\* A branch that is not redirected.
Branch(t) ==
  /\ ~\E i \in DOMAIN loops : Leaving(loops[i], t) \/ Entering(loops[i], t)
  /\ node' = t
  /\ UNCHANGED <<loop, iv>>

\* One redirected to a preheader: the induction variable starts at zero.
EnterLoop(i, t) ==
  /\ Entering(loops[i], t)
  /\ node' = t
  /\ iv' = 0
  /\ UNCHANGED loop

GoToLatch(i, t) ==
  /\ Leaving(loops[i], t)
  /\ loop' = i
  /\ UNCHANGED <<node, iv>>

Latch ==
  /\ loop # 0
  /\ IF iv + 1 < GroupSize
     THEN node' = loops[loop].entry /\ iv' = iv + 1
     ELSE node' = loops[loop].leave /\ UNCHANGED iv
  /\ loop' = 0

Run ==
  /\ pass = "run"
  /\ \/ Latch
     \/ /\ loop = 0
        /\ \E t \in Range(f.succ[node]) :
             \/ Branch(t)
             \/ \E i \in DOMAIN loops : EnterLoop(i, t) \/ GoToLatch(i, t)
  /\ UNCHANGED <<placementVars, regionVars, loops>>

Returned ==
  /\ pass = "run" /\ IsReturn(f, node)
  /\ UNCHANGED vars

-----------------------------------------------------------------------------
Init ==
  /\ PlacementInit /\ RegionsInit
  /\ loops = << >> /\ node = 0 /\ loop = 0 /\ iv = 0

Next ==
  \/ PlacementNext /\ UNCHANGED <<regionVars, runVars>>
  \/ BarrierTailReplicationPass
  \/ \E gaps \in BOOLEAN : HiveOffBarriers(gaps)
  \/ EnsureARealEntryOnTopABarrierEntry
  \/ pass = "gather" /\ RegionsNext(f) /\ UNCHANGED <<placementVars, runVars>>
  \/ BuildLoops \/ Run \/ Returned

Spec == Init /\ [][Next]_vars

-----------------------------------------------------------------------------
(***************************************************************************)
(* What the passes promise of the graph.                                   *)
(***************************************************************************)
\* After barriertails, paths from a barrier join no others (the purpose of
\* BarrierTailReplication, whose set of processed blocks could hide a join).
NoJoins == pass = "hiveoffbarrier" => NoJoinBehindBarrier(f)

\* The blocks whose instructions TripletInvarianceAnalysis calls invariant
\* unseen: headers and latches of barrier loops, two levels deep.
MarkedInvariant(g) ==
  LET all == Loops(g)
      marked == {h \in DOMAIN all : /\ all[h] \cap BarrierBlocks(g) # {}
                                    /\ Cardinality({k \in DOMAIN all : h \in all[k]}) <= 2}
  IN marked \cup ({Unique(Latches(g, all[h], h)) : h \in marked} \ {0})

\* The marks are true: no work-item variant code is in a marked block, or
\* isRegionUniform would leave its region without a loop.
MarksAreTrue ==
  pass = "IPLoopInserter" =>
    \A n \in MarkedInvariant(f) : \A i \in Range(f.code[n]) : i.op # "code"

\* Placed barriers keep the search for regions on barriers, and off blocks
\* it would take for them.
SearchStartsAtBarriers == StartsAtBarriers(f)

\* Every block with code is in one region.
EachBlockInOneRegion == pass = "gather" => RegionsPartition(f)

\* A loop can be wrapped around every region.
EveryRegionWrappable == pass = "gather" => RegionsWrappable(f)

-----------------------------------------------------------------------------
\* Where the work-items are: those before the induction variable have run
\* the region, those behind it wait at its entry; outside a loop all are
\* with the thread.
Around == {i \in DOMAIN loops : IF loop = 0 THEN node \in loops[i].inside ELSE i = loop}

Pos ==
  [w \in WorkItems |->
     IF Around = {} THEN Settle(f, node)
     ELSE LET l == loops[CHOOSE i \in Around : TRUE]
          IN IF w < iv \/ (w = iv /\ loop # 0) THEN Settle(f, l.leave)
             ELSE IF w = iv THEN Settle(f, node) ELSE l.entry]

Spmd == INSTANCE SpmdCfg WITH pos <- Pos

\* The coarsened control flow is the work-group's: every work-item goes
\* through every region, and they pass each barrier together (all passes).
StepsAreSpmd ==
  [][pass' = "run" => IF pass = "run" THEN [Spmd!Next]_(Spmd!vars)
                      ELSE Spmd!Init']_vars
=============================================================================
