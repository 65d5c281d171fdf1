---------------------------- MODULE BarrierTails ----------------------------
(***************************************************************************)
(* The pass that copies what follows a conditional barrier, so that no     *)
(* path from it joins one that has not met it (BarrierTailReplication.cpp, *)
(* the pass barriertails).  Only the graph is here: a PHI that was left for*)
(* a branch to hang on gets the copies' arguments (UpdateReferences,       *)
(* CleanupPHIs), which changes no edge.                                    *)
(***************************************************************************)
EXTENDS Cfg

\* FindSubgraph: what b leads to, but for back edges.
Subgraph(f, dom, b) ==
  Reach([n \in Blocks(f) |-> {m \in Range(f.succ[n]) : n \notin dom[m]}], {b})

\* The graph with a copy of b's subgraph, and the copy of b.
ReplicateSubgraph(f, dom, b) ==
  LET sub  == Subgraph(f, dom, b)
      old  == SelectSeq(f.layout, LAMBDA n : n \in sub)
      size == Len(f.code)
      copy == [n \in Blocks(f) |->
                 IF n \in Range(old)
                 THEN size + (CHOOSE i \in DOMAIN old : old[i] = n) ELSE n]
      renamed(s) == FoldLeft(LAMBDA t, n : Append(t, copy[n]), << >>, s)
  IN [ graph |->
         [ layout |-> f.layout \o [i \in DOMAIN old |-> size + i],
           code   |-> f.code \o [i \in DOMAIN old |-> f.code[old[i]]],
           succ   |-> f.succ \o [i \in DOMAIN old |-> renamed(f.succ[old[i]])] ],
       entry |-> copy[b] ]

\* Slip: the new edge leads to the copy that was made last.
ReplicateToLast(s, e, i) ==
  LET r == ReplicateSubgraph(s.f, s.dom, s.f.succ[e][i])
      g == [r.graph EXCEPT !.succ[e][i] = Len(r.graph.code)]
  IN [s EXCEPT !.f = g, !.dom = Dom(g)]

\* Successor i of e, which the barrier block does not dominate, becomes a
\* copy of it.
ReplicateSuccessor(s, e, i) ==
  LET r == ReplicateSubgraph(s.f, s.dom, s.f.succ[e][i])
      g == [r.graph EXCEPT !.succ[e][i] = r.entry]
  IN [s EXCEPT !.f = g, !.dom = Dom(g)]

Successors(s, e) == [i \in DOMAIN s.f.succ[e] |-> i]

RECURSIVE ReplicateJoinedSubgraphs(_, _, _)

\* From e on, whatever the barrier block does not dominate is copied.
ReplicateJoinedSubgraphs(s, barrier, e) ==
  LET visit(t, i) ==
        LET b == t.f.succ[e][i]
        IN IF b \in t.processed \/ e \in t.dom[b] THEN t
           ELSE IF b \in t.dom[barrier]
           THEN ReplicateJoinedSubgraphs(t, barrier, b)
           ELSE ReplicateSuccessor(t, e, i)
      r == FoldLeft(visit, s, Successors(s, e))
  IN [r EXCEPT !.processed = @ \cup {e}]

\* Slip: the blocks processed for one barrier count for the next.
VisitOn(s, b) == [s EXCEPT !.seen = @ \cup {b}]

Visit(s, b) == [s EXCEPT !.seen = @ \cup {b}, !.processed = {}]

RECURSIVE FindBarriersDFS(_, _)

FindBarriersDFS(s, b) ==
  IF b \in s.seen THEN s
  ELSE LET t == Visit(s, b)
           r == IF HoldsBarrier(t.f, b) THEN ReplicateJoinedSubgraphs(t, b, b)
                ELSE t
       IN FoldLeft(LAMBDA q, i : FindBarriersDFS(q, q.f.succ[b][i]), r,
                   Successors(r, b))

BarrierTailReplication(f) ==
  FindBarriersDFS([f |-> f, dom |-> Dom(f), seen |-> {}, processed |-> {}],
                  Entry(f)).f

\* No path from a barrier joins one that has not met it, but in going round
\* a loop.
NoJoinBehindBarrier(f) ==
  LET dom == Dom(f)
  IN \A b \in Blocks(f) : HoldsBarrier(f, b) => Subgraph(f, dom, b) \subseteq dom[b]
=============================================================================
