-------------------------------- MODULE Cfg --------------------------------
(***************************************************************************)
(* Control-flow graphs, and what LLVM's analyses say of them.  A function  *)
(* has blocks 1 .. n: layout is the order they are in, code what a block   *)
(* holds in front of its terminator, succ where the terminator leads.      *)
(***************************************************************************)
EXTENDS Naturals, Sequences, SequencesExt, FiniteSets

Blocks(f) == DOMAIN f.code
Entry(f) == f.layout[1]

Succ(f) == [n \in Blocks(f) |-> Range(f.succ[n])]
Pred(f) == [n \in Blocks(f) |-> {m \in Blocks(f) : n \in Range(f.succ[m])}]

IsReturn(f, n) == f.succ[n] = << >>
Returns(f) == {n \in Blocks(f) : IsReturn(f, n)}

\* The block starts with a barrier, holds one; the last of the barrier
\* blocks that follow one another from n.
AtBarrier(f, n) == f.code[n] # << >> /\ f.code[n][1].op = "barrier"

HoldsBarrier(f, n) == \E i \in DOMAIN f.code[n] : f.code[n][i].op = "barrier"

Settle(f, n) ==
  LET goes(m) == Len(f.succ[m]) = 1 /\ AtBarrier(f, m) /\ AtBarrier(f, f.succ[m][1])
      last[m \in Blocks(f)] == IF goes(m) THEN last[f.succ[m][1]] ELSE m
  IN last[n]

\* What is reached from the nodes in S along next.
Reach(next, S) ==
  LET grow[T \in SUBSET DOMAIN next] ==
        LET U == T \cup UNION {next[n] : n \in T}
        IN IF U = T THEN T ELSE grow[U]
  IN grow[S]

\* The nodes that cannot be reached from those in S but through a.
Behind(next, S, a) ==
  DOMAIN next \ Reach([n \in DOMAIN next \ {a} |-> next[n] \ {a}], S \ {a})

\* Dom(f)[a], PDom(f)[a]: the blocks a dominates, post-dominates.
Dom(f) == LET succ == Succ(f)
          IN [a \in Blocks(f) |-> Behind(succ, {Entry(f)}, a)]

PDom(f) == LET pred == Pred(f)
           IN [a \in Blocks(f) |-> Behind(pred, Returns(f), a)]

\* The frontier of n: where its dominance, or post-dominance, ends.
Frontier(dom, next, n) ==
  {m \in UNION {next[k] : k \in dom[n]} : m = n \/ m \notin dom[n]}

DF(f) == LET dom == Dom(f)  succ == Succ(f)
         IN [n \in Blocks(f) |-> Frontier(dom, succ, n)]

PDF(f) == LET pdom == PDom(f)  pred == Pred(f)
          IN [n \in Blocks(f) |-> Frontier(pdom, pred, n)]

-----------------------------------------------------------------------------
(***************************************************************************)
(* Natural loops, named by their headers.                                  *)
(***************************************************************************)
BackEdges(f) ==
  LET dom == Dom(f)
  IN {e \in Blocks(f) \X Blocks(f) : e[2] \in Range(f.succ[e[1]]) /\ e[1] \in dom[e[2]]}

\* Loops(f)[h]: the blocks of the loop with header h.
Loops(f) ==
  LET pred == Pred(f)
      back == BackEdges(f)
      body(h) == Reach([n \in Blocks(f) |-> IF n = h THEN {} ELSE pred[n]],
                       {h} \cup {e[1] : e \in {b \in back : b[2] = h}})
  IN [h \in {e[2] : e \in back} |-> body(h)]

\* The header of the innermost loop around n, or 0.
LoopFor(loops, n) ==
  LET around == {h \in DOMAIN loops : n \in loops[h]}
  IN IF around = {} THEN 0
     ELSE CHOOSE h \in around : \A g \in around : loops[h] \subseteq loops[g]

\* The only element of a set, or 0.
Unique(S) == IF Cardinality(S) = 1 THEN CHOOSE x \in S : TRUE ELSE 0

Preheader(f, loop, h) ==
  LET p == Unique(Pred(f)[h] \ loop)
  IN IF p # 0 /\ Len(f.succ[p]) = 1 THEN p ELSE 0

Latches(f, loop, h) == Pred(f)[h] \cap loop

ExitingBlocks(f, loop) ==
  {n \in loop : \E s \in Range(f.succ[n]) : s \notin loop}

-----------------------------------------------------------------------------
(***************************************************************************)
(* Single-entry single-exit regions, as RegionInfo finds them.             *)
(***************************************************************************)
\* RegionInfo::isRegion.
IsRegion(f, dom, df, a, e) ==
  IF e \notin dom[a] THEN df[a] \subseteq {a, e}
  ELSE /\ \A x \in df[a] \ {a, e} :
            /\ x \in df[e]
            /\ Pred(f)[x] \cap dom[a] \subseteq dom[e]
       /\ df[e] \cap dom[a] \subseteq {a, e}

\* Regions(f): the pairs of an entry and an exit.  The exits are looked for
\* up the post-dominator tree; one where regions already start is skipped
\* over to their end.  An exit post-dominates its entry.
Regions(f) ==
  LET dom == Dom(f)  pdom == PDom(f)  df == DF(f)
      ups(n) == {m \in Blocks(f) \ {n} : n \in pdom[m]}
      ipdom == [n \in Blocks(f) |->
                  Unique({m \in ups(n) : ups(n) \subseteq ups(m) \cup {m}})]
      exits[a \in Blocks(f)] ==
        LET jump[n \in Blocks(f)] ==
              IF exits[n] = << >> THEN n
              ELSE LET e == Last(exits[n])
                   IN IF e \in dom[n] THEN jump[e] ELSE e
            walk[n \in Blocks(f) \cup {0}] ==
              IF n = 0 THEN << >>
              ELSE (IF IsRegion(f, dom, df, a, n) THEN <<n>> ELSE << >>)
                   \o (IF n \in dom[a] THEN walk[ipdom[jump[n]]] ELSE << >>)
        IN walk[ipdom[a]]
  IN {r \in Blocks(f) \X Blocks(f) :
        /\ r[2] \in ups(r[1]) /\ IsRegion(f, dom, df, r[1], r[2])
        /\ r[2] \in Range(exits[r[1]])
        /\ f.succ[r[1]] # <<r[2]>>}

\* Region::contains.
InRegion(dom, r, n) ==
  n \in dom[r[1]] /\ ~(n \in dom[r[2]] /\ r[2] \in dom[r[1]])

-----------------------------------------------------------------------------
(***************************************************************************)
(* Changes to a graph.                                                     *)
(***************************************************************************)
\* A new block, at place p of the layout.
AddBlock(f, p, code, succ) ==
  [ layout |-> InsertAt(f.layout, p, Len(f.code) + 1),
    code   |-> Append(f.code, code),
    succ   |-> Append(f.succ, succ) ]

Place(f, n) == CHOOSE p \in DOMAIN f.layout : f.layout[p] = n

\* llvm::SplitBlock in front of the p-th instruction of n.
Split(f, n, p) ==
  LET g == AddBlock(f, Place(f, n) + 1,
                    SubSeq(f.code[n], p, Len(f.code[n])), f.succ[n])
  IN [g EXCEPT !.code[n] = SubSeq(@, 1, p - 1), !.succ[n] = <<Len(g.code)>>]

\* llvm::SplitBlockPredecessors.
SplitPredecessors(f, n, P) ==
  LET g == AddBlock(f, Place(f, n), << >>, <<n>>)
  IN [g EXCEPT !.succ = [m \in DOMAIN @ |->
                           IF m \in P THEN ReplaceAll(@[m], n, Len(g.code))
                           ELSE @[m]]]
=============================================================================
