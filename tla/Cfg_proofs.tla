----------------------------- MODULE Cfg_proofs -----------------------------
(***************************************************************************)
(* What Reach computes, for any finite graph: the least set of nodes that  *)
(* has those it starts from and is closed.  That its recursion is well     *)
(* defined comes first: Closure solves its equation, and as the sets only  *)
(* grow inside a finite set, nothing else does.  At the end, induction     *)
(* over the lengths of sequences, and what FlattenSeq builds.              *)
(***************************************************************************)
EXTENDS Cfg, FiniteSetTheorems, WellFoundedInduction, TLAPS

IsGraph(next) == IsFiniteSet(DOMAIN next) /\ next \in [DOMAIN next -> SUBSET DOMAIN next]

\* What leads out of no node of C leads out of C.
ClosedUnder(next, C) == \A n \in C : next[n] \subseteq C

\* The nodes that every closed set around S has.
Closure(next, S) ==
  {n \in DOMAIN next :
     \A C \in SUBSET DOMAIN next : S \subseteq C /\ ClosedUnder(next, C) => n \in C}

\* One round of Reach.
Grown(next, T) == T \cup UNION {next[n] : n \in T}

Grows(next, g) ==
  g = [T \in SUBSET DOMAIN next |-> IF Grown(next, T) = T THEN T ELSE g[Grown(next, T)]]

-----------------------------------------------------------------------------
LEMMA ClosureFacts ==
  ASSUME NEW next, IsGraph(next), NEW S \in SUBSET DOMAIN next
  PROVE  /\ Closure(next, S) \in SUBSET DOMAIN next
         /\ S \subseteq Closure(next, S)
         /\ ClosedUnder(next, Closure(next, S))
         /\ \A C : S \subseteq C /\ ClosedUnder(next, C) => Closure(next, S) \subseteq C
<1>1. ASSUME NEW n \in Closure(next, S), NEW m \in next[n] PROVE m \in Closure(next, S)
  BY DEF Closure, ClosedUnder, IsGraph
<1>2. ASSUME NEW C, S \subseteq C, ClosedUnder(next, C), NEW n \in Closure(next, S)
      PROVE  n \in C
  <2> DEFINE B == C \cap DOMAIN next
  <2>1. B \in SUBSET DOMAIN next /\ S \subseteq B /\ ClosedUnder(next, B)
    BY <1>2 DEF ClosedUnder, IsGraph
  <2> HIDE DEF B
  <2>2. n \in B
    BY <2>1 DEF Closure
  <2> QED BY <2>2 DEF B
<1> QED BY <1>1, <1>2 DEF Closure, ClosedUnder

LEMMA GrownFacts ==
  ASSUME NEW next, IsGraph(next), NEW T \in SUBSET DOMAIN next
  PROVE  /\ Grown(next, T) \in SUBSET DOMAIN next /\ T \subseteq Grown(next, T)
         /\ Grown(next, T) = T => Closure(next, T) = T
         /\ Closure(next, Grown(next, T)) = Closure(next, T)
<1>1. Grown(next, T) \in SUBSET DOMAIN next /\ T \subseteq Grown(next, T)
  BY DEF Grown, IsGraph
<1>2. ASSUME Grown(next, T) = T PROVE Closure(next, T) = T
  <2>1. ClosedUnder(next, T)
    BY <1>2 DEF Grown, ClosedUnder
  <2> QED BY <2>1, ClosureFacts
<1>3. Closure(next, T) \subseteq Closure(next, Grown(next, T))
  BY <1>1, ClosureFacts
<1>4. Grown(next, T) \subseteq Closure(next, T)
  BY ClosureFacts DEF Grown, ClosedUnder
<1>5. Closure(next, Grown(next, T)) \subseteq Closure(next, T)
  BY <1>1, <1>4, ClosureFacts
<1> QED BY <1>1, <1>2, <1>3, <1>5

\* Nothing else solves the equation: where g is wrong on a largest set, it
\* is wrong on the larger set it asks about.
LEMMA GrowsUnique ==
  ASSUME NEW next, IsGraph(next), NEW g, Grows(next, g), NEW S \in SUBSET DOMAIN next
  PROVE  g[S] = Closure(next, S)
<1> DEFINE D == DOMAIN next
           Less == StrictSubsetOrdering(D)
           wrong == {C \in SUBSET D : g[D \ C] # Closure(next, D \ C)}
<1>1. ASSUME NEW T \in SUBSET D
      PROVE  g[T] = IF Grown(next, T) = T THEN T ELSE g[Grown(next, T)]
  BY DEF Grows
<1>2. SUFFICES wrong = {}
  <2>1. D \ S \in SUBSET D /\ D \ (D \ S) = S
    OBVIOUS
  <2> QED BY <2>1
<1>3. SUFFICES ASSUME wrong # {} PROVE FALSE
  OBVIOUS
<1>4. IsWellFoundedOn(Less, SUBSET D)
  BY FS_StrictSubsetOrderingWellFounded, FS_FiniteSubsetsOfFinite DEF IsGraph
<1>5. wrong \subseteq SUBSET D
  OBVIOUS
<1> HIDE DEF Less, wrong
<1>6. PICK C \in wrong : \A B \in wrong : <<B, C>> \notin Less
  BY <1>3, <1>4, <1>5, WFMin, Zenon
<1> DEFINE T == D \ C
           U == Grown(next, T)
           B == D \ U
<1>7. C \in SUBSET D /\ g[T] # Closure(next, T)
  BY <1>6 DEF wrong
<1>8. /\ T \in SUBSET D /\ U \in SUBSET D /\ T \subseteq U
      /\ U = T => Closure(next, T) = T
      /\ Closure(next, U) = Closure(next, T)
  BY <1>7, GrownFacts
<1> HIDE DEF U
<1>9. U # T /\ g[U] # Closure(next, U)
  BY <1>1, <1>7, <1>8 DEF U
<1>10. D \ B = U /\ B \in SUBSET D /\ B \subseteq C /\ B # C
  BY <1>7, <1>8, <1>9
<1>11. B \in wrong
  BY <1>9, <1>10 DEF wrong
<1>12. <<B, C>> \in Less
  BY <1>7, <1>10 DEF Less, StrictSubsetOrdering
<1> QED BY <1>6, <1>11, <1>12

LEMMA ReachClosure ==
  ASSUME NEW next, IsGraph(next), NEW S \in SUBSET DOMAIN next
  PROVE  Reach(next, S) = Closure(next, S)
<1> DEFINE good == [T \in SUBSET DOMAIN next |-> Closure(next, T)]
           grow == CHOOSE g : Grows(next, g)
<1>1. Grows(next, good)
  BY GrownFacts, Zenon DEF Grows
<1>2. Grows(next, grow)
  BY <1>1, Zenon
<1>3. Reach(next, S) = grow[S]
  BY Zenon DEF Reach, Grows, Grown
<1> QED BY <1>2, <1>3, GrowsUnique

\* Reach has the nodes it starts from, is closed, and is the least set that
\* has and is: what SingleSource, dominance, loops and the triplets rest on.
THEOREM ReachIsLeast ==
  ASSUME NEW next, IsGraph(next), NEW S \in SUBSET DOMAIN next
  PROVE  /\ Reach(next, S) \in SUBSET DOMAIN next
         /\ S \subseteq Reach(next, S)
         /\ ClosedUnder(next, Reach(next, S))
         /\ \A C : S \subseteq C /\ ClosedUnder(next, C) => Reach(next, S) \subseteq C
BY ReachClosure, ClosureFacts

\* Along the edges: what v leads to is v and what its successors lead to.
LEMMA ReachUnfold ==
  ASSUME NEW next, IsGraph(next), NEW v \in DOMAIN next
  PROVE  Reach(next, {v}) = {v} \cup Reach(next, next[v])
<1>1. {v} \in SUBSET DOMAIN next /\ next[v] \in SUBSET DOMAIN next
  BY DEF IsGraph
<1>2. v \in Reach(next, {v}) /\ next[v] \subseteq Reach(next, {v})
  BY <1>1, ReachIsLeast DEF ClosedUnder
<1>3. Reach(next, next[v]) \subseteq Reach(next, {v})
  BY <1>1, <1>2, ReachIsLeast
<1> DEFINE C == {v} \cup Reach(next, next[v])
<1>4. ClosedUnder(next, C)
  BY <1>1, ReachIsLeast DEF ClosedUnder
<1>5. Reach(next, {v}) \subseteq C
  <2> HIDE DEF C
  <2>1. {v} \subseteq C
    BY DEF C
  <2> QED BY <1>1, <1>4, <2>1, ReachIsLeast
<1> QED BY <1>2, <1>3, <1>5

\* What is reached from a set is reached from one of its nodes.
LEMMA ReachUnion ==
  ASSUME NEW next, IsGraph(next), NEW S \in SUBSET DOMAIN next
  PROVE  Reach(next, S) = UNION {Reach(next, {v}) : v \in S}
<1> DEFINE R == UNION {Reach(next, {v}) : v \in S}
<1>1. ASSUME NEW v \in S
      PROVE  /\ {v} \in SUBSET DOMAIN next /\ v \in Reach(next, {v})
             /\ ClosedUnder(next, Reach(next, {v}))
             /\ Reach(next, {v}) \subseteq Reach(next, S)
  BY ReachIsLeast
<1>2. S \subseteq R /\ ClosedUnder(next, R)
  BY <1>1 DEF ClosedUnder
<1>3. R \subseteq Reach(next, S)
  BY <1>1
<1> HIDE DEF R
<1>4. Reach(next, S) \subseteq R
  BY <1>2, ReachIsLeast
<1> QED BY <1>3, <1>4 DEF R

\* From where one gets, one gets no further.
LEMMA ReachTransitive ==
  ASSUME NEW next, IsGraph(next), NEW S \in SUBSET DOMAIN next,
         NEW T, T \subseteq Reach(next, S)
  PROVE  Reach(next, T) \subseteq Reach(next, S)
<1>1. T \in SUBSET DOMAIN next
  BY ReachIsLeast
<1> QED BY <1>1, ReachIsLeast

-----------------------------------------------------------------------------
(***************************************************************************)
(* Dominance: what is not behind a is the least set that is reached        *)
(* without a.                                                              *)
(***************************************************************************)
\* A graph without one of its nodes.
Cut(next, a) == [n \in DOMAIN next \ {a} |-> next[n] \ {a}]

LEMMA CutGraph ==
  ASSUME NEW next, IsGraph(next), NEW a
  PROVE  /\ IsGraph(Cut(next, a)) /\ DOMAIN Cut(next, a) = DOMAIN next \ {a}
         /\ \A n \in DOMAIN next \ {a} : Cut(next, a)[n] = next[n] \ {a}
<1>1. IsFiniteSet(DOMAIN next \ {a})
  BY FS_Subset DEF IsGraph
<1> QED BY <1>1 DEF IsGraph, Cut

LEMMA BehindFacts ==
  ASSUME NEW next, IsGraph(next), NEW S \in SUBSET DOMAIN next, NEW a \in DOMAIN next
  PROVE  /\ Behind(next, S, a) \subseteq DOMAIN next
         /\ a \in Behind(next, S, a)
         /\ \A n \in S : n = a \/ n \notin Behind(next, S, a)
         /\ \A n \in DOMAIN next \ Behind(next, S, a) : \A m \in next[n] :
              m = a \/ m \notin Behind(next, S, a)
         /\ \A C : /\ \A n \in S : n = a \/ n \in C
                   /\ \A n \in C \cap DOMAIN next : \A m \in next[n] : n = a \/ m = a \/ m \in C
                   => \A n \in DOMAIN next : n \in C \/ n \in Behind(next, S, a)
<1> DEFINE cut == Cut(next, a)
           R == Reach(cut, S \ {a})
<1>1. /\ IsGraph(cut) /\ DOMAIN cut = DOMAIN next \ {a} /\ S \ {a} \in SUBSET DOMAIN cut
      /\ \A n \in DOMAIN cut : cut[n] = next[n] \ {a}
  <2>1. /\ IsGraph(cut) /\ DOMAIN cut = DOMAIN next \ {a}
        /\ \A n \in DOMAIN next \ {a} : cut[n] = next[n] \ {a}
    BY ONLY CutGraph, IsGraph(next)
  <2> HIDE DEF cut
  <2> QED BY <2>1
<1>2. Behind(next, S, a) = DOMAIN next \ R
  BY DEF Behind, Cut
<1> HIDE DEF cut
<1>3. /\ R \subseteq DOMAIN cut /\ S \ {a} \subseteq R /\ ClosedUnder(cut, R)
      /\ \A C : S \ {a} \subseteq C /\ ClosedUnder(cut, C) => R \subseteq C
  BY <1>1, ReachIsLeast
<1> HIDE DEF R
<1>4. \A n \in DOMAIN next \ Behind(next, S, a) : \A m \in next[n] :
        m = a \/ m \notin Behind(next, S, a)
  BY <1>1, <1>2, <1>3 DEF ClosedUnder, IsGraph
<1>5. ASSUME NEW C,
             \A n \in S : n = a \/ n \in C,
             \A n \in C \cap DOMAIN next : \A m \in next[n] : n = a \/ m = a \/ m \in C
      PROVE  \A n \in DOMAIN next : n \in C \/ n \in Behind(next, S, a)
  <2> DEFINE B == C \cap DOMAIN cut
  <2>1. S \ {a} \subseteq B
    BY <1>1, <1>5
  <2>2. ClosedUnder(cut, B)
    BY <1>1, <1>5 DEF ClosedUnder, IsGraph
  <2> HIDE DEF B
  <2>3. R \subseteq B
    BY <1>3, <2>1, <2>2
  <2> QED BY <1>2, <2>3 DEF B
<1> QED BY <1>1, <1>2, <1>3, <1>4, <1>5

\* What a does not dominate is reached, and if a is reached and not where
\* it all starts, so is one of its predecessors that a does not dominate.
LEMMA NotBehind ==
  ASSUME NEW next, IsGraph(next), NEW S \in SUBSET DOMAIN next,
         NEW a \in DOMAIN next
  PROVE  /\ DOMAIN next \ Behind(next, S, a) \subseteq Reach(next, S)
         /\ a \in Reach(next, S) \ S =>
              \E p \in DOMAIN next : a \in next[p] /\ p \notin Behind(next, S, a)
<1> DEFINE B == Behind(next, S, a)
           Q == Reach(next, S)
<1>1. /\ \A n \in S : n = a \/ n \notin B
      /\ \A n \in DOMAIN next \ B : \A m \in next[n] : m = a \/ m \notin B
      /\ \A C : /\ \A n \in S : n = a \/ n \in C
                /\ \A n \in C \cap DOMAIN next : \A m \in next[n] : n = a \/ m = a \/ m \in C
                => \A n \in DOMAIN next : n \in C \/ n \in B
      /\ a \in B
  BY BehindFacts
<1>2. /\ Q \in SUBSET DOMAIN next /\ S \subseteq Q /\ ClosedUnder(next, Q)
      /\ \A C : S \subseteq C /\ ClosedUnder(next, C) => Q \subseteq C
  BY ReachIsLeast
<1> HIDE DEF B, Q
<1>3. DOMAIN next \ B \subseteq Q
  <2>1. \A n \in S : n = a \/ n \in Q
    BY <1>2
  <2>2. \A n \in Q \cap DOMAIN next : \A m \in next[n] : n = a \/ m = a \/ m \in Q
    BY <1>2 DEF ClosedUnder
  <2> QED BY <1>1, <2>1, <2>2
<1>4. ASSUME a \in Q \ S, \A p \in DOMAIN next : a \in next[p] => p \in B
      PROVE  FALSE
  <2> DEFINE C == DOMAIN next \ B
  <2>1. S \subseteq C
    BY <1>1, <1>4
  <2>2. ClosedUnder(next, C)
    BY <1>1, <1>4 DEF ClosedUnder, IsGraph
  <2> HIDE DEF C
  <2>3. Q \subseteq C
    BY <1>2, <2>1, <2>2
  <2> QED BY <1>1, <1>4, <2>3 DEF C
<1> QED BY <1>3, <1>4 DEF B, Q

\* Dominance is transitive.
LEMMA BehindTransitive ==
  ASSUME NEW next, IsGraph(next), NEW S \in SUBSET DOMAIN next,
         NEW x \in DOMAIN next, NEW y \in Behind(next, S, x)
  PROVE  Behind(next, S, y) \subseteq Behind(next, S, x)
<1> DEFINE X == Behind(next, S, x)
           Y == Behind(next, S, y)
           C == DOMAIN next \ (X \cup Y)
<1>1. /\ X \subseteq DOMAIN next /\ \A n \in S : n = x \/ n \notin X
      /\ \A n \in DOMAIN next \ X : \A m \in next[n] : m = x \/ m \notin X
      /\ \A D : /\ \A n \in S : n = x \/ n \in D
                /\ \A n \in D \cap DOMAIN next : \A m \in next[n] : n = x \/ m = x \/ m \in D
                => \A n \in DOMAIN next : n \in D \/ n \in X
  BY BehindFacts
<1>2. y \in DOMAIN next
  BY <1>1
<1>3. /\ Y \subseteq DOMAIN next /\ \A n \in S : n = y \/ n \notin Y
      /\ \A n \in DOMAIN next \ Y : \A m \in next[n] : m = y \/ m \notin Y
  BY <1>2, BehindFacts
<1> HIDE DEF X, Y
<1>4. y \in X
  BY DEF X
<1>5. \A n \in S : n = x \/ n \in C
  BY <1>1, <1>3, <1>4
<1>6. \A n \in C \cap DOMAIN next : \A m \in next[n] : n = x \/ m = x \/ m \in C
  BY <1>1, <1>3, <1>4 DEF IsGraph
<1> HIDE DEF C
<1>7. \A n \in DOMAIN next : n \in C \/ n \in X
  BY <1>1, <1>5, <1>6
<1> QED BY <1>3, <1>7 DEF C, X, Y

\* Of two that dominate each other neither is reached.
LEMMA BehindAntisymmetric ==
  ASSUME NEW next, IsGraph(next), NEW S \in SUBSET DOMAIN next,
         NEW x \in Reach(next, S), NEW y \in Behind(next, S, x), x \in Behind(next, S, y)
  PROVE  x = y
<1> DEFINE Q == Reach(next, S)
           X == Behind(next, S, x)
           Y == Behind(next, S, y)
           C == DOMAIN next \ X
<1>1. /\ Q \subseteq DOMAIN next
      /\ \A D : S \subseteq D /\ ClosedUnder(next, D) => Q \subseteq D
  BY ReachIsLeast
<1>2. /\ X \subseteq DOMAIN next /\ x \in X /\ \A n \in S : n = x \/ n \notin X
      /\ \A n \in DOMAIN next \ X : \A m \in next[n] : m = x \/ m \notin X
  BY <1>1, BehindFacts
<1>3. /\ \A n \in S : n = y \/ n \notin Y
      /\ \A n \in DOMAIN next \ Y : \A m \in next[n] : m = y \/ m \notin Y
  BY <1>2, BehindFacts
<1>4. X = Y
  <2>1. X \subseteq Y
    BY <1>1, <1>2, BehindTransitive
  <2>2. Y \subseteq X
    BY <1>1, <1>2, BehindTransitive
  <2> QED BY <2>1, <2>2
<1> HIDE DEF Q, X, Y
<1>5. SUFFICES ASSUME x # y PROVE FALSE
  OBVIOUS
<1>6. S \subseteq C
  BY <1>2, <1>3, <1>4, <1>5
<1>7. ClosedUnder(next, C)
  BY <1>2, <1>3, <1>4, <1>5 DEF ClosedUnder, IsGraph
<1> HIDE DEF C
<1>8. Q \subseteq C
  BY <1>1, <1>6, <1>7
<1> QED BY <1>2, <1>8 DEF C, Q

\* Of two that dominate the same reached node, one dominates the other.
LEMMA BehindComparable ==
  ASSUME NEW next, IsGraph(next), NEW S \in SUBSET DOMAIN next,
         NEW x \in DOMAIN next, NEW y \in DOMAIN next,
         NEW p \in Reach(next, S), p \in Behind(next, S, x), p \in Behind(next, S, y)
  PROVE  x \in Behind(next, S, y) \/ y \in Behind(next, S, x)
<1> DEFINE Q == Reach(next, S)
           X == Behind(next, S, x)
           Y == Behind(next, S, y)
           C == DOMAIN next \ (X \cap Y)
<1>1. \A D : S \subseteq D /\ ClosedUnder(next, D) => Q \subseteq D
  BY ReachIsLeast
<1>2. /\ \A n \in S : n = x \/ n \notin X
      /\ \A n \in DOMAIN next \ X : \A m \in next[n] : m = x \/ m \notin X
  BY BehindFacts
<1>3. /\ \A n \in S : n = y \/ n \notin Y
      /\ \A n \in DOMAIN next \ Y : \A m \in next[n] : m = y \/ m \notin Y
  BY BehindFacts
<1>4. p \in Q /\ p \in X /\ p \in Y
  OBVIOUS
<1> HIDE DEF Q, X, Y
<1>5. SUFFICES ASSUME x \notin Y, y \notin X PROVE FALSE
  BY DEF X, Y
<1>6. S \subseteq C
  BY <1>2, <1>3, <1>5
<1>7. ClosedUnder(next, C)
  BY <1>2, <1>3, <1>5 DEF ClosedUnder, IsGraph
<1> HIDE DEF C
<1>8. Q \subseteq C
  BY <1>1, <1>6, <1>7
<1> QED BY <1>4, <1>8 DEF C

-----------------------------------------------------------------------------
(***************************************************************************)
(* A node b put on edges: where a node led to all that b leads to, it may  *)
(* lead to b instead.  Nothing is lost, and nothing gets closer.           *)
(***************************************************************************)
Subdivided(next, into, b) ==
  /\ b \notin DOMAIN next
  /\ into \in [DOMAIN next \cup {b} -> SUBSET (DOMAIN next \cup {b})]
  /\ into[b] \subseteq DOMAIN next
  /\ \A n \in DOMAIN next : \A m \in into[n] : m = b \/ m \in next[n]
  /\ \A n \in DOMAIN next : b \in into[n] => into[b] \subseteq next[n]
  /\ \A n \in DOMAIN next : \A m \in next[n] : m \in into[n] \/ (b \in into[n] /\ m \in into[b])

LEMMA SubdividedGraph ==
  ASSUME NEW next, IsGraph(next), NEW b, NEW into, Subdivided(next, into, b)
  PROVE  IsGraph(into) /\ DOMAIN into = DOMAIN next \cup {b}
<1>1. IsFiniteSet(DOMAIN next \cup {b})
  BY FS_AddElement DEF IsGraph
<1> QED BY <1>1 DEF IsGraph, Subdivided

\* What was reached is reached, nothing else but b, and b where it is on the
\* way out of a node that is reached.
LEMMA SubdividedReach ==
  ASSUME NEW next, IsGraph(next), NEW b, NEW into, Subdivided(next, into, b),
         NEW S \in SUBSET DOMAIN next
  PROVE  /\ \A n \in DOMAIN next : n \in Reach(into, S) <=> n \in Reach(next, S)
         /\ b \in Reach(into, S) <=> \E n \in Reach(next, S) : b \in into[n]
<1> DEFINE Q == Reach(next, S)
           R == Reach(into, S)
           B == Q \cup {m \in {b} : \E n \in Q : b \in into[n]}
           C == R \ {b}
<1>1. /\ IsGraph(into) /\ DOMAIN into = DOMAIN next \cup {b}
      /\ S \in SUBSET DOMAIN into
  <2>1. IsGraph(into) /\ DOMAIN into = DOMAIN next \cup {b}
    BY ONLY SubdividedGraph, IsGraph(next), Subdivided(next, into, b)
  <2> QED BY <2>1
<1>2. /\ Q \subseteq DOMAIN next /\ S \subseteq Q /\ ClosedUnder(next, Q)
      /\ \A D : S \subseteq D /\ ClosedUnder(next, D) => Q \subseteq D
  BY ReachIsLeast
<1>3. /\ R \subseteq DOMAIN into /\ S \subseteq R /\ ClosedUnder(into, R)
      /\ \A D : S \subseteq D /\ ClosedUnder(into, D) => R \subseteq D
  BY <1>1, ReachIsLeast
<1> HIDE DEF Q, R
<1>4. R \subseteq B
  <2>1. S \subseteq B
    BY <1>2
  <2>2. ASSUME NEW n \in B, NEW m \in into[n] PROVE m \in B
    <3>1. CASE n \in Q
      BY <1>2, <2>2, <3>1 DEF ClosedUnder, Subdivided
    <3>2. CASE n = b /\ \E k \in Q : b \in into[k]
      <4>1. PICK k \in Q : b \in into[k]
        BY <3>2
      <4>2. m \in next[k]
        BY <1>2, <2>2, <3>2, <4>1 DEF Subdivided
      <4> QED BY <1>2, <4>1, <4>2 DEF ClosedUnder
    <3> QED BY <2>2, <3>1, <3>2
  <2>3. ClosedUnder(into, B)
    BY <2>2 DEF ClosedUnder
  <2> HIDE DEF B
  <2> QED BY <1>3, <2>1, <2>3
<1>5. Q \subseteq C
  <2>1. S \subseteq C
    BY <1>3 DEF Subdivided
  <2>2. ASSUME NEW n \in C, NEW m \in next[n] PROVE m \in C
    <3>1. n \in DOMAIN next
      BY <1>1, <1>3
    <3>2. m \in DOMAIN next /\ m # b
      BY <2>2, <3>1 DEF IsGraph, Subdivided
    <3>3. m \in into[n] \/ (b \in into[n] /\ m \in into[b])
      BY <2>2, <3>1 DEF Subdivided
    <3> QED BY <1>3, <3>2, <3>3 DEF ClosedUnder
  <2>3. ClosedUnder(next, C)
    BY <2>2 DEF ClosedUnder
  <2> HIDE DEF C
  <2> QED BY <1>2, <2>1, <2>3
<1>6. (\E n \in Q : b \in into[n]) => b \in R
  BY <1>3, <1>5 DEF ClosedUnder
<1>7. b \notin Q
  BY <1>2 DEF Subdivided
<1>8. ASSUME NEW n \in DOMAIN next PROVE n \in R <=> n \in Q
  BY <1>4, <1>5, <1>8 DEF Subdivided
<1>9. b \in R <=> \E n \in Q : b \in into[n]
  BY <1>4, <1>6, <1>7
<1> QED BY <1>8, <1>9 DEF Q, R

LEMMA SubdividedCut ==
  ASSUME NEW next, IsGraph(next), NEW b, NEW into, Subdivided(next, into, b),
         NEW x \in DOMAIN next
  PROVE  Subdivided(Cut(next, x), Cut(into, x), b)
<1> DEFINE n1 == Cut(next, x)
           i1 == Cut(into, x)
<1>1. /\ DOMAIN n1 = DOMAIN next \ {x}
      /\ \A n \in DOMAIN next \ {x} : n1[n] = next[n] \ {x}
  BY CutGraph
<1>2. IsGraph(into) /\ DOMAIN into = DOMAIN next \cup {b} /\ b # x
  BY SubdividedGraph DEF Subdivided
<1>3. /\ DOMAIN i1 = DOMAIN into \ {x} /\ IsGraph(i1)
      /\ \A n \in DOMAIN into \ {x} : i1[n] = into[n] \ {x}
  BY <1>2, CutGraph
<1> HIDE DEF n1, i1
<1>4. b \notin DOMAIN n1 /\ b \in DOMAIN i1 /\ DOMAIN i1 = DOMAIN n1 \cup {b}
  BY <1>1, <1>2, <1>3 DEF Subdivided
<1>5. i1 \in [DOMAIN n1 \cup {b} -> SUBSET (DOMAIN n1 \cup {b})]
  BY <1>3, <1>4 DEF IsGraph
<1>6. i1[b] \subseteq DOMAIN n1
  BY <1>1, <1>2, <1>3 DEF Subdivided
<1>7. \A n \in DOMAIN n1 : \A m \in i1[n] : m = b \/ m \in n1[n]
  BY <1>1, <1>2, <1>3 DEF Subdivided
<1>8. \A n \in DOMAIN n1 : b \in i1[n] => i1[b] \subseteq n1[n]
  BY <1>1, <1>2, <1>3 DEF Subdivided
<1>9. \A n \in DOMAIN n1 : \A m \in n1[n] : m \in i1[n] \/ (b \in i1[n] /\ m \in i1[b])
  BY <1>1, <1>2, <1>3 DEF Subdivided
<1>10. Subdivided(n1, i1, b)
  BY <1>4, <1>5, <1>6, <1>7, <1>8, <1>9 DEF Subdivided
<1> QED BY <1>10 DEF n1, i1

\* Old nodes dominate what they dominated, and b if they dominate all that
\* leads to it.
LEMMA SubdividedBehind ==
  ASSUME NEW next, IsGraph(next), NEW b, NEW into, Subdivided(next, into, b),
         NEW S \in SUBSET DOMAIN next, NEW x \in DOMAIN next
  PROVE  /\ \A n \in DOMAIN next : n \in Behind(into, S, x) <=> n \in Behind(next, S, x)
         /\ b \in Behind(into, S, x) <=>
              \A n \in DOMAIN next : b \in into[n] => n \in Behind(next, S, x)
<1> DEFINE n1 == Cut(next, x)
           i1 == Cut(into, x)
           T == S \ {x}
           Q == Reach(n1, T)
           R == Reach(i1, T)
<1>1. Subdivided(n1, i1, b)
  BY SubdividedCut
<1>2. /\ DOMAIN n1 = DOMAIN next \ {x} /\ IsGraph(n1)
      /\ \A n \in DOMAIN next \ {x} : n1[n] = next[n] \ {x}
  BY CutGraph
<1>3. IsGraph(into) /\ DOMAIN into = DOMAIN next \cup {b} /\ b # x /\ b \notin DOMAIN next
  BY SubdividedGraph DEF Subdivided
<1>4. /\ DOMAIN i1 = DOMAIN into \ {x}
      /\ \A n \in DOMAIN into \ {x} : i1[n] = into[n] \ {x}
  BY <1>3, CutGraph
<1>5. Behind(next, S, x) = DOMAIN next \ Q /\ Behind(into, S, x) = DOMAIN into \ R
  BY DEF Behind, Cut
<1> HIDE DEF n1, i1
<1>6. T \in SUBSET DOMAIN n1
  BY <1>2
<1> HIDE DEF T
<1>7. /\ \A n \in DOMAIN n1 : n \in R <=> n \in Q
      /\ b \in R <=> \E n \in Q : b \in i1[n]
  BY <1>1, <1>2, <1>6, SubdividedReach
<1>8. Q \subseteq DOMAIN n1
  BY <1>2, <1>6, ReachIsLeast
<1>9. R \subseteq DOMAIN i1
  <2>1. IsGraph(i1) /\ T \in SUBSET DOMAIN i1
    <3>1. IsGraph(i1) /\ DOMAIN i1 = DOMAIN n1 \cup {b}
      BY ONLY <1>1, <1>2, SubdividedGraph
    <3> QED BY <1>6, <3>1
  <2> QED BY <2>1, ReachIsLeast
<1> HIDE DEF Q, R
<1>10. \A n \in DOMAIN next : n \in Behind(into, S, x) <=> n \in Behind(next, S, x)
  BY <1>2, <1>3, <1>4, <1>5, <1>7, <1>8, <1>9
<1>11. b \in Behind(into, S, x) <=>
         \A n \in DOMAIN next : b \in into[n] => n \in Behind(next, S, x)
  BY <1>2, <1>3, <1>4, <1>5, <1>7, <1>8
<1> QED BY <1>10, <1>11

\* The edges the other way round.
Reversed(next) == [m \in DOMAIN next |-> {n \in DOMAIN next : m \in next[n]}]

LEMMA ReversedGraph ==
  ASSUME NEW next, IsGraph(next)
  PROVE  IsGraph(Reversed(next)) /\ DOMAIN Reversed(next) = DOMAIN next
BY DEF IsGraph, Reversed

LEMMA SubdividedReversed ==
  ASSUME NEW next, IsGraph(next), NEW b, NEW into, Subdivided(next, into, b)
  PROVE  Subdivided(Reversed(next), Reversed(into), b)
<1> DEFINE n1 == Reversed(next)
           i1 == Reversed(into)
<1>1. IsGraph(into) /\ DOMAIN into = DOMAIN next \cup {b} /\ b \notin DOMAIN next
  BY SubdividedGraph DEF Subdivided
<1>2. /\ DOMAIN n1 = DOMAIN next
      /\ \A m \in DOMAIN next : n1[m] = {n \in DOMAIN next : m \in next[n]}
  BY DEF Reversed
<1>3. /\ DOMAIN i1 = DOMAIN next \cup {b}
      /\ \A m \in DOMAIN next \cup {b} : i1[m] = {n \in DOMAIN next \cup {b} : m \in into[n]}
      /\ i1 \in [DOMAIN next \cup {b} -> SUBSET (DOMAIN next \cup {b})]
  BY <1>1 DEF Reversed
<1> HIDE DEF n1, i1
<1>4. i1[b] \subseteq DOMAIN n1
  BY <1>1, <1>2, <1>3 DEF Subdivided
<1>5. \A n \in DOMAIN n1 : \A m \in i1[n] : m = b \/ m \in n1[n]
  BY <1>1, <1>2, <1>3 DEF Subdivided
<1>6. \A n \in DOMAIN n1 : b \in i1[n] => i1[b] \subseteq n1[n]
  BY <1>1, <1>2, <1>3 DEF Subdivided
<1>7. \A n \in DOMAIN n1 : \A m \in n1[n] : m \in i1[n] \/ (b \in i1[n] /\ m \in i1[b])
  BY <1>1, <1>2, <1>3 DEF Subdivided
<1>8. Subdivided(n1, i1, b)
  BY <1>1, <1>2, <1>3, <1>4, <1>5, <1>6, <1>7 DEF Subdivided
<1> QED BY <1>8 DEF n1, i1

-----------------------------------------------------------------------------
(***************************************************************************)
(* Sequences: recursion over their lengths.                                *)
(***************************************************************************)
\* Induction over the natural numbers, for a set.
LEMMA SetInduction ==
  ASSUME NEW K, 0 \in K, \A k \in Nat : k \in K => k + 1 \in K
  PROVE  Nat \subseteq K
<1> DEFINE Less == OpToRel(<, Nat)
           wrong == Nat \ K
<1>1. SUFFICES ASSUME wrong # {} PROVE FALSE
  OBVIOUS
<1>2. IsWellFoundedOn(Less, Nat)
  BY NatLessThanWellFounded
<1>3. wrong \subseteq Nat
  OBVIOUS
<1>4. \A j, k \in Nat : j < k => <<j, k>> \in Less
  BY DEF OpToRel
<1> HIDE DEF Less
<1>5. PICK k \in wrong : \A j \in wrong : <<j, k>> \notin Less
  <2> HIDE DEF wrong
  <2> QED BY <1>1, <1>2, <1>3, WFMin, Zenon
<1>6. k \in Nat /\ k # 0 /\ k - 1 \in Nat /\ k - 1 < k /\ (k - 1) + 1 = k
  OBVIOUS
<1>7. k - 1 \in K
  BY <1>4, <1>5, <1>6
<1> QED BY <1>5, <1>6, <1>7

\* What FlattenSeq builds, up to the n-th of the sequences.
Flat(s, h, n) ==
  h = [i \in 1 .. n |-> IF i = 1 THEN s[i] ELSE h[i - 1] \o s[i]]

LEMMA FlatExists ==
  ASSUME NEW s, NEW n \in Nat
  PROVE  \E h : Flat(s, h, n)
<1> DEFINE K == {k \in Nat : \E h : Flat(s, h, k)}
<1>1. 0 \in K
  <2>1. Flat(s, [i \in 1 .. 0 |-> s], 0)
    BY DEF Flat
  <2> QED BY <2>1
<1>2. ASSUME NEW k \in Nat, NEW h, Flat(s, h, k)
      PROVE  \E e : Flat(s, e, k + 1)
  <2> DEFINE e == [i \in 1 .. k + 1 |->
                     IF i = k + 1 THEN IF i = 1 THEN s[i] ELSE h[k] \o s[i]
                     ELSE h[i]]
  <2>1. ASSUME NEW i \in 1 .. k + 1
        PROVE  e[i] = IF i = 1 THEN s[i] ELSE e[i - 1] \o s[i]
    <3>1. CASE i = k + 1
      <4>1. i # 1 => e[i - 1] = h[k]
        BY <3>1
      <4> QED BY <3>1, <4>1
    <3>2. CASE i # k + 1
      <4>1. i \in 1 .. k /\ e[i] = h[i] /\ (i # 1 => e[i - 1] = h[i - 1])
        BY <3>2
      <4>2. h[i] = IF i = 1 THEN s[i] ELSE h[i - 1] \o s[i]
        BY <1>2, <4>1, Zenon DEF Flat
      <4> QED BY <4>1, <4>2
    <3> QED BY <3>1, <3>2
  <2>2. e = [i \in 1 .. k + 1 |-> e[i]]
    OBVIOUS
  <2> HIDE DEF e
  <2>3. Flat(s, e, k + 1)
    BY <2>1, <2>2, Zenon DEF Flat
  <2> QED BY <2>3
<1>3. Nat \subseteq K
  <2>1. \A k \in Nat : k \in K => k + 1 \in K
    BY <1>2
  <2> HIDE DEF K
  <2> QED BY <1>1, <2>1, SetInduction
<1> QED BY <1>3
=============================================================================
