----------------------- MODULE BarrierPlacement_proofs -----------------------
(***************************************************************************)
(* The placement passes, for every kernel of any size: the walk of         *)
(* implicit-cond-barriers stays in the function (NeverNull), no barrier is *)
(* cut off (AlwaysReachable), every loop has a preheader when loop-barriers *)
(* asserts it (LoopsKeepPreheaders), and an instruction is followed by     *)
(* what followed it in the source (PathsAlwaysPreserved).                  *)
(*                                                                         *)
(* The invariant, PlacementInv, is that the function is well formed, that  *)
(* the entry reaches every block and every block a return, and that loops  *)
(* are in simplified form.  The passes change a graph in two ways only,    *)
(* SplitInto and SplitPredecessors, and both subdivide edges (Refines): the *)
(* old blocks reach and dominate one another as before.  Isolating a region *)
(* must also leave the regions still to come isolable, which it does as    *)
(* inner regions come first (InnerFirst).                                  *)
(*                                                                         *)
(* For the paths, FollowsInv: a cut leaves what Follows tells of a function *)
(* (FollowsCut), so does an empty block on some edges (FollowsDummy), and  *)
(* barriers that are put anywhere (SameIds).  Sinking below a condition is *)
(* a cut of the function whose conditions come first (FollowsSink).        *)
(***************************************************************************)
EXTENDS BarrierPlacement, Cfg_proofs, SequenceTheorems

-----------------------------------------------------------------------------
(***************************************************************************)
(* Sequences of what is taken, and of what is in sequences.                *)
(***************************************************************************)
\* A sequence of what is taken, after the first p of the layout.
Taken(g, S, h, n) ==
  h = [p \in 0 .. n |->
         IF p = 0 THEN << >>
         ELSE IF g.layout[p] \in S THEN Append(h[p - 1], g.layout[p])
         ELSE h[p - 1]]

LEMMA TakenExists ==
  ASSUME NEW g, NEW S, NEW n \in Nat
  PROVE  \E h : Taken(g, S, h, n)
<1> DEFINE K == {k \in Nat : \E h : Taken(g, S, h, k)}
<1>1. 0 \in K
  <2>1. Taken(g, S, [p \in 0 .. 0 |-> << >>], 0)
    BY DEF Taken
  <2> QED BY <2>1
<1>2. ASSUME NEW k \in Nat, NEW h, Taken(g, S, h, k)
      PROVE  \E e : Taken(g, S, e, k + 1)
  <2> DEFINE e == [p \in 0 .. k + 1 |->
                     IF p = k + 1
                     THEN IF g.layout[p] \in S THEN Append(h[k], g.layout[p]) ELSE h[k]
                     ELSE h[p]]
  <2>1. ASSUME NEW p \in 0 .. k + 1
        PROVE  e[p] = IF p = 0 THEN << >>
                      ELSE IF g.layout[p] \in S THEN Append(e[p - 1], g.layout[p])
                      ELSE e[p - 1]
    <3>1. CASE p = k + 1
      BY <3>1
    <3>2. CASE p # k + 1
      <4>1. p \in 0 .. k /\ e[p] = h[p] /\ (p # 0 => e[p - 1] = h[p - 1])
        BY <3>2
      <4>2. h[p] = IF p = 0 THEN << >>
                   ELSE IF g.layout[p] \in S THEN Append(h[p - 1], g.layout[p])
                   ELSE h[p - 1]
        BY <1>2, <4>1, Zenon DEF Taken
      <4> QED BY <4>1, <4>2
    <3> QED BY <3>1, <3>2
  <2>2. e = [p \in 0 .. k + 1 |-> e[p]]
    OBVIOUS
  <2> HIDE DEF e
  <2>3. Taken(g, S, e, k + 1)
    BY <2>1, <2>2, Zenon DEF Taken
  <2> QED BY <2>3
<1>3. Nat \subseteq K
  <2>1. \A k \in Nat : k \in K => k + 1 \in K
    BY <1>2
  <2> HIDE DEF K
  <2> QED BY <1>1, <2>1, SetInduction
<1> QED BY <1>3

LEMMA AppendRange ==
  ASSUME NEW T, NEW s \in Seq(T), NEW e
  PROVE  Range(Append(s, e)) = Range(s) \cup {e}
<1> DEFINE t == Append(s, e)
<1>1. /\ DOMAIN t = 1 .. Len(s) + 1 /\ DOMAIN s = 1 .. Len(s) /\ Len(s) \in Nat
      /\ \A i \in 1 .. Len(s) + 1 : t[i] = IF i = Len(s) + 1 THEN e ELSE s[i]
  OBVIOUS
<1> HIDE DEF t
<1>2. \A x : (\E i \in DOMAIN t : t[i] = x) <=> (\E i \in DOMAIN s : s[i] = x) \/ x = e
  <2> TAKE x
  <2>1. ASSUME NEW i \in DOMAIN s, s[i] = x PROVE \E j \in DOMAIN t : t[j] = x
    BY <1>1, <2>1
  <2>2. Len(s) + 1 \in DOMAIN t /\ t[Len(s) + 1] = e
    BY <1>1
  <2>3. ASSUME NEW i \in DOMAIN t, t[i] = x, x # e PROVE \E j \in DOMAIN s : s[j] = x
    BY <1>1, <2>3
  <2> QED BY <2>1, <2>2, <2>3
<1>3. Range(t) = Range(s) \cup {e}
  BY <1>2 DEF Range
<1> QED BY <1>3 DEF t

LEMMA TakenBlocks ==
  ASSUME NEW g, NEW S, NEW n \in Nat, NEW h, Taken(g, S, h, n)
  PROVE  /\ h[n] \in Seq(S)
         /\ \A p \in 1 .. n : g.layout[p] \in S => g.layout[p] \in Range(h[n])
<1> DEFINE Good(k) == /\ h[k] \in Seq(S)
                      /\ \A p \in 1 .. k : g.layout[p] \in S => g.layout[p] \in Range(h[k])
           K == {k \in Nat : k <= n => Good(k)}
<1>1. ASSUME NEW p \in 0 .. n
      PROVE  h[p] = IF p = 0 THEN << >>
                    ELSE IF g.layout[p] \in S THEN Append(h[p - 1], g.layout[p])
                    ELSE h[p - 1]
  BY Zenon DEF Taken
<1>2. 0 \in K
  <2>1. 0 \in 0 .. n /\ << >> \in Seq(S)
    OBVIOUS
  <2>2. h[0] = << >>
    BY <1>1, <2>1
  <2>3. h[0] \in Seq(S)
    BY <2>1, <2>2, Zenon
  <2>4. \A p \in 1 .. 0 : g.layout[p] \in S => g.layout[p] \in Range(h[0])
    <3>1. 1 .. 0 = {}
      OBVIOUS
    <3> QED BY <3>1, Zenon
  <2> QED BY <2>3, <2>4
<1>3. ASSUME NEW k \in Nat, k \in K PROVE k + 1 \in K
  <2>1. SUFFICES ASSUME k + 1 <= n PROVE Good(k + 1)
    OBVIOUS
  <2>2. Good(k) /\ k + 1 \in 0 .. n /\ k + 1 # 0 /\ (k + 1) - 1 = k
    BY <1>3, <2>1
  <2>3. h[k + 1] = IF g.layout[k + 1] \in S THEN Append(h[k], g.layout[k + 1]) ELSE h[k]
    BY <1>1, <2>2
  <2>4. Range(Append(h[k], g.layout[k + 1])) = Range(h[k]) \cup {g.layout[k + 1]}
    BY <2>2, AppendRange
  <2>5. h[k + 1] \in Seq(S)
    BY <2>2, <2>3
  <2>6. ASSUME NEW p \in 1 .. k + 1, g.layout[p] \in S
        PROVE  g.layout[p] \in Range(h[k + 1])
    <3>1. CASE p = k + 1
      <4>1. g.layout[k + 1] \in S /\ g.layout[p] = g.layout[k + 1]
        BY <2>6, <3>1
      <4>2. h[k + 1] = Append(h[k], g.layout[k + 1])
        BY <2>3, <4>1, Zenon
      <4>3. Range(h[k + 1]) = Range(h[k]) \cup {g.layout[k + 1]}
        BY <2>4, <4>2, Zenon
      <4> QED BY <4>1, <4>3, Zenon
    <3>2. CASE p # k + 1
      <4>1. p \in 1 .. k
        BY <3>2
      <4>2. g.layout[p] \in Range(h[k])
        BY <2>2, <2>6, <4>1
      <4> QED BY <2>3, <2>4, <4>2, Zenon
    <3> QED BY <3>1, <3>2
  <2> QED BY <2>5, <2>6
<1> HIDE DEF K
<1>4. n \in K
  BY <1>2, <1>3, SetInduction
<1> QED BY <1>4 DEF K

LEMMA InLayoutOrderIn ==
  ASSUME NEW g, NEW S, Len(g.layout) \in Nat
  PROVE  /\ InLayoutOrder(g, S) \in Seq(S)
         /\ \A p \in 1 .. Len(g.layout) :
              g.layout[p] \in S => g.layout[p] \in Range(InLayoutOrder(g, S))
<1> DEFINE h == CHOOSE e : Taken(g, S, e, Len(g.layout))
<1>1. Taken(g, S, h, Len(g.layout))
  BY TakenExists, Zenon
<1>2. InLayoutOrder(g, S) = h[Len(g.layout)]
  BY Zenon DEF InLayoutOrder, Taken
<1> HIDE DEF h
<1> QED BY <1>1, <1>2, TakenBlocks

LEMMA FlatIn ==
  ASSUME NEW T, NEW s \in Seq(Seq(T)), NEW n \in Nat, n <= Len(s), n # 0,
         NEW h, Flat(s, h, n)
  PROVE  h[n] \in Seq(T)
<1> DEFINE K == {k \in Nat : k # 0 /\ k <= n => h[k] \in Seq(T)}
<1>1. ASSUME NEW i \in 1 .. n
      PROVE  h[i] = IF i = 1 THEN s[i] ELSE h[i - 1] \o s[i]
  BY Zenon DEF Flat
<1>2. 0 \in K
  OBVIOUS
<1>3. ASSUME NEW k \in Nat, k \in K PROVE k + 1 \in K
  <2>1. SUFFICES ASSUME k + 1 <= n PROVE h[k + 1] \in Seq(T)
    OBVIOUS
  <2>2. k + 1 \in 1 .. n /\ s[k + 1] \in Seq(T)
    BY <2>1
  <2>3. CASE k = 0
    <3>1. h[k + 1] = s[k + 1]
      BY <1>1, <2>2, <2>3
    <3> QED BY <2>2, <3>1
  <2>4. CASE k # 0
    <3>1. h[k + 1] = h[k] \o s[k + 1]
      <4>1. k + 1 # 1 /\ (k + 1) - 1 = k
        BY <2>4
      <4>2. h[k + 1] = IF k + 1 = 1 THEN s[k + 1] ELSE h[(k + 1) - 1] \o s[k + 1]
        BY <1>1, <2>2
      <4> QED BY <4>1, <4>2
    <3>2. h[k] \in Seq(T)
      BY <1>3, <2>1, <2>4
    <3> QED BY <2>2, <3>1, <3>2, ConcatProperties
  <2> QED BY <2>3, <2>4
<1> HIDE DEF K
<1>4. n \in K
  BY <1>2, <1>3, SetInduction
<1> QED BY <1>4 DEF K

LEMMA FlattenIn ==
  ASSUME NEW T, NEW s \in Seq(Seq(T))
  PROVE  FlattenSeq(s) \in Seq(T)
<1> DEFINE h == CHOOSE e : Flat(s, e, Len(s))
<1>1. Flat(s, h, Len(s))
  <2>1. Len(s) \in Nat
    OBVIOUS
  <2>2. \E e : Flat(s, e, Len(s))
    BY <2>1, FlatExists
  <2> QED BY <2>2, Zenon
<1>2. FlattenSeq(s) = IF Len(s) = 0 THEN s ELSE h[Len(s)]
  BY DEF FlattenSeq, Flat
<1> HIDE DEF h
<1>3. CASE Len(s) = 0
  <2>1. s = << >>
    BY <1>3
  <2> QED BY <1>2, <1>3, <2>1
<1>4. CASE Len(s) # 0
  BY <1>1, <1>2, <1>4, FlatIn
<1> QED BY <1>3, <1>4

LEMMA IsSeqOfSeq ==
  ASSUME NEW T, NEW s \in Seq(T)
  PROVE  /\ IsSeq(s) /\ Range(s) \subseteq T
         /\ s = << >> <=> Range(s) = {}
<1>1. IsSeq(s) /\ Range(s) \subseteq T
  BY DEF IsSeq, Range
<1>2. ASSUME s # << >> PROVE Range(s) # {}
  <2>1. s[1] \in Range(s)
    BY <1>2 DEF Range
  <2> QED BY <2>1
<1>3. ASSUME s = << >> PROVE Range(s) = {}
  BY <1>3 DEF Range
<1> QED BY <1>1, <1>2, <1>3

\* A new entry in a sequence: nothing is lost, and behind the first it
\* leaves the first.
LEMMA InsertAtFacts ==
  ASSUME NEW T, NEW s \in Seq(T), NEW e \in T, NEW p \in 1 .. Len(s) + 1
  PROVE  /\ InsertAt(s, p, e) \in Seq(T) /\ InsertAt(s, p, e) # << >>
         /\ Range(InsertAt(s, p, e)) = Range(s) \cup {e}
         /\ p # 1 => InsertAt(s, p, e)[1] = s[1]
<1> DEFINE u == SubSeq(s, 1, p - 1)
           v == SubSeq(s, p, Len(s))
           t == InsertAt(s, p, e)
<1>1. /\ u \in Seq(T) /\ Len(u) = p - 1
      /\ \A i \in 1 .. p - 1 : u[i] = s[i]
  OBVIOUS
<1>2. /\ v \in Seq(T) /\ Len(v) = Len(s) + 1 - p
      /\ \A i \in 1 .. Len(s) + 1 - p : v[i] = s[p + i - 1]
  OBVIOUS
<1>3. t = u \o <<e>> \o v
  BY DEF InsertAt
<1> HIDE DEF u, v, t
<1>4. /\ t \in Seq(T) /\ Len(t) = Len(s) + 1
      /\ \A i \in 1 .. Len(s) + 1 :
           t[i] = IF i < p THEN u[i] ELSE IF i = p THEN e ELSE v[i - p]
  <2> DEFINE w == u \o <<e>>
  <2>1. w \in Seq(T) /\ Len(w) = p
    BY <1>1
  <2>2. \A i \in 1 .. p : w[i] = IF i < p THEN u[i] ELSE e
    BY <1>1
  <2>3. t = w \o v
    BY <1>3
  <2> HIDE DEF w
  <2>4. t \in Seq(T) /\ Len(t) = Len(s) + 1
    <3>1. t \in Seq(T) /\ Len(t) = Len(w) + Len(v)
      BY <1>2, <2>1, <2>3, ConcatProperties
    <3> QED BY <1>2, <2>1, <3>1
  <2>5. ASSUME NEW i \in 1 .. Len(s) + 1
        PROVE  t[i] = IF i <= p THEN w[i] ELSE v[i - p]
    <3>1. \A j \in 1 .. Len(w) + Len(v) : t[j] = IF j <= Len(w) THEN w[j] ELSE v[j - Len(w)]
      BY ONLY <1>2, <2>1, <2>3, ConcatProperties
    <3>2. Len(w) = p /\ Len(w) + Len(v) = Len(s) + 1
      BY <1>2, <2>1
    <3> QED BY ONLY <2>5, <3>1, <3>2
  <2> QED BY <2>2, <2>4, <2>5
<1>5. \A i \in 1 .. Len(s) + 1 :
        t[i] = IF i < p THEN s[i] ELSE IF i = p THEN e ELSE s[i - 1]
  <2> TAKE i \in 1 .. Len(s) + 1
  <2>1. CASE i < p
    BY <1>1, <1>4, <2>1
  <2>2. CASE i = p
    BY <1>4, <2>2
  <2>3. CASE i > p
    <3>1. i - p \in 1 .. Len(s) + 1 - p /\ p + (i - p) - 1 = i - 1
      BY <2>3
    <3>2. v[i - p] = s[i - 1]
      BY <1>2, <3>1
    <3> QED BY <1>4, <2>3, <3>2
  <2> QED BY <2>1, <2>2, <2>3
<1>6. Range(t) \subseteq Range(s) \cup {e}
  <2> SUFFICES ASSUME NEW i \in 1 .. Len(s) + 1, t[i] # e PROVE \E j \in 1 .. Len(s) : t[i] = s[j]
    BY <1>4 DEF Range
  <2>1. CASE i < p
    BY <1>5, <2>1
  <2>2. CASE i > p
    <3>1. i - 1 \in 1 .. Len(s) /\ t[i] = s[i - 1]
      BY <1>5, <2>2
    <3> QED BY <3>1
  <2> QED BY <1>5, <2>1, <2>2
<1>7. Range(s) \cup {e} \subseteq Range(t)
  <2>1. p \in 1 .. Len(s) + 1 /\ t[p] = e
    BY <1>5
  <2>2. ASSUME NEW j \in 1 .. Len(s) PROVE \E i \in 1 .. Len(s) + 1 : t[i] = s[j]
    <3>1. CASE j < p
      BY <1>5, <3>1
    <3>2. CASE j >= p
      <4>1. j + 1 \in 1 .. Len(s) + 1 /\ t[j + 1] = s[j]
        BY <1>5, <3>2
      <4> QED BY <4>1
    <3> QED BY <3>1, <3>2
  <2>3. DOMAIN t = 1 .. Len(s) + 1 /\ DOMAIN s = 1 .. Len(s)
    BY <1>4
  <2>4. \A x \in Range(s) \cup {e} : \E i \in DOMAIN t : t[i] = x
    BY ONLY <2>1, <2>2, <2>3 DEF Range
  <2> QED BY ONLY <2>4 DEF Range
<1>8. p # 1 => t[1] = s[1]
  BY <1>5
<1> QED BY <1>4, <1>6, <1>7, <1>8 DEF t

-----------------------------------------------------------------------------
(***************************************************************************)
(* Functions and their graphs.                                             *)
(***************************************************************************)
LEMMA FunctionGraph ==
  ASSUME NEW g, IsFunction(g)
  PROVE  /\ Blocks(g) = 1 .. Len(g.code) /\ Len(g.code) \in Nat /\ 0 \notin Blocks(g)
         /\ Entry(g) \in Blocks(g)
         /\ \A n \in Blocks(g) : g.succ[n] \in Seq(Blocks(g))
         /\ IsGraph(Succ(g)) /\ DOMAIN Succ(g) = Blocks(g)
         /\ IsGraph(Pred(g)) /\ DOMAIN Pred(g) = Blocks(g)
         /\ Pred(g) = Reversed(Succ(g))
         /\ Returns(g) = {n \in Blocks(g) : Succ(g)[n] = {}}
<1>1. Blocks(g) = 1 .. Len(g.code) /\ Len(g.code) \in Nat
  BY DEF IsFunction, IsSeq, Blocks
<1>2. IsFiniteSet(Blocks(g))
  BY <1>1, FS_Interval
<1>3. ASSUME NEW n \in Blocks(g)
      PROVE  /\ g.succ[n] \in Seq(Blocks(g)) /\ Range(g.succ[n]) \subseteq Blocks(g)
             /\ g.succ[n] = << >> <=> Range(g.succ[n]) = {}
  <2>1. g.succ[n] \in Seq(Blocks(g))
    BY DEF IsFunction
  <2> QED BY <2>1, IsSeqOfSeq
<1>4. Entry(g) \in Blocks(g)
  BY DEF IsFunction, Entry
<1>5. /\ DOMAIN Succ(g) = Blocks(g)
      /\ \A n \in Blocks(g) : Succ(g)[n] = Range(g.succ[n])
  BY DEF Succ
<1>6. Pred(g) = Reversed(Succ(g))
  BY <1>5 DEF Pred, Reversed
<1>7. IsGraph(Succ(g))
  <2>1. Succ(g) = [n \in Blocks(g) |-> Succ(g)[n]]
    BY DEF Succ
  <2> QED BY <1>2, <1>3, <1>5, <2>1 DEF IsGraph
<1>8. Returns(g) = {n \in Blocks(g) : Succ(g)[n] = {}}
  BY <1>3, <1>5 DEF Returns, IsReturn
<1>9. IsGraph(Pred(g)) /\ DOMAIN Pred(g) = Blocks(g)
  BY <1>5, <1>6, <1>7, ReversedGraph
<1> QED BY <1>1, <1>3, <1>4, <1>5, <1>6, <1>7, <1>8, <1>9

\* h is g with the block b put on some of its edges.
Refines(g, h, b) ==
  /\ IsFunction(h)
  /\ Entry(h) = Entry(g)
  /\ Blocks(h) = Blocks(g) \cup {b}
  /\ Subdivided(Succ(g), Succ(h), b)
  /\ \E n \in Blocks(g) : b \in Succ(h)[n]

LEMMA RefinesConnected ==
  ASSUME NEW g, IsFunction(g), Connected(g), NEW h, NEW b, Refines(g, h, b)
  PROVE  Connected(h)
<1> DEFINE sg == Succ(g)
           sh == Succ(h)
<1>1. /\ IsGraph(sg) /\ DOMAIN sg = Blocks(g) /\ Entry(g) \in Blocks(g)
      /\ Pred(g) = Reversed(sg) /\ Returns(g) = {n \in Blocks(g) : sg[n] = {}}
      /\ IsGraph(Pred(g)) /\ DOMAIN Pred(g) = Blocks(g)
  BY FunctionGraph
<1>2. /\ IsFunction(h) /\ Entry(h) = Entry(g) /\ Blocks(h) = Blocks(g) \cup {b}
      /\ Subdivided(sg, sh, b) /\ \E n \in Blocks(g) : b \in sh[n]
  BY DEF Refines
<1>3. /\ IsGraph(sh) /\ DOMAIN sh = Blocks(h)
      /\ Pred(h) = Reversed(sh) /\ Returns(h) = {n \in Blocks(h) : sh[n] = {}}
      /\ IsGraph(Pred(h)) /\ DOMAIN Pred(h) = Blocks(h)
  BY <1>2, FunctionGraph
<1>4. /\ Pred(g)[Entry(g)] = {} /\ Reach(sg, {Entry(g)}) = Blocks(g)
      /\ Reach(Pred(g), Returns(g)) = Blocks(g)
  BY DEF Connected
<1> HIDE DEF sg, sh
<1>5. Pred(h)[Entry(h)] = {}
  <2>1. \A n \in Blocks(g) : Entry(g) \notin sg[n]
    BY <1>1, <1>4 DEF Reversed
  <2>2. \A n \in Blocks(h) : Entry(g) \notin sh[n]
    BY <1>1, <1>2, <2>1 DEF Subdivided
  <2> QED BY <1>1, <1>2, <1>3, <2>2 DEF Reversed
<1>6. Reach(sh, {Entry(h)}) = Blocks(h)
  <2> DEFINE S == {Entry(g)}
  <2>1. S \in SUBSET DOMAIN sg /\ S \in SUBSET DOMAIN sh
    BY <1>1, <1>2, <1>3
  <2>2. Reach(sg, S) = Blocks(g) /\ S = {Entry(h)}
    BY <1>2, <1>4
  <2> HIDE DEF S
  <2>3. /\ \A n \in DOMAIN sg : n \in Reach(sh, S) <=> n \in Reach(sg, S)
        /\ b \in Reach(sh, S) <=> \E n \in Reach(sg, S) : b \in sh[n]
    BY <1>1, <1>2, <2>1, SubdividedReach
  <2>4. Reach(sh, S) \subseteq Blocks(h)
    BY <1>3, <2>1, ReachIsLeast
  <2> QED BY <1>1, <1>2, <2>2, <2>3, <2>4
<1>7. Reach(Pred(h), Returns(h)) = Blocks(h)
  <2> DEFINE pg == Pred(g)
             ph == Pred(h)
             R == Reach(ph, Returns(h))
             S == Returns(g)
  <2>1. Subdivided(pg, ph, b)
    BY <1>1, <1>2, <1>3, SubdividedReversed
  <2>2. /\ R \subseteq Blocks(h) /\ Returns(h) \subseteq R /\ ClosedUnder(ph, R)
    BY <1>3, ReachIsLeast
  <2>3. /\ IsGraph(pg) /\ DOMAIN pg = Blocks(g) /\ IsGraph(ph) /\ DOMAIN ph = Blocks(h)
        /\ S \in SUBSET DOMAIN pg /\ S \in SUBSET DOMAIN ph /\ Reach(pg, S) = Blocks(g)
    BY <1>1, <1>2, <1>3, <1>4
  <2>4. \A n, m \in Blocks(h) : n \in ph[m] <=> m \in sh[n]
    BY <1>3 DEF Reversed
  <2>5. \A n \in S : n \in Blocks(g) /\ sg[n] = {}
    BY <1>1
  <2> HIDE DEF pg, ph, R, S
  <2>6. S \subseteq R
    <3> SUFFICES ASSUME NEW n \in S PROVE n \in R
      OBVIOUS
    <3>1. CASE b \notin sh[n]
      <4>1. sh[n] = {}
        BY <1>1, <1>2, <2>5, <3>1 DEF Subdivided
      <4> QED BY <1>2, <1>3, <2>2, <2>5, <4>1
    <3>2. CASE b \in sh[n]
      <4>1. sh[b] = {}
        BY <1>1, <1>2, <2>5, <3>2 DEF Subdivided
      <4>2. b \in R /\ n \in ph[b]
        BY <1>2, <1>3, <2>2, <2>4, <2>5, <3>2, <4>1
      <4> QED BY <2>2, <4>2 DEF ClosedUnder
    <3> QED BY <3>1, <3>2
  <2>7. Reach(ph, S) \subseteq R
    BY <2>2, <2>3, <2>6, ReachIsLeast
  <2>8. \A n \in DOMAIN pg : n \in Reach(ph, S) <=> n \in Reach(pg, S)
    BY <2>1, <2>3, SubdividedReach
  <2>9. Blocks(g) \subseteq R
    BY <2>3, <2>7, <2>8
  <2>10. b \in R
    <3>1. CASE sh[b] = {}
      BY <1>2, <1>3, <2>2, <3>1
    <3>2. CASE sh[b] # {}
      <4>1. PICK m \in sh[b] : m \in Blocks(g)
        BY <1>1, <1>2, <3>2 DEF Subdivided
      <4>2. b \in ph[m]
        BY <1>2, <2>4, <4>1
      <4> QED BY <2>2, <2>9, <4>1, <4>2 DEF ClosedUnder
    <3> QED BY <3>1, <3>2
  <2>11. R = Blocks(h)
    BY <1>2, <2>2, <2>9, <2>10
  <2> QED BY <2>11 DEF R, ph
<1> QED BY <1>5, <1>6, <1>7 DEF Connected, sh

\* What the old blocks dominate.
LEMMA RefinesDom ==
  ASSUME NEW g, IsFunction(g), NEW h, NEW b, Refines(g, h, b), NEW x \in Blocks(g)
  PROVE  /\ \A n \in Blocks(g) : n \in Dom(h)[x] <=> n \in Dom(g)[x]
         /\ b \in Dom(h)[x] <=> \A n \in Blocks(g) : b \in Succ(h)[n] => n \in Dom(g)[x]
<1> DEFINE sg == Succ(g)
           sh == Succ(h)
           S == {Entry(g)}
<1>1. /\ IsGraph(sg) /\ DOMAIN sg = Blocks(g) /\ S \in SUBSET DOMAIN sg
  BY FunctionGraph
<1>2. /\ S = {Entry(h)} /\ x \in Blocks(h) /\ Subdivided(sg, sh, b)
  BY DEF Refines
<1>3. Dom(g)[x] = Behind(sg, S, x) /\ Dom(h)[x] = Behind(sh, S, x)
  BY <1>2 DEF Dom
<1> HIDE DEF sg, sh, S
<1>4. /\ \A n \in DOMAIN sg : n \in Behind(sh, S, x) <=> n \in Behind(sg, S, x)
      /\ b \in Behind(sh, S, x) <=> \A n \in DOMAIN sg : b \in sh[n] => n \in Behind(sg, S, x)
  BY <1>1, <1>2, SubdividedBehind
<1> QED BY <1>1, <1>3, <1>4 DEF sh

-----------------------------------------------------------------------------
(***************************************************************************)
(* What splits a block refines its function.                               *)
(***************************************************************************)
LEMMA PlaceFacts ==
  ASSUME NEW g, IsFunction(g), NEW n \in Blocks(g)
  PROVE  /\ Place(g, n) \in 1 .. Len(g.layout) /\ Len(g.layout) \in Nat
         /\ n # Entry(g) => Place(g, n) # 1
<1>1. g.layout \in Seq(Blocks(g)) /\ n \in Range(g.layout)
  BY DEF IsFunction
<1>2. \E p \in DOMAIN g.layout : g.layout[p] = n
  BY <1>1 DEF Range
<1>3. Place(g, n) \in DOMAIN g.layout /\ g.layout[Place(g, n)] = n
  BY <1>2 DEF Place
<1> QED BY <1>1, <1>3 DEF Entry

LEMMA SeqWidened ==
  ASSUME NEW T, NEW U, T \subseteq U, NEW s \in Seq(T)
  PROVE  s \in Seq(U)
OBVIOUS

LEMMA AppendFacts ==
  ASSUME NEW T, NEW s \in Seq(T), NEW e \in T
  PROVE  /\ Append(s, e) \in Seq(T) /\ DOMAIN Append(s, e) = 1 .. Len(s) + 1
         /\ \A n \in 1 .. Len(s) + 1 : Append(s, e)[n] = IF n = Len(s) + 1 THEN e ELSE s[n]
OBVIOUS

LEMMA AddBlockFacts ==
  ASSUME NEW g, IsFunction(g), NEW p \in 1 .. Len(g.layout) + 1,
         NEW code, IsSeq(code), NEW succ \in Seq(Blocks(g))
  PROVE  LET h == AddBlock(g, p, code, succ)
             b == Len(g.code) + 1
         IN /\ IsFunction(h) /\ Len(h.code) = b
            /\ b \notin Blocks(g) /\ Blocks(h) = Blocks(g) \cup {b}
            /\ h.succ[b] = succ /\ \A n \in Blocks(g) : h.succ[n] = g.succ[n]
            /\ h.code[b] = code /\ \A n \in Blocks(g) : h.code[n] = g.code[n]
            /\ p # 1 => Entry(h) = Entry(g)
<1> DEFINE h == AddBlock(g, p, code, succ)
           b == Len(g.code) + 1
           C == Range(g.code) \cup {code}
           B == Blocks(g) \cup {b}
<1>1. /\ Blocks(g) = 1 .. Len(g.code) /\ Len(g.code) \in Nat
      /\ g.code \in Seq(Range(g.code)) /\ \A n \in Blocks(g) : IsSeq(g.code[n])
      /\ g.layout \in Seq(Blocks(g)) /\ g.layout # << >> /\ Range(g.layout) = Blocks(g)
      /\ g.succ \in Seq(Seq(Blocks(g))) /\ DOMAIN g.succ = Blocks(g)
  BY FunctionGraph DEF IsFunction, IsSeq
<1>2. /\ h.layout = InsertAt(g.layout, p, b) /\ h.code = Append(g.code, code)
      /\ h.succ = Append(g.succ, succ)
      /\ h = [layout |-> h.layout, code |-> h.code, succ |-> h.succ]
  BY DEF AddBlock
<1> HIDE DEF h
<1>3. /\ h.code \in Seq(C) /\ Len(h.code) = b /\ DOMAIN h.code = 1 .. b
      /\ \A n \in 1 .. b : h.code[n] = IF n = b THEN code ELSE g.code[n]
  <2>1. g.code \in Seq(C)
    BY <1>1
  <2> HIDE DEF C
  <2>2. code \in C
    BY DEF C
  <2> QED BY <1>2, <2>1, <2>2
<1>4. Blocks(h) = B /\ B = 1 .. b /\ b \notin Blocks(g)
  <2>1. Blocks(h) = 1 .. b
    BY <1>3 DEF Blocks
  <2>2. Blocks(g) = 1 .. Len(g.code) /\ Len(g.code) \in Nat
    BY <1>1
  <2>3. \A l \in Nat : (1 .. l) \cup {l + 1} = 1 .. l + 1 /\ l + 1 \notin 1 .. l
    OBVIOUS
  <2>4. B = 1 .. b /\ b \notin Blocks(g)
    BY ONLY <2>2, <2>3
  <2> QED BY <2>1, <2>4
<1>5. IsSeq(h.code) /\ \A n \in Blocks(h) : IsSeq(h.code[n])
  <2>1. IsSeq(h.code)
    BY <1>3, IsSeqOfSeq
  <2>2. ASSUME NEW n \in Blocks(h) PROVE IsSeq(h.code[n])
    <3>1. CASE n = b
      <4>1. h.code[n] = code
        BY <1>3, <1>4, <2>2, <3>1
      <4> QED BY <4>1
    <3>2. CASE n # b
      <4>1. n \in Blocks(g) /\ h.code[n] = g.code[n]
        BY <1>3, <1>4, <2>2, <3>2
      <4> QED BY <1>1, <4>1
    <3> QED BY <3>1, <3>2
  <2> QED BY <2>1, <2>2
<1>6. /\ h.succ \in Seq(Seq(B)) /\ DOMAIN h.succ = B
      /\ \A n \in B : h.succ[n] = IF n = b THEN succ ELSE g.succ[n]
  <2> DEFINE T == Seq(Blocks(g))
  <2>1. Len(g.succ) + 1 = b /\ g.succ \in Seq(T) /\ succ \in T
    <3>1. g.succ \in Seq(T) /\ DOMAIN g.succ = 1 .. Len(g.code) /\ Len(g.code) \in Nat
      BY <1>1
    <3> HIDE DEF T
    <3>2. Len(g.succ) = Len(g.code)
      BY <3>1
    <3> QED BY <3>1, <3>2 DEF T
  <2> HIDE DEF T, b
  <2>2. /\ h.succ \in Seq(T) /\ DOMAIN h.succ = 1 .. b
        /\ \A n \in 1 .. b : h.succ[n] = IF n = b THEN succ ELSE g.succ[n]
    BY <1>2, <2>1, AppendFacts
  <2>3. Seq(Blocks(g)) \subseteq Seq(B)
    BY SeqWidened
  <2> HIDE DEF B
  <2>4. h.succ \in Seq(Seq(B))
    BY <2>2, <2>3, SeqWidened DEF T
  <2> QED BY <1>4, <2>2, <2>4
<1>7. /\ h.layout \in Seq(B) /\ h.layout # << >> /\ Range(h.layout) = B
      /\ p # 1 => h.layout[1] = g.layout[1]
  <2> HIDE DEF b
  <2>1. g.layout \in Seq(B)
    BY <1>1, SeqWidened
  <2>2. b \in B
    OBVIOUS
  <2> HIDE DEF B
  <2> DEFINE l == g.layout
  <2>3. l \in Seq(B) /\ p \in 1 .. Len(l) + 1
    BY <2>1
  <2> HIDE DEF l
  <2>4. InsertAt(l, p, b) \in Seq(B) /\ InsertAt(l, p, b) # << >>
    BY ONLY <2>2, <2>3, InsertAtFacts
  <2>5. Range(InsertAt(l, p, b)) = Range(l) \cup {b}
    BY ONLY <2>2, <2>3, InsertAtFacts
  <2>6. p # 1 => InsertAt(l, p, b)[1] = l[1]
    BY ONLY <2>2, <2>3, InsertAtFacts
  <2> QED BY <1>1, <1>2, <2>4, <2>5, <2>6 DEF B, l
<1>8. IsFunction(h)
  BY <1>2, <1>4, <1>5, <1>6, <1>7 DEF IsFunction
<1>9. p # 1 => Entry(h) = Entry(g)
  BY <1>7 DEF Entry
<1>10. h.succ[b] = succ /\ \A n \in Blocks(g) : h.succ[n] = g.succ[n]
  BY <1>4, <1>6
<1>11. h.code[b] = code /\ \A n \in Blocks(g) : h.code[n] = g.code[n]
  BY <1>1, <1>3, <1>4
<1> QED BY <1>3, <1>4, <1>8, <1>9, <1>10, <1>11 DEF h

\* A branch that leads elsewhere, code that is replaced.
Rewired(h, n, c, s) == [h EXCEPT !.code[n] = c, !.succ[n] = s]

LEMMA RewiredFacts ==
  ASSUME NEW h, IsFunction(h), NEW n \in Blocks(h), NEW c, IsSeq(c),
         NEW s \in Seq(Blocks(h))
  PROVE  LET k == Rewired(h, n, c, s)
         IN /\ IsFunction(k) /\ Blocks(k) = Blocks(h) /\ Entry(k) = Entry(h)
            /\ k.succ[n] = s /\ \A m \in Blocks(h) \ {n} : k.succ[m] = h.succ[m]
            /\ k.code[n] = c /\ \A m \in Blocks(h) \ {n} : k.code[m] = h.code[m]
<1> DEFINE k == Rewired(h, n, c, s)
           T == Seq(Blocks(h))
           C == Range(h.code) \cup {c}
<1>1. /\ h = [layout |-> h.layout, code |-> h.code, succ |-> h.succ]
      /\ h.code \in Seq(Range(h.code)) /\ \A m \in Blocks(h) : IsSeq(h.code[m])
      /\ h.layout \in Seq(Blocks(h)) /\ h.layout # << >> /\ Range(h.layout) = Blocks(h)
      /\ h.succ \in Seq(T) /\ DOMAIN h.succ = Blocks(h) /\ DOMAIN h.code = Blocks(h)
  BY DEF IsFunction, IsSeq, Blocks
<1>2. /\ k = [layout |-> h.layout, code |-> [h.code EXCEPT ![n] = c],
              succ |-> [h.succ EXCEPT ![n] = s]]
  <2> DEFINE v == [h.code EXCEPT ![n] = c]
             w == [h.succ EXCEPT ![n] = s]
             h1 == [h EXCEPT !.code = v]
  <2>1. k = [h1 EXCEPT !.succ[n] = s]
    BY DEF Rewired
  <2>2. h = [layout |-> h.layout, code |-> h.code, succ |-> h.succ]
    BY <1>1
  <2> HIDE DEF v
  <2>3. h1 = [layout |-> h.layout, code |-> v, succ |-> h.succ]
    BY <2>2
  <2> HIDE DEF h1, k
  <2>4. h1.layout = h.layout /\ h1.code = v /\ h1.succ = h.succ
    BY <2>3
  <2>5. k = [h1 EXCEPT !.succ = w]
    BY <2>1, <2>4
  <2> HIDE DEF w
  <2>6. h1 = [layout |-> h1.layout, code |-> h1.code, succ |-> h1.succ]
    BY <2>3, <2>4
  <2>7. k = [layout |-> h1.layout, code |-> h1.code, succ |-> w]
    BY <2>5, <2>6
  <2> QED BY <2>4, <2>7 DEF v, w
<1> HIDE DEF k
<1>3. /\ k.layout = h.layout /\ k.code = [h.code EXCEPT ![n] = c]
      /\ k.succ = [h.succ EXCEPT ![n] = s]
      /\ k = [layout |-> k.layout, code |-> k.code, succ |-> k.succ]
  BY <1>2
<1>4. /\ DOMAIN k.code = Blocks(h)
      /\ \A m \in Blocks(h) : k.code[m] = IF m = n THEN c ELSE h.code[m]
  BY <1>1, <1>3
<1>5. IsSeq(k.code)
  <2>1. h.code \in Seq(C)
    BY <1>1, SeqWidened
  <2>2. c \in C
    OBVIOUS
  <2> HIDE DEF C
  <2>3. k.code \in Seq(C)
    BY <1>1, <1>3, <2>1, <2>2, ExceptSeq
  <2> QED BY <2>3, IsSeqOfSeq
<1>6. /\ k.succ \in Seq(T) /\ DOMAIN k.succ = Blocks(h)
      /\ \A m \in Blocks(h) : k.succ[m] = IF m = n THEN s ELSE h.succ[m]
  <2>1. s \in T
    OBVIOUS
  <2> HIDE DEF T
  <2>2. k.succ \in Seq(T)
    BY <1>1, <1>3, <2>1, ExceptSeq
  <2> QED BY <1>1, <1>3, <2>2
<1>7. Blocks(k) = Blocks(h) /\ Entry(k) = Entry(h)
  BY <1>3, <1>4 DEF Blocks, Entry
<1>8. IsFunction(k)
  BY <1>1, <1>3, <1>4, <1>5, <1>6, <1>7 DEF IsFunction
<1> QED BY <1>4, <1>6, <1>7, <1>8 DEF k

\* n split, with c in n and d behind it.
SplitInto(g, n, c, d) ==
  LET h == AddBlock(g, Place(g, n) + 1, d, g.succ[n])
  IN Rewired(h, n, c, <<Len(h.code)>>)

LEMMA SplitIntoRefines ==
  ASSUME NEW g, IsFunction(g), NEW n \in Blocks(g), NEW c, IsSeq(c), NEW d, IsSeq(d)
  PROVE  LET k == SplitInto(g, n, c, d)
             b == Len(g.code) + 1
         IN /\ Refines(g, k, b)
            /\ Succ(k)[n] = {b} /\ Succ(k)[b] = Succ(g)[n]
            /\ \A m \in Blocks(g) \ {n} : Succ(k)[m] = Succ(g)[m]
            /\ k.succ[b] = g.succ[n] /\ \A m \in Blocks(g) \ {n} : k.succ[m] = g.succ[m]
            /\ k.succ[n] = <<b>> /\ k.code[n] = c /\ k.code[b] = d
            /\ \A m \in Blocks(g) \ {n} : k.code[m] = g.code[m]
<1> DEFINE p == Place(g, n) + 1
           h == AddBlock(g, p, d, g.succ[n])
           b == Len(g.code) + 1
           s == <<b>>
           k == Rewired(h, n, c, s)
<1>1. p \in 1 .. Len(g.layout) + 1 /\ p # 1
  BY PlaceFacts
<1>2. g.succ[n] \in Seq(Blocks(g))
  BY FunctionGraph
<1> HIDE DEF p
<1>3. /\ IsFunction(h) /\ Len(h.code) = b
      /\ b \notin Blocks(g) /\ Blocks(h) = Blocks(g) \cup {b}
      /\ h.succ[b] = g.succ[n] /\ \A m \in Blocks(g) : h.succ[m] = g.succ[m]
      /\ h.code[b] = d /\ \A m \in Blocks(g) : h.code[m] = g.code[m]
      /\ Entry(h) = Entry(g)
  BY <1>1, <1>2, AddBlockFacts
<1>4. SplitInto(g, n, c, d) = k
  BY <1>3 DEF SplitInto, p
<1> HIDE DEF h
<1>5. s \in Seq(Blocks(h)) /\ Range(s) = {b} /\ s = <<b>>
  BY <1>3 DEF Range
<1> HIDE DEF s, b
<1>6. /\ IsFunction(k) /\ Blocks(k) = Blocks(h) /\ Entry(k) = Entry(h)
      /\ k.succ[n] = s /\ \A m \in Blocks(h) \ {n} : k.succ[m] = h.succ[m]
      /\ k.code[n] = c /\ \A m \in Blocks(h) \ {n} : k.code[m] = h.code[m]
  <2>1. n \in Blocks(h)
    BY <1>3
  <2>2. IsFunction(h) /\ s \in Seq(Blocks(h)) /\ IsSeq(c)
    BY <1>3, <1>5
  <2>3. IsFunction(k) /\ Blocks(k) = Blocks(h) /\ Entry(k) = Entry(h)
    BY ONLY <2>1, <2>2, RewiredFacts
  <2>4. k.succ[n] = s /\ \A m \in Blocks(h) \ {n} : k.succ[m] = h.succ[m]
    BY ONLY <2>1, <2>2, RewiredFacts
  <2>5. k.code[n] = c /\ \A m \in Blocks(h) \ {n} : k.code[m] = h.code[m]
    BY ONLY <2>1, <2>2, RewiredFacts
  <2> QED BY <2>3, <2>4, <2>5
<1> HIDE DEF k
<1>7. /\ IsGraph(Succ(g)) /\ DOMAIN Succ(g) = Blocks(g)
      /\ IsGraph(Succ(k)) /\ DOMAIN Succ(k) = Blocks(g) \cup {b}
  BY <1>3, <1>6, FunctionGraph
<1>8. /\ Succ(k)[n] = {b} /\ Succ(k)[b] = Succ(g)[n]
      /\ \A m \in Blocks(g) \ {n} : Succ(k)[m] = Succ(g)[m]
  BY <1>3, <1>5, <1>6 DEF Succ
<1>9. Subdivided(Succ(g), Succ(k), b)
  BY <1>3, <1>7, <1>8 DEF Subdivided, IsGraph
<1>10. Refines(g, k, b)
  BY <1>3, <1>6, <1>8, <1>9 DEF Refines
<1>11. /\ k.succ[b] = g.succ[n] /\ \A m \in Blocks(g) \ {n} : k.succ[m] = g.succ[m]
       /\ k.succ[n] = <<b>> /\ k.code[n] = c /\ k.code[b] = d
       /\ \A m \in Blocks(g) \ {n} : k.code[m] = g.code[m]
  BY <1>3, <1>5, <1>6
<1> QED BY <1>4, <1>8, <1>10, <1>11 DEF b

LEMMA SplitSeq ==
  ASSUME NEW T, NEW s \in Seq(T), NEW p \in 1 .. Len(s) + 1
  PROVE  SubSeq(s, 1, p - 1) \o SubSeq(s, p, Len(s)) = s
<1> DEFINE u == SubSeq(s, 1, p - 1)
           v == SubSeq(s, p, Len(s))
           t == u \o v
<1>1. u \in Seq(T) /\ Len(u) = p - 1 /\ \A i \in 1 .. p - 1 : u[i] = s[i]
  OBVIOUS
<1>2. /\ v \in Seq(T) /\ Len(v) = Len(s) + 1 - p
      /\ \A i \in 1 .. Len(s) + 1 - p : v[i] = s[p + i - 1]
  OBVIOUS
<1> HIDE DEF u, v
<1>3. /\ t \in Seq(T) /\ Len(t) = Len(u) + Len(v)
      /\ \A i \in 1 .. Len(u) + Len(v) : t[i] = IF i <= Len(u) THEN u[i] ELSE v[i - Len(u)]
  BY <1>1, <1>2, ConcatProperties
<1> HIDE DEF t
<1>4. Len(t) = Len(s)
  BY <1>1, <1>2, <1>3
<1>5. ASSUME NEW i \in 1 .. Len(s) PROVE t[i] = s[i]
  <2> DEFINE q == p - 1
  <2>0. i \in 1 .. Len(u) + Len(v) /\ Len(u) = q /\ q \in Nat
    BY <1>1, <1>2
  <2>3. t[i] = IF i <= q THEN u[i] ELSE v[i - q]
    BY <1>3, <2>0
  <2>1. CASE i <= p - 1
    <3>1. i \in 1 .. p - 1
      BY <2>1
    <3> QED BY <1>1, <2>1, <2>3, <3>1
  <2>2. CASE i > p - 1
    <3>1. i - (p - 1) \in 1 .. Len(s) + 1 - p /\ p + (i - (p - 1)) - 1 = i
      BY <2>2
    <3>2. t[i] = v[i - (p - 1)]
      BY <2>0, <2>2, <2>3
    <3> QED BY <1>2, <3>1, <3>2
  <2> QED BY <2>1, <2>2
<1>6. t = s
  BY <1>3, <1>4, <1>5, SeqEqual
<1> QED BY <1>6 DEF t, u, v

LEMMA SplitIsInto ==
  ASSUME NEW g, IsFunction(g), NEW n \in Blocks(g), NEW p \in 1 .. Len(g.code[n]) + 1
  PROVE  \E c, d : /\ IsSeq(c) /\ IsSeq(d) /\ c \o d = g.code[n]
                    /\ Split(g, n, p) = SplitInto(g, n, c, d)
<1> DEFINE s == g.code[n]
           c == SubSeq(s, 1, p - 1)
           d == SubSeq(s, p, Len(s))
           T == Range(s)
<1>1. s \in Seq(T) /\ p \in 1 .. Len(s) + 1
  BY DEF IsFunction, IsSeq
<1> HIDE DEF T, s
<1>2. c \in Seq(T)
  <2>1. p - 1 \in 0 .. Len(s) /\ Len(s) \in Nat
    BY <1>1
  <2> QED BY <1>1, <2>1
<1>3. d \in Seq(T)
  <2>1. p \in Nat /\ Len(s) \in Nat /\ \A i \in p .. Len(s) : i \in 1 .. Len(s)
    BY <1>1
  <2> QED BY <1>1, <2>1
<1>4. Split(g, n, p) = SplitInto(g, n, c, d)
  <2> DEFINE h == AddBlock(g, Place(g, n) + 1, d, g.succ[n])
  <2>1. Place(g, n) + 1 \in 1 .. Len(g.layout) + 1 /\ g.succ[n] \in Seq(Blocks(g)) /\ IsSeq(d)
    <3>1. IsSeq(d)
      <4> HIDE DEF d
      <4> QED BY <1>3, IsSeqOfSeq
    <3>2. Place(g, n) + 1 \in 1 .. Len(g.layout) + 1
      BY PlaceFacts
    <3> QED BY <3>1, <3>2, FunctionGraph
  <2>2. h.code[n] = g.code[n]
    BY <2>1, AddBlockFacts
  <2>3. Split(g, n, p) = [h EXCEPT !.code[n] = SubSeq(h.code[n], 1, p - 1), !.succ[n] = <<Len(h.code)>>]
    BY DEF Split, s
  <2> QED BY <2>2, <2>3 DEF SplitInto, Rewired, s
<1>5. c \o d = s
  BY <1>1, SplitSeq
<1> HIDE DEF c, d
<1>6. IsSeq(c) /\ IsSeq(d)
  BY <1>2, <1>3, IsSeqOfSeq
<1>7. c \o d = g.code[n]
  BY <1>5 DEF s
<1> QED BY <1>4, <1>6, <1>7

LEMMA SplitRefines ==
  ASSUME NEW g, IsFunction(g), NEW n \in Blocks(g)
  PROVE  LET k == Split(g, n, 1)
             b == Len(g.code) + 1
         IN /\ Refines(g, k, b)
            /\ Succ(k)[n] = {b} /\ Succ(k)[b] = Succ(g)[n]
            /\ \A m \in Blocks(g) \ {n} : Succ(k)[m] = Succ(g)[m]
<1>1. 1 \in 1 .. Len(g.code[n]) + 1
  BY DEF IsFunction, IsSeq
<1>2. PICK c, d : IsSeq(c) /\ IsSeq(d) /\ Split(g, n, 1) = SplitInto(g, n, c, d)
  BY <1>1, SplitIsInto
<1> QED BY <1>2, SplitIntoRefines

LEMMA SplitAndSinkIsInto ==
  ASSUME NEW g, IsFunction(g), NEW n \in Blocks(g)
  PROVE  LET c == <<Last(g.code[n])>>
             d == Front(g.code[n])
         IN IsSeq(c) /\ IsSeq(d) /\ SplitAndSink(g, n) = SplitInto(g, n, c, d)
<1> DEFINE c == <<Last(g.code[n])>>
           d == Front(g.code[n])
           T == Range(g.code[n])
<1>1. g.code[n] \in Seq(T)
  BY DEF IsFunction, IsSeq
<1> HIDE DEF T
<1>2. IsSeq(d) /\ IsSeq(c)
  <2>1. d \in Seq(T)
    BY <1>1 DEF Front
  <2>2. c \in Seq({Last(g.code[n])})
    OBVIOUS
  <2> HIDE DEF c, d
  <2> QED BY <2>1, <2>2, IsSeqOfSeq
<1>3. SplitAndSink(g, n) = SplitInto(g, n, c, d)
  <2> DEFINE h == AddBlock(g, Place(g, n) + 1, d, g.succ[n])
  <2>1. Place(g, n) + 1 \in 1 .. Len(g.layout) + 1 /\ g.succ[n] \in Seq(Blocks(g))
    BY PlaceFacts, FunctionGraph
  <2>2. h.code[n] = g.code[n]
    BY <1>2, <2>1, AddBlockFacts
  <2>3. SplitAndSink(g, n) = [h EXCEPT !.code[n] = <<Last(h.code[n])>>, !.succ[n] = <<Len(h.code)>>]
    BY DEF SplitAndSink
  <2> QED BY <2>2, <2>3 DEF SplitInto, Rewired
<1> QED BY <1>2, <1>3

\* Some of n's predecessors lead to a new block, which leads to n.
LEMMA SplitPredecessorsRefines ==
  ASSUME NEW g, IsFunction(g), NEW n \in Blocks(g), n # Entry(g),
         NEW P \in SUBSET Pred(g)[n], P # {}
  PROVE  LET k == SplitPredecessors(g, n, P)
             b == Len(g.code) + 1
         IN /\ Refines(g, k, b) /\ Succ(k)[b] = {n}
            /\ \A m \in P : Succ(k)[m] = (Succ(g)[m] \ {n}) \cup {b}
            /\ \A m \in Blocks(g) \ P : Succ(k)[m] = Succ(g)[m]
            /\ k.succ[b] = <<n>> /\ \A m \in Blocks(g) \ P : k.succ[m] = g.succ[m]
            /\ k.code[b] = << >> /\ \A m \in Blocks(g) : k.code[m] = g.code[m]
<1> DEFINE p == Place(g, n)
           d == << >>
           s == <<n>>
           h == AddBlock(g, p, d, s)
           b == Len(g.code) + 1
           w == [m \in DOMAIN h.succ |->
                   IF m \in P THEN ReplaceAll(h.succ[m], n, b) ELSE h.succ[m]]
           k == [h EXCEPT !.succ = w]
<1>1. p \in 1 .. Len(g.layout) + 1 /\ p # 1
  BY PlaceFacts
<1>2. IsSeq(d) /\ s \in Seq(Blocks(g)) /\ Range(s) = {n}
  <2>1. d \in Seq({})
    OBVIOUS
  <2> HIDE DEF d
  <2>2. IsSeq(d)
    BY <2>1, IsSeqOfSeq
  <2>3. s \in Seq(Blocks(g)) /\ Range(s) = {n}
    BY DEF Range
  <2> QED BY <2>2, <2>3
<1> HIDE DEF p
<1>3. /\ IsFunction(h) /\ Len(h.code) = b
      /\ b \notin Blocks(g) /\ Blocks(h) = Blocks(g) \cup {b}
      /\ h.succ[b] = s /\ \A m \in Blocks(g) : h.succ[m] = g.succ[m]
      /\ h.code[b] = d /\ \A m \in Blocks(g) : h.code[m] = g.code[m]
      /\ Entry(h) = Entry(g)
  <2> HIDE DEF d, s
  <2>0. p \in 1 .. Len(g.layout) + 1 /\ IsSeq(d) /\ s \in Seq(Blocks(g))
    BY <1>1, <1>2
  <2> QED BY ONLY IsFunction(g), <1>1, <2>0, AddBlockFacts
<1>4. SplitPredecessors(g, n, P) = k
  BY <1>3 DEF SplitPredecessors, p
<1> HIDE DEF h, d
<1>5. /\ h = [layout |-> h.layout, code |-> h.code, succ |-> h.succ]
      /\ IsSeq(h.code) /\ \A m \in Blocks(h) : IsSeq(h.code[m])
      /\ h.layout \in Seq(Blocks(h)) /\ h.layout # << >> /\ Range(h.layout) = Blocks(h)
      /\ h.succ \in Seq(Seq(Blocks(h))) /\ DOMAIN h.succ = Blocks(h)
  BY <1>3 DEF IsFunction
<1>6. P \subseteq Blocks(g)
  <2>1. IsGraph(Pred(g)) /\ DOMAIN Pred(g) = Blocks(g)
    BY FunctionGraph
  <2> QED BY <2>1 DEF IsGraph
<1> HIDE DEF s, b
<1>7. ASSUME NEW t \in Seq(Blocks(h)), n \in Range(t)
      PROVE  /\ ReplaceAll(t, n, b) \in Seq(Blocks(h))
             /\ Range(ReplaceAll(t, n, b)) = (Range(t) \ {n}) \cup {b}
  <2>1. /\ DOMAIN ReplaceAll(t, n, b) = 1 .. Len(t) /\ DOMAIN t = 1 .. Len(t) /\ Len(t) \in Nat
        /\ \A i \in 1 .. Len(t) : ReplaceAll(t, n, b)[i] = IF t[i] = n THEN b ELSE t[i]
    BY DEF ReplaceAll
  <2>2. b \in Blocks(h) /\ b # n
    BY <1>3
  <2>3. ReplaceAll(t, n, b) \in Seq(Blocks(h))
    BY <2>2 DEF ReplaceAll
  <2>4. Range(ReplaceAll(t, n, b)) = (Range(t) \ {n}) \cup {b}
    BY <1>7, <2>1, <2>2 DEF Range
  <2> QED BY <2>3, <2>4
<1>8. /\ DOMAIN w = Blocks(h)
      /\ \A m \in Blocks(h) : w[m] = IF m \in P THEN ReplaceAll(h.succ[m], n, b) ELSE h.succ[m]
  BY <1>5
<1>9. ASSUME NEW m \in P
      PROVE  /\ m \in Blocks(g) /\ h.succ[m] \in Seq(Blocks(h)) /\ n \in Range(h.succ[m])
             /\ h.succ[m] = g.succ[m]
  <2>1. m \in Blocks(g) /\ h.succ[m] = g.succ[m] /\ n \in Range(g.succ[m])
    BY <1>3, <1>6 DEF Pred
  <2>2. h.succ[m] \in Seq(Blocks(h))
    BY <1>3, <1>5, <2>1
  <2> QED BY <2>1, <2>2
<1>10. w \in Seq(Seq(Blocks(h)))
  <2>1. ASSUME NEW m \in Blocks(h) PROVE w[m] \in Seq(Blocks(h))
    <3>1. CASE m \in P
      BY <1>7, <1>8, <1>9, <3>1
    <3>2. CASE m \notin P
      BY <1>5, <1>8, <3>2
    <3> QED BY <3>1, <3>2
  <2>2. DOMAIN w = 1 .. Len(h.succ) /\ Len(h.succ) \in Nat
    BY <1>5, <1>8
  <2> DEFINE T == Seq(Blocks(h))
  <2>3. w = [m \in 1 .. Len(h.succ) |-> w[m]] /\ \A m \in 1 .. Len(h.succ) : w[m] \in T
    BY <1>8, <2>1, <2>2
  <2> HIDE DEF T, w
  <2> QED BY <2>2, <2>3 DEF T
<1> HIDE DEF w
<1>11. k = [layout |-> h.layout, code |-> h.code, succ |-> w]
  <2>1. h = [layout |-> h.layout, code |-> h.code, succ |-> h.succ]
    BY <1>5
  <2> QED BY ONLY <2>1
<1>12. k.layout = h.layout /\ k.code = h.code /\ k.succ = w
  BY <1>11
<1> HIDE DEF k
<1>13. Blocks(k) = Blocks(h) /\ Entry(k) = Entry(h)
  BY <1>12 DEF Blocks, Entry
<1>14. IsFunction(k)
  BY <1>5, <1>8, <1>10, <1>11, <1>12, <1>13 DEF IsFunction
<1>15. /\ IsGraph(Succ(g)) /\ DOMAIN Succ(g) = Blocks(g)
       /\ IsGraph(Succ(k)) /\ DOMAIN Succ(k) = Blocks(g) \cup {b}
  BY <1>3, <1>13, <1>14, FunctionGraph
<1>16. Succ(k)[b] = {n}
  <2>1. b \in Blocks(k) /\ b \notin P
    BY <1>3, <1>6, <1>13
  <2> QED BY <1>2, <1>3, <1>8, <1>12, <1>13, <2>1 DEF Succ
<1>17. ASSUME NEW m \in P PROVE Succ(k)[m] = (Succ(g)[m] \ {n}) \cup {b}
  <2>1. /\ m \in Blocks(g) /\ m \in Blocks(k) /\ k.succ[m] = ReplaceAll(h.succ[m], n, b)
    BY <1>3, <1>6, <1>8, <1>12, <1>13
  <2>2. Range(k.succ[m]) = (Range(g.succ[m]) \ {n}) \cup {b}
    BY <1>7, <1>9, <2>1
  <2> QED BY <2>1, <2>2 DEF Succ
<1>18. ASSUME NEW m \in Blocks(g) \ P PROVE Succ(k)[m] = Succ(g)[m]
  BY <1>3, <1>8, <1>12, <1>13 DEF Succ
<1>19. ASSUME NEW m \in P PROVE n \in Succ(g)[m]
  BY <1>6 DEF Pred, Succ
<1>20. Subdivided(Succ(g), Succ(k), b)
  BY <1>3, <1>6, <1>15, <1>16, <1>17, <1>18, <1>19 DEF Subdivided, IsGraph
<1>21. \E m \in Blocks(g) : b \in Succ(k)[m]
  BY <1>6, <1>17
<1>22. Refines(g, k, b)
  BY <1>3, <1>13, <1>14, <1>20, <1>21 DEF Refines
<1>23. k.succ[b] = s /\ \A m \in Blocks(g) \ P : k.succ[m] = g.succ[m]
  BY <1>3, <1>6, <1>8, <1>12
<1>24. k.code[b] = << >> /\ \A m \in Blocks(g) : k.code[m] = g.code[m]
  BY <1>3, <1>12 DEF d
<1> QED BY <1>4, <1>16, <1>17, <1>18, <1>22, <1>23, <1>24 DEF b, s

-----------------------------------------------------------------------------
(***************************************************************************)
(* Dominance in a connected function.                                      *)
(***************************************************************************)
LEMMA DomFacts ==
  ASSUME NEW g, IsFunction(g), Connected(g), NEW x \in Blocks(g)
  PROVE  /\ Dom(g)[x] \subseteq Blocks(g) /\ x \in Dom(g)[x]
         /\ Entry(g) \in Dom(g)[x] => x = Entry(g)
         /\ x # Entry(g) => \E p \in Pred(g)[x] : p \notin Dom(g)[x]
         /\ \A e \in Dom(g)[x] : \A p \in Pred(g)[e] : e = x \/ p \in Dom(g)[x]
         /\ \A n \in Blocks(g) \ Dom(g)[x] : \A m \in Succ(g)[n] : m = x \/ m \notin Dom(g)[x]
<1> DEFINE sg == Succ(g)
           S == {Entry(g)}
           X == Dom(g)[x]
<1>1. /\ IsGraph(sg) /\ DOMAIN sg = Blocks(g) /\ S \in SUBSET DOMAIN sg
      /\ Pred(g) = Reversed(sg)
  BY FunctionGraph
<1>2. X = Behind(sg, S, x) /\ Reach(sg, S) = Blocks(g)
  BY DEF Dom, Connected
<1> HIDE DEF sg, S, X
<1>3. /\ X \subseteq DOMAIN sg /\ x \in X
      /\ \A n \in S : n = x \/ n \notin X
      /\ \A n \in DOMAIN sg \ X : \A m \in sg[n] : m = x \/ m \notin X
  BY <1>1, <1>2, BehindFacts
<1>4. x \notin S => \E p \in DOMAIN sg : x \in sg[p] /\ p \notin X
  BY <1>1, <1>2, NotBehind
<1>5. \A e \in X : \A p \in Pred(g)[e] : e = x \/ p \in X
  BY <1>1, <1>3 DEF Reversed
<1>6. x \notin S => \E p \in Pred(g)[x] : p \notin X
  BY <1>1, <1>4 DEF Reversed
<1> QED BY <1>1, <1>3, <1>5, <1>6 DEF S, X, sg

LEMMA DomOrder ==
  ASSUME NEW g, IsFunction(g), Connected(g), NEW x \in Blocks(g), NEW y \in Blocks(g)
  PROVE  /\ y \in Dom(g)[x] => Dom(g)[y] \subseteq Dom(g)[x]
         /\ y \in Dom(g)[x] /\ x \in Dom(g)[y] => x = y
         /\ \A p \in Dom(g)[x] \cap Dom(g)[y] : x \in Dom(g)[y] \/ y \in Dom(g)[x]
<1> DEFINE sg == Succ(g)
           S == {Entry(g)}
<1>1. /\ IsGraph(sg) /\ DOMAIN sg = Blocks(g) /\ S \in SUBSET DOMAIN sg
  BY FunctionGraph
<1>2. /\ Dom(g)[x] = Behind(sg, S, x) /\ Dom(g)[y] = Behind(sg, S, y)
      /\ Reach(sg, S) = Blocks(g) /\ Dom(g)[x] \subseteq Blocks(g)
  BY DomFacts DEF Dom, Connected
<1> HIDE DEF sg, S
<1>3. y \in Behind(sg, S, x) => Behind(sg, S, y) \subseteq Behind(sg, S, x)
  BY <1>1, BehindTransitive
<1>4. y \in Behind(sg, S, x) /\ x \in Behind(sg, S, y) => x = y
  BY <1>1, <1>2, BehindAntisymmetric
<1>5. ASSUME NEW p \in Behind(sg, S, x), p \in Behind(sg, S, y)
      PROVE  x \in Behind(sg, S, y) \/ y \in Behind(sg, S, x)
  <2>1. p \in Reach(sg, S)
    BY <1>2
  <2> QED BY <1>1, <1>5, <2>1, BehindComparable
<1> QED BY <1>2, <1>3, <1>4, <1>5

-----------------------------------------------------------------------------
(***************************************************************************)
(* Regions.  What isolate-regions needs of one: control gets from blocks   *)
(* that its entry dominates to its exit.                                   *)
(***************************************************************************)
Isolable(g, r) == r[1] # r[2] /\ \E p \in Pred(g)[r[2]] : p \in Dom(g)[r[1]]

Inside(g, r) == {p \in Pred(g)[r[2]] : InRegion(Dom(g), r, p)}

LEMMA RegionsIsolable ==
  ASSUME NEW g, IsFunction(g), Connected(g), NEW r \in Regions(g)
  PROVE  r \in Blocks(g) \X Blocks(g) /\ Isolable(g, r)
<1> DEFINE a == r[1]
           e == r[2]
           A == Dom(g)[a]
           E == PDom(g)[e]
<1>1. /\ r \in Blocks(g) \X Blocks(g) /\ a # e /\ a \in E
      /\ IsRegion(g, Dom(g), DF(g), a, e)
  BY DEF Regions
<1>2. a \in Blocks(g) /\ e \in Blocks(g)
  BY <1>1
<1> HIDE DEF a, e
<1>3. /\ IsGraph(Succ(g)) /\ DOMAIN Succ(g) = Blocks(g)
      /\ IsGraph(Pred(g)) /\ DOMAIN Pred(g) = Blocks(g)
      /\ Pred(g) = Reversed(Succ(g)) /\ Returns(g) \in SUBSET Blocks(g)
  BY FunctionGraph
<1>4. /\ A \subseteq Blocks(g) /\ a \in A /\ (Entry(g) \in A => a = Entry(g))
      /\ \A n \in A : \A p \in Pred(g)[n] : n = a \/ p \in A
  BY <1>2, DomFacts
<1>5. CASE e \in A
  <2>1. e # Entry(g)
    BY <1>1, <1>4, <1>5
  <2>2. \E p \in Pred(g)[e] : TRUE
    BY <1>2, <2>1, DomFacts
  <2>3. \E p \in Pred(g)[e] : p \in A
    BY <1>1, <1>4, <1>5, <2>2
  <2> QED BY <1>1, <2>3 DEF Isolable, a, e
<1>6. CASE e \notin A
  <2> DEFINE pg == Pred(g)
             S == Returns(g)
             C == (Blocks(g) \ E) \cup (Blocks(g) \ A)
  <2>1. SUFFICES ASSUME \A p \in Pred(g)[e] : p \notin A PROVE FALSE
    BY <1>1 DEF Isolable, a, e
  <2>2. \A n \in A : \A m \in Succ(g)[n] : m \in A
    <3>1. DF(g)[a] \subseteq {a, e}
      BY <1>1, <1>6 DEF IsRegion
    <3>2. DF(g)[a] = Frontier(Dom(g), Succ(g), a)
      BY <1>2 DEF DF
    <3>3. ASSUME NEW n \in A, NEW m \in Succ(g)[n], m \notin A PROVE FALSE
      <4>1. m \in Frontier(Dom(g), Succ(g), a)
        BY <3>3 DEF Frontier
      <4>2. m = e
        BY <1>4, <3>1, <3>2, <3>3, <4>1
      <4>3. n \in Pred(g)[e]
        BY <1>2, <1>3, <1>4, <3>3, <4>2 DEF Reversed
      <4> QED BY <2>1, <3>3, <4>3
    <3> QED BY <3>3
  <2>3. E = Behind(pg, S, e)
    BY <1>2 DEF PDom
  <2>4. /\ \A n \in S : n = e \/ n \notin E
        /\ \A n \in Blocks(g) \ E : \A m \in pg[n] : m = e \/ m \notin E
    <3>1. IsGraph(pg) /\ DOMAIN pg = Blocks(g) /\ S \in SUBSET DOMAIN pg
      BY <1>3
    <3> HIDE DEF pg, S, E
    <3> QED BY <1>2, <2>3, <3>1, BehindFacts
  <2>5. Reach(pg, S) = Blocks(g)
    BY DEF Connected
  <2>6. \A n \in Blocks(g) : \A m \in pg[n] : m \in Blocks(g) /\ n \in Succ(g)[m]
    BY <1>3 DEF Reversed
  <2> HIDE DEF pg, S, A, E
  <2>7. S \subseteq C
    BY <1>2, <1>3, <1>6, <2>4 DEF S
  <2>8. ClosedUnder(pg, C)
    BY <1>2, <1>3, <1>6, <2>2, <2>4, <2>6 DEF ClosedUnder
  <2> HIDE DEF C
  <2>9. Blocks(g) \subseteq C
    BY <1>3, <2>5, <2>7, <2>8, ReachIsLeast DEF pg, S
  <2> QED BY <1>1, <1>2, <1>4, <2>9 DEF C
<1> QED BY <1>1, <1>5, <1>6

\* addDummyBefore has an edge to put its block on.
LEMMA InsideNotEmpty ==
  ASSUME NEW g, IsFunction(g), Connected(g),
         NEW r \in Blocks(g) \X Blocks(g), Isolable(g, r)
  PROVE  Inside(g, r) # {} /\ r[2] # Entry(g)
<1> DEFINE a == r[1]
           e == r[2]
<1>1. a \in Blocks(g) /\ e \in Blocks(g) /\ a # e
  BY DEF Isolable
<1>2. PICK p \in Pred(g)[e] : p \in Dom(g)[a]
  BY DEF Isolable
<1>3. e # Entry(g)
  BY <1>2 DEF Connected
<1>4. \E q \in Pred(g)[e] : q \in Dom(g)[a] /\ ~(q \in Dom(g)[e] /\ e \in Dom(g)[a])
  <2>1. CASE e \notin Dom(g)[a]
    BY <1>2, <2>1
  <2>2. CASE e \in Dom(g)[a]
    <3>1. PICK q \in Pred(g)[e] : q \notin Dom(g)[e]
      BY <1>1, <1>3, DomFacts
    <3>2. q \in Dom(g)[a]
      BY <1>1, <2>2, <3>1, DomFacts
    <3> QED BY <3>1, <3>2
  <2> QED BY <2>1, <2>2
<1> QED BY <1>3, <1>4 DEF Inside, InRegion

\* Of two regions with one exit that share a block which leads to it, the
\* one isolated first is inside the other: all that its dummy is put behind
\* is dominated by the other's entry, too.
LEMMA InnerFirst ==
  ASSUME NEW g, IsFunction(g), Connected(g),
         NEW r \in Blocks(g) \X Blocks(g), r[1] # r[2],
         NEW s \in Blocks(g) \X Blocks(g), s[2] = r[2], Before(g, r, s),
         NEW p \in Inside(g, r), p \in Dom(g)[s[1]]
  PROVE  Inside(g, r) \subseteq Dom(g)[s[1]]
<1> DEFINE a == r[1]
           b == s[1]
           e == r[2]
           R == {n \in Blocks(g) : InRegion(Dom(g), r, n)}
           Q == {n \in Blocks(g) : InRegion(Dom(g), s, n)}
<1>1. a \in Blocks(g) /\ b \in Blocks(g) /\ e \in Blocks(g) /\ a # e
  OBVIOUS
<1>2. /\ \A n : n \in R <=> n \in Blocks(g) /\ n \in Dom(g)[a] /\ ~(n \in Dom(g)[e] /\ e \in Dom(g)[a])
      /\ \A n : n \in Q <=> n \in Blocks(g) /\ n \in Dom(g)[b] /\ ~(n \in Dom(g)[e] /\ e \in Dom(g)[b])
  BY DEF InRegion
<1>3. /\ \A n \in Inside(g, r) : n \in Dom(g)[a]
      /\ p \in Dom(g)[a] /\ ~(p \in Dom(g)[e] /\ e \in Dom(g)[a]) /\ p \in Dom(g)[b]
  BY DEF Inside, InRegion
<1>4. Cardinality(R) <= Cardinality(Q)
  <2>1. IsFiniteSet(Blocks(g))
    BY FunctionGraph DEF IsGraph
  <2>2. Cardinality(R) \in Nat /\ Cardinality(Q) \in Nat
    <3>1. IsFiniteSet(R) /\ IsFiniteSet(Q)
      BY <2>1, FS_Subset
    <3> HIDE DEF R, Q
    <3> QED BY <3>1, FS_CardinalityType
  <2>3. Cardinality(R) < Cardinality(Q) \/ Cardinality(R) = Cardinality(Q)
    BY DEF Before
  <2> HIDE DEF R, Q
  <2> QED BY <2>2, <2>3
<1> HIDE DEF R, Q
<1>5. CASE a \in Dom(g)[b]
  BY <1>1, <1>3, <1>5, DomOrder DEF b
<1>6. CASE a \notin Dom(g)[b]
  <2>1. b \in Dom(g)[a] /\ Dom(g)[b] \subseteq Dom(g)[a] /\ a \in Dom(g)[a]
    BY <1>1, <1>3, <1>6, DomOrder, DomFacts
  <2>2. Q \subseteq R
    <3> SUFFICES ASSUME NEW n \in Q, n \in Dom(g)[e], e \in Dom(g)[a] PROVE FALSE
      BY <1>2, <2>1
    <3>1. n \in Dom(g)[b] /\ e \notin Dom(g)[b]
      BY <1>2
    <3>2. b \in Dom(g)[e]
      BY <1>1, <3>1, DomOrder
    <3>3. Dom(g)[b] \subseteq Dom(g)[e]
      BY <1>1, <3>2, DomOrder
    <3> QED BY <1>3, <3>3
  <2>3. a \in R /\ a \notin Q
    <3>1. ~(a \in Dom(g)[e] /\ e \in Dom(g)[a])
      BY <1>1, DomOrder
    <3> QED BY <1>1, <1>2, <1>6, <2>1, <3>1
  <2>4. IsFiniteSet(R)
    <3>1. IsFiniteSet(Blocks(g)) /\ R \in SUBSET Blocks(g)
      BY <1>2, FunctionGraph DEF IsGraph
    <3> QED BY <3>1, FS_Subset
  <2>5. Cardinality(Q) \in Nat /\ Cardinality(R) \in Nat /\ Cardinality(Q) < Cardinality(R)
    <3>1. Q \in SUBSET R
      BY <2>2
    <3>2. IsFiniteSet(Q) /\ Cardinality(Q) <= Cardinality(R) /\ Cardinality(R) # Cardinality(Q)
      BY <2>3, <2>4, <3>1, FS_Subset
    <3>3. Cardinality(Q) \in Nat /\ Cardinality(R) \in Nat
      BY <2>4, <3>2, FS_CardinalityType
    <3> QED BY <3>2, <3>3
  <2> QED BY <1>4, <2>5
<1> QED BY <1>5, <1>6

\* addDummyBefore keeps the function connected and every region isolable.
LEMMA DummyBeforeKeeps ==
  ASSUME NEW g, IsFunction(g), Connected(g),
         NEW r \in Blocks(g) \X Blocks(g), Isolable(g, r)
  PROVE  LET k == SplitPredecessors(g, r[2], Inside(g, r))
         IN /\ IsFunction(k) /\ Connected(k) /\ Blocks(g) \subseteq Blocks(k)
            /\ \A s \in Blocks(g) \X Blocks(g) :
                 Isolable(g, s) /\ Before(g, r, s) => Isolable(k, s)
<1> DEFINE e == r[2]
           P == Inside(g, r)
           k == SplitPredecessors(g, e, P)
           b == Len(g.code) + 1
<1>1. e \in Blocks(g) /\ e # Entry(g) /\ P # {} /\ r[1] # r[2]
  BY InsideNotEmpty DEF Isolable
<1>2. P \in SUBSET Pred(g)[e]
  BY DEF Inside
<1> HIDE DEF P, k, b, e
<1>3. /\ Refines(g, k, b) /\ Succ(k)[b] = {e}
      /\ \A m \in P : Succ(k)[m] = (Succ(g)[m] \ {e}) \cup {b}
      /\ \A m \in Blocks(g) \ P : Succ(k)[m] = Succ(g)[m]
  BY <1>1, <1>2, SplitPredecessorsRefines DEF k, b
<1>4. /\ IsFunction(k) /\ Blocks(k) = Blocks(g) \cup {b} /\ b \notin Blocks(g)
  BY <1>3, FunctionGraph DEF Refines, Subdivided
<1>5. Connected(k)
  BY <1>3, RefinesConnected
<1>6. /\ IsGraph(Succ(g)) /\ DOMAIN Succ(g) = Blocks(g) /\ Pred(g) = Reversed(Succ(g))
      /\ DOMAIN Succ(k) = Blocks(k) /\ Pred(k) = Reversed(Succ(k))
  BY <1>4, FunctionGraph
<1>7. ASSUME NEW s \in Blocks(g) \X Blocks(g), Isolable(g, s), Before(g, r, s)
      PROVE  Isolable(k, s)
  <2> DEFINE x == s[1]
             y == s[2]
  <2>1. x \in Blocks(g) /\ y \in Blocks(g) /\ x # y
    BY <1>7 DEF Isolable
  <2>2. PICK p \in Pred(g)[y] : p \in Dom(g)[x]
    BY <1>7 DEF Isolable
  <2>3. p \in Blocks(g) /\ y \in Succ(g)[p]
    BY <1>6, <2>1, <2>2 DEF Reversed
  <2>4. /\ \A n \in Blocks(g) : n \in Dom(k)[x] <=> n \in Dom(g)[x]
        /\ b \in Dom(k)[x] <=> \A n \in Blocks(g) : b \in Succ(k)[n] => n \in Dom(g)[x]
    BY <1>3, <2>1, RefinesDom
  <2>5. \E q \in Blocks(k) : y \in Succ(k)[q] /\ q \in Dom(k)[x]
    <3>1. CASE p \notin P \/ y # e
      <4>1. y \in Succ(k)[p]
        BY <1>3, <2>3, <3>1
      <4> QED BY <1>4, <2>2, <2>3, <2>4, <4>1
    <3>2. CASE p \in P /\ y = e
      <4>1. P \subseteq Dom(g)[x]
        <5>1. s[2] = r[2]
          BY <3>2 DEF e
        <5>2. p \in Inside(g, r)
          BY <3>2 DEF P
        <5> QED BY <1>1, <1>7, <2>2, <5>1, <5>2, InnerFirst DEF P
      <4>2. ASSUME NEW n \in Blocks(g), b \in Succ(k)[n] PROVE n \in P
        BY <1>3, <1>4, <1>6, <4>2 DEF IsGraph
      <4>3. b \in Dom(k)[x]
        BY <2>4, <4>1, <4>2
      <4> QED BY <1>3, <1>4, <3>2, <4>3
    <3> QED BY <3>1, <3>2
  <2>6. \E q \in Pred(k)[y] : q \in Dom(k)[x]
    BY <1>4, <1>6, <2>1, <2>5 DEF Reversed
  <2> QED BY <2>1, <2>6 DEF Isolable
<1> QED BY <1>4, <1>5, <1>7 DEF k, P, e

\* So does addDummyAfter.
LEMMA DummyAfterKeeps ==
  ASSUME NEW g, IsFunction(g), Connected(g), NEW a \in Blocks(g)
  PROVE  LET k == Split(g, a, 1)
         IN /\ IsFunction(k) /\ Connected(k) /\ Blocks(g) \subseteq Blocks(k)
            /\ \A s \in Blocks(g) \X Blocks(g) : Isolable(g, s) => Isolable(k, s)
<1> DEFINE k == Split(g, a, 1)
           b == Len(g.code) + 1
<1> HIDE DEF k, b
<1>3. /\ Refines(g, k, b) /\ Succ(k)[a] = {b} /\ Succ(k)[b] = Succ(g)[a]
      /\ \A m \in Blocks(g) \ {a} : Succ(k)[m] = Succ(g)[m]
  BY SplitRefines DEF k, b
<1>4. /\ IsFunction(k) /\ Blocks(k) = Blocks(g) \cup {b} /\ b \notin Blocks(g)
  BY <1>3, FunctionGraph DEF Refines, Subdivided
<1>5. Connected(k)
  BY <1>3, RefinesConnected
<1>6. /\ IsGraph(Succ(g)) /\ DOMAIN Succ(g) = Blocks(g) /\ Pred(g) = Reversed(Succ(g))
      /\ DOMAIN Succ(k) = Blocks(k) /\ Pred(k) = Reversed(Succ(k))
  BY <1>4, FunctionGraph
<1>7. ASSUME NEW s \in Blocks(g) \X Blocks(g), Isolable(g, s)
      PROVE  Isolable(k, s)
  <2> DEFINE x == s[1]
             y == s[2]
  <2>1. x \in Blocks(g) /\ y \in Blocks(g) /\ x # y
    BY <1>7 DEF Isolable
  <2>2. PICK p \in Pred(g)[y] : p \in Dom(g)[x]
    BY <1>7 DEF Isolable
  <2>3. p \in Blocks(g) /\ y \in Succ(g)[p]
    BY <1>6, <2>1, <2>2 DEF Reversed
  <2>4. /\ \A n \in Blocks(g) : n \in Dom(k)[x] <=> n \in Dom(g)[x]
        /\ b \in Dom(k)[x] <=> \A n \in Blocks(g) : b \in Succ(k)[n] => n \in Dom(g)[x]
    BY <1>3, <2>1, RefinesDom
  <2>5. \E q \in Blocks(k) : y \in Succ(k)[q] /\ q \in Dom(k)[x]
    <3>1. CASE p # a
      BY <1>3, <1>4, <2>2, <2>3, <2>4, <3>1
    <3>2. CASE p = a
      <4>1. ASSUME NEW n \in Blocks(g), b \in Succ(k)[n] PROVE n = a
        BY <1>3, <1>4, <1>6, <4>1 DEF IsGraph
      <4>2. b \in Dom(k)[x]
        BY <2>2, <2>4, <3>2, <4>1
      <4> QED BY <1>3, <1>4, <2>3, <3>2, <4>2
    <3> QED BY <3>1, <3>2
  <2>6. \E q \in Pred(k)[y] : q \in Dom(k)[x]
    BY <1>4, <1>6, <2>1, <2>5 DEF Reversed
  <2> QED BY <2>1, <2>6 DEF Isolable
<1> QED BY <1>4, <1>5, <1>7 DEF k

LEMMA IsolateKeeps ==
  ASSUME NEW g, IsFunction(g), Connected(g),
         NEW r \in Blocks(g) \X Blocks(g), Isolable(g, r)
  PROVE  LET k == Isolate(g, r)
         IN /\ IsFunction(k) /\ Connected(k) /\ Blocks(g) \subseteq Blocks(k)
            /\ \A s \in Blocks(g) \X Blocks(g) :
                 Isolable(g, s) /\ Before(g, r, s) => Isolable(k, s)
<1> DEFINE j == SplitPredecessors(g, r[2], Inside(g, r))
           k == Split(j, r[1], 1)
<1>1. k = Isolate(g, r)
  BY DEF Isolate, Inside
<1>2. /\ IsFunction(j) /\ Connected(j) /\ Blocks(g) \subseteq Blocks(j)
      /\ \A s \in Blocks(g) \X Blocks(g) :
           Isolable(g, s) /\ Before(g, r, s) => Isolable(j, s)
  BY DummyBeforeKeeps
<1> HIDE DEF j
<1>3. r[1] \in Blocks(j)
  BY <1>2
<1>4. /\ IsFunction(k) /\ Connected(k) /\ Blocks(j) \subseteq Blocks(k)
      /\ \A s \in Blocks(j) \X Blocks(j) : Isolable(j, s) => Isolable(k, s)
  BY <1>2, <1>3, DummyAfterKeeps
<1> HIDE DEF k
<1>5. \A s \in Blocks(g) \X Blocks(g) : s \in Blocks(j) \X Blocks(j)
  BY <1>2
<1> QED BY <1>1, <1>2, <1>4, <1>5

-----------------------------------------------------------------------------
(***************************************************************************)
(* Splitting keeps loops in the form loop-simplify left them in.           *)
(***************************************************************************)
IsHeader(g, h) == \E q \in Pred(g)[h] : q \in Dom(g)[h]

\* The only way into the loop with header h.
IsPreheader(g, h, p) == Pred(g)[h] \ Dom(g)[h] = {p} /\ g.succ[p] = <<h>>

LEMMA SimplifiedFacts ==
  ASSUME NEW g
  PROVE  Simplified(g) <=>
           \A h \in Blocks(g) : IsHeader(g, h) => \E p \in Blocks(g) : IsPreheader(g, h, p)
<1>1. ASSUME NEW h PROVE Pred(g)[h] \cap Dom(g)[h] # {} <=> IsHeader(g, h)
  BY DEF IsHeader
<1> QED BY <1>1 DEF Simplified, IsPreheader

\* The half of n with its branch takes n's place among the predecessors.
LEMMA SplitIntoKeepsLoops ==
  ASSUME NEW g, IsFunction(g), Connected(g), Simplified(g), NEW n \in Blocks(g),
         NEW c, IsSeq(c), NEW d, IsSeq(d)
  PROVE  LET k == SplitInto(g, n, c, d)
         IN /\ IsFunction(k) /\ Connected(k) /\ Simplified(k) /\ Blocks(g) \subseteq Blocks(k)
            /\ \A h \in Blocks(g) : IsHeader(g, h) => IsHeader(k, h)
<1> DEFINE k == SplitInto(g, n, c, d)
           b == Len(g.code) + 1
<1> HIDE DEF k, b
<1>1. /\ Refines(g, k, b) /\ Succ(k)[n] = {b} /\ Succ(k)[b] = Succ(g)[n]
      /\ \A m \in Blocks(g) \ {n} : Succ(k)[m] = Succ(g)[m]
      /\ k.succ[b] = g.succ[n] /\ \A m \in Blocks(g) \ {n} : k.succ[m] = g.succ[m]
  BY SplitIntoRefines DEF k, b
<1>2. /\ IsFunction(k) /\ Blocks(k) = Blocks(g) \cup {b} /\ b \notin Blocks(g)
  BY <1>1, FunctionGraph DEF Refines, Subdivided
<1>3. Connected(k)
  BY <1>1, RefinesConnected
<1>4. /\ IsGraph(Succ(g)) /\ DOMAIN Succ(g) = Blocks(g) /\ Pred(g) = Reversed(Succ(g))
      /\ DOMAIN Succ(k) = Blocks(k) /\ Pred(k) = Reversed(Succ(k))
  BY <1>2, FunctionGraph
<1>5. ASSUME NEW m \in Blocks(g) PROVE b \in Succ(k)[m] <=> m = n
  BY <1>1, <1>2, <1>4 DEF IsGraph
<1>6. ASSUME NEW h \in Blocks(g)
      PROVE  /\ \A m \in Blocks(g) : m \in Pred(k)[h] <=> m \in Pred(g)[h] /\ m # n
             /\ b \in Pred(k)[h] <=> n \in Pred(g)[h]
  <2>1. \A m \in Blocks(k) : m \in Pred(k)[h] <=> h \in Succ(k)[m]
    BY <1>2, <1>4 DEF Reversed
  <2>2. \A m \in Blocks(g) : m \in Pred(g)[h] <=> h \in Succ(g)[m]
    BY <1>4 DEF Reversed
  <2> QED BY <1>1, <1>2, <2>1, <2>2
<1>7. ASSUME NEW h \in Blocks(g)
      PROVE  /\ \A m \in Blocks(g) : m \in Dom(k)[h] <=> m \in Dom(g)[h]
             /\ b \in Dom(k)[h] <=> n \in Dom(g)[h]
  <2>1. /\ \A m \in Blocks(g) : m \in Dom(k)[h] <=> m \in Dom(g)[h]
        /\ b \in Dom(k)[h] <=> \A m \in Blocks(g) : b \in Succ(k)[m] => m \in Dom(g)[h]
    BY <1>1, RefinesDom
  <2> QED BY <1>5, <2>1
<1>8. ASSUME NEW h \in Blocks(k) PROVE Pred(k)[h] \subseteq Blocks(k)
  BY <1>4 DEF Reversed
<1>9. ASSUME NEW h \in Blocks(g) PROVE Pred(g)[h] \subseteq Blocks(g)
  BY <1>4 DEF Reversed
<1>10. ASSUME NEW h \in Blocks(g) PROVE IsHeader(g, h) <=> IsHeader(k, h)
  BY <1>2, <1>6, <1>7, <1>8, <1>9 DEF IsHeader
<1>11. ~IsHeader(k, b)
  <2> SUFFICES ASSUME IsHeader(k, b) PROVE FALSE
    OBVIOUS
  <2>1. PICK q \in Pred(k)[b] : q \in Dom(k)[b]
    BY DEF IsHeader
  <2>2. \A m \in Blocks(k) : m \in Pred(k)[b] <=> b \in Succ(k)[m]
    BY <1>2, <1>4 DEF Reversed
  <2>3. b \notin Succ(k)[b]
    BY <1>1, <1>2, <1>4 DEF IsGraph
  <2>4. q = n
    BY <1>2, <1>5, <1>8, <2>1, <2>2, <2>3
  <2>5. b \in Dom(k)[n]
    <3>1. n \in Dom(g)[n]
      BY DomFacts
    <3> QED BY <1>7, <3>1
  <2>6. n = b
    <3>1. n \in Dom(k)[b] /\ n \in Blocks(k) /\ b \in Blocks(k)
      BY <1>2, <2>1, <2>4
    <3> QED BY <1>2, <1>3, <2>5, <3>1, DomOrder
  <2> QED BY <1>2, <2>6
<1>12. ASSUME NEW h \in Blocks(g), IsHeader(k, h)
       PROVE  \E p \in Blocks(k) : IsPreheader(k, h, p)
  <2>1. PICK p \in Blocks(g) : IsPreheader(g, h, p)
    BY <1>10, <1>12, SimplifiedFacts
  <2>2. Pred(g)[h] \ Dom(g)[h] = {p} /\ g.succ[p] = <<h>>
    BY <2>1 DEF IsPreheader
  <2>3. CASE p # n
    <3>1. Pred(k)[h] \ Dom(k)[h] = {p}
      BY <1>2, <1>6, <1>7, <1>8, <1>9, <2>2, <2>3
    <3>2. k.succ[p] = <<h>>
      BY <1>1, <2>2, <2>3
    <3> QED BY <1>2, <3>1, <3>2 DEF IsPreheader
  <2>4. CASE p = n
    <3>1. Pred(k)[h] \ Dom(k)[h] = {b}
      BY <1>2, <1>6, <1>7, <1>8, <1>9, <2>2, <2>4
    <3>2. k.succ[b] = <<h>>
      BY <1>1, <2>2, <2>4
    <3> QED BY <1>2, <3>1, <3>2 DEF IsPreheader
  <2> QED BY <2>3, <2>4
<1>13. Simplified(k)
  <2>1. ASSUME NEW h \in Blocks(k), IsHeader(k, h)
        PROVE  \E p \in Blocks(k) : IsPreheader(k, h, p)
    BY <1>2, <1>11, <1>12, <2>1
  <2> QED BY <2>1, SimplifiedFacts
<1> QED BY <1>2, <1>3, <1>10, <1>13 DEF k

\* The dummy in front of a region's exit takes the place of the preheader
\* if that is in the region, and is no header itself.
LEMMA DummyBeforeKeepsLoops ==
  ASSUME NEW g, IsFunction(g), Connected(g), Simplified(g),
         NEW r \in Blocks(g) \X Blocks(g), Isolable(g, r)
  PROVE  Simplified(SplitPredecessors(g, r[2], Inside(g, r)))
<1> DEFINE a == r[1]
           e == r[2]
           P == Inside(g, r)
           k == SplitPredecessors(g, e, P)
           b == Len(g.code) + 1
<1>1. a \in Blocks(g) /\ e \in Blocks(g) /\ P \in SUBSET Pred(g)[e] /\ P # {} /\ e # Entry(g)
  BY InsideNotEmpty DEF Inside
<1>2. \A p \in P : p \in Dom(g)[a] /\ ~(p \in Dom(g)[e] /\ e \in Dom(g)[a])
  BY DEF Inside, InRegion
<1> HIDE DEF a, e, P, k, b
<1>3. /\ Refines(g, k, b) /\ Succ(k)[b] = {e}
      /\ \A m \in P : Succ(k)[m] = (Succ(g)[m] \ {e}) \cup {b}
      /\ \A m \in Blocks(g) \ P : Succ(k)[m] = Succ(g)[m]
      /\ k.succ[b] = <<e>> /\ \A m \in Blocks(g) \ P : k.succ[m] = g.succ[m]
  <2>1. /\ Refines(g, k, b) /\ Succ(k)[b] = {e} /\ k.succ[b] = <<e>>
    BY ONLY IsFunction(g), <1>1, SplitPredecessorsRefines DEF k, b
  <2>2. /\ \A m \in P : Succ(k)[m] = (Succ(g)[m] \ {e}) \cup {b}
        /\ \A m \in Blocks(g) \ P : Succ(k)[m] = Succ(g)[m]
    BY ONLY IsFunction(g), <1>1, SplitPredecessorsRefines DEF k, b
  <2>3. \A m \in Blocks(g) \ P : k.succ[m] = g.succ[m]
    BY ONLY IsFunction(g), <1>1, SplitPredecessorsRefines DEF k
  <2> QED BY <2>1, <2>2, <2>3
<1>4. /\ IsFunction(k) /\ Blocks(k) = Blocks(g) \cup {b} /\ b \notin Blocks(g)
      /\ Entry(k) = Entry(g)
  BY <1>3, FunctionGraph DEF Refines, Subdivided
<1>5. Connected(k)
  BY <1>3, RefinesConnected
<1>6. /\ IsGraph(Succ(g)) /\ DOMAIN Succ(g) = Blocks(g) /\ Pred(g) = Reversed(Succ(g))
      /\ DOMAIN Succ(k) = Blocks(k) /\ Pred(k) = Reversed(Succ(k))
      /\ Entry(g) \in Blocks(g)
  BY <1>4, FunctionGraph
<1>7. \A h \in Blocks(g) : Pred(g)[h] \subseteq Blocks(g)
  BY <1>6 DEF Reversed
<1>8. \A h \in Blocks(k) : Pred(k)[h] \subseteq Blocks(k)
  BY <1>6 DEF Reversed
<1>9. /\ \A h \in Blocks(g) : \A m \in Blocks(g) : m \in Pred(g)[h] <=> h \in Succ(g)[m]
      /\ \A h \in Blocks(k) : \A m \in Blocks(k) : m \in Pred(k)[h] <=> h \in Succ(k)[m]
  BY <1>6 DEF Reversed
<1>10. P \subseteq Blocks(g)
  BY <1>1, <1>7
<1>11. ASSUME NEW m \in Blocks(g) PROVE b \in Succ(k)[m] <=> m \in P
  BY <1>3, <1>4, <1>6 DEF IsGraph
<1>12. ASSUME NEW h \in Blocks(g)
       PROVE  /\ \A m \in Blocks(g) : m \in Dom(k)[h] <=> m \in Dom(g)[h]
              /\ b \in Dom(k)[h] <=> P \subseteq Dom(g)[h]
  <2>1. /\ \A m \in Blocks(g) : m \in Dom(k)[h] <=> m \in Dom(g)[h]
        /\ b \in Dom(k)[h] <=> \A m \in Blocks(g) : b \in Succ(k)[m] => m \in Dom(g)[h]
    BY <1>3, RefinesDom
  <2> QED BY <1>10, <1>11, <2>1
<1>13. ASSUME NEW h \in Blocks(g), h # e PROVE Pred(k)[h] = Pred(g)[h]
  <2>1. \A m \in Blocks(g) : h \in Succ(k)[m] <=> h \in Succ(g)[m]
    BY <1>3, <1>4, <1>13
  <2>2. h \notin Succ(k)[b]
    BY <1>3, <1>13
  <2>3. \A m \in Blocks(g) : m \in Pred(k)[h] <=> m \in Pred(g)[h]
    BY <1>4, <1>9, <2>1
  <2>4. b \notin Pred(k)[h]
    BY <1>4, <1>9, <2>2
  <2>5. Pred(k)[h] \subseteq Blocks(g) \cup {b} /\ Pred(g)[h] \subseteq Blocks(g)
    BY <1>4, <1>7, <1>8
  <2> QED BY ONLY <2>3, <2>4, <2>5
<1>14. Pred(k)[e] = (Pred(g)[e] \ P) \cup {b}
  <2>1. \A m \in Blocks(g) : e \in Succ(k)[m] <=> e \in Succ(g)[m] /\ m \notin P
    BY <1>1, <1>3, <1>4
  <2>2. e \in Succ(k)[b]
    BY <1>3
  <2> QED BY <1>1, <1>4, <1>7, <1>8, <1>9, <2>1, <2>2
<1>15. ASSUME NEW h \in Blocks(g), h # e, IsHeader(k, h)
       PROVE  \E p \in Blocks(k) : IsPreheader(k, h, p)
  <2>1. IsHeader(g, h)
    BY <1>7, <1>12, <1>13, <1>15 DEF IsHeader
  <2>2. PICK p \in Blocks(g) : IsPreheader(g, h, p)
    BY <2>1, SimplifiedFacts
  <2>3. Pred(g)[h] \ Dom(g)[h] = {p} /\ g.succ[p] = <<h>>
    BY <2>2 DEF IsPreheader
  <2>4. p \notin P
    <3>1. Succ(g)[p] = {h}
      BY <2>3 DEF Succ, Range
    <3> QED BY <1>1, <1>9, <1>10, <1>15, <3>1
  <2>5. Pred(k)[h] \ Dom(k)[h] = {p}
    BY <1>7, <1>12, <1>13, <1>15, <2>3
  <2> QED BY <1>3, <1>4, <2>3, <2>4, <2>5 DEF IsPreheader
<1>16. ASSUME IsHeader(k, e)
       PROVE  \E p \in Blocks(k) : IsPreheader(k, e, p)
  <2>1. IsHeader(g, e)
    <3>1. PICK q \in Pred(k)[e] : q \in Dom(k)[e]
      BY <1>16 DEF IsHeader
    <3>2. CASE q = b
      BY <1>1, <1>12, <3>1, <3>2 DEF IsHeader
    <3>3. CASE q # b
      BY <1>1, <1>7, <1>12, <1>14, <3>1, <3>3 DEF IsHeader
    <3> QED BY <3>2, <3>3
  <2>2. PICK p \in Blocks(g) : IsPreheader(g, e, p)
    BY <1>1, <2>1, SimplifiedFacts
  <2>3. Pred(g)[e] \ Dom(g)[e] = {p} /\ g.succ[p] = <<e>>
    BY <2>2 DEF IsPreheader
  <2>4. CASE p \notin P
    <3>1. b \in Dom(k)[e]
      BY <1>1, <1>12, <2>3, <2>4
    <3>2. Pred(k)[e] \ Dom(k)[e] = {p}
      BY <1>1, <1>4, <1>7, <1>12, <1>14, <2>3, <2>4, <3>1
    <3> QED BY <1>3, <1>4, <2>3, <2>4, <3>2 DEF IsPreheader
  <2>5. CASE p \in P
    <3>1. b \notin Dom(k)[e]
      BY <1>1, <1>12, <2>3, <2>5
    <3>2. Pred(k)[e] \ Dom(k)[e] = {b}
      BY <1>1, <1>4, <1>7, <1>12, <1>14, <2>3, <2>5, <3>1
    <3> QED BY <1>3, <1>4, <3>2 DEF IsPreheader
  <2> QED BY <2>4, <2>5
<1>17. ~IsHeader(k, b)
  <2> SUFFICES ASSUME IsHeader(k, b) PROVE FALSE
    OBVIOUS
  <2>1. PICK q \in Pred(k)[b] : q \in Dom(k)[b]
    BY DEF IsHeader
  <2>2. q \in P
    <3>1. b \in Succ(k)[q] /\ q \in Blocks(k)
      BY <1>4, <1>8, <1>9, <2>1
    <3>2. q # b
      BY <1>1, <1>3, <1>4, <3>1
    <3> QED BY <1>4, <1>11, <3>1, <3>2
  <2> DEFINE C == Blocks(g) \ Dom(k)[b]
  <2>3. Entry(g) \in C
    <3>1. b \in Blocks(k) /\ Entry(k) # b
      BY <1>4, <1>6
    <3>2. Entry(k) \notin Dom(k)[b]
      BY <1>4, <1>5, <3>1, DomFacts
    <3> QED BY <1>4, <1>6, <3>2
  <2>4. ASSUME NEW x \in C, NEW m \in Succ(k)[x], m \in Blocks(g)
        PROVE  m \in C
    <3>1. b \in Blocks(k) /\ x \in Blocks(k) \ Dom(k)[b] /\ m # b
      BY <1>4, <2>4
    <3>2. m = b \/ m \notin Dom(k)[b]
      BY <1>4, <1>5, <3>1, DomFacts
    <3> QED BY <2>4, <3>1, <3>2
  <2>5. ASSUME NEW x \in C, NEW m \in Succ(g)[x], m # e
        PROVE  m \in C
    <3>1. m \in Succ(k)[x] /\ m \in Blocks(g)
      BY <1>3, <1>6, <2>5 DEF IsGraph
    <3> QED BY <2>4, <3>1
  <2> HIDE DEF C
  <2>6. \A x \in Blocks(g) : x \in C \/ x \in Dom(g)[e]
    <3>1. Dom(g)[e] = Behind(Succ(g), {Entry(g)}, e)
      BY <1>1 DEF Dom
    <3>2. \A x \in {Entry(g)} : x = e \/ x \in C
      BY <2>3
    <3>3. \A x \in C \cap DOMAIN Succ(g) : \A m \in Succ(g)[x] : x = e \/ m = e \/ m \in C
      BY <2>5
    <3>4. {Entry(g)} \in SUBSET DOMAIN Succ(g) /\ e \in DOMAIN Succ(g)
      BY <1>1, <1>6
    <3>5. \A x \in DOMAIN Succ(g) : x \in C \/ x \in Behind(Succ(g), {Entry(g)}, e)
      BY <1>6, <3>2, <3>3, <3>4, BehindFacts
    <3> QED BY <1>6, <3>1, <3>5
  <2>7. q \in Dom(g)[e] /\ q \notin C
    BY <1>10, <2>1, <2>2, <2>6 DEF C
  <2>8. P \subseteq Dom(g)[e]
    <3>1. q \in Dom(g)[a] /\ e \notin Dom(g)[a]
      BY <1>2, <2>2, <2>7
    <3>2. a \in Dom(g)[e]
      BY <1>1, <2>7, <3>1, DomOrder
    <3>3. Dom(g)[a] \subseteq Dom(g)[e]
      BY <1>1, <3>2, DomOrder
    <3> QED BY <1>2, <3>3
  <2>9. PICK p \in Pred(g)[e] : p \notin Dom(g)[e]
    BY <1>1, DomFacts
  <2>10. e \in C
    <3>1. p \in Blocks(g) /\ p \notin P /\ e \in Succ(g)[p]
      BY <1>1, <1>7, <1>9, <2>8, <2>9
    <3>2. p \in C /\ e \in Succ(k)[p]
      BY <1>3, <2>6, <2>9, <3>1
    <3> QED BY <1>1, <2>4, <3>2
  <2>11. Blocks(g) \subseteq C
    <3>1. {Entry(g)} \subseteq C /\ ClosedUnder(Succ(g), C)
      BY <2>3, <2>5, <2>10 DEF ClosedUnder
    <3>2. Reach(Succ(g), {Entry(g)}) \subseteq C
      BY <1>6, <3>1, ReachIsLeast
    <3> QED BY <3>2 DEF Connected
  <2> QED BY <1>10, <2>2, <2>7, <2>11
<1>18. ASSUME NEW h \in Blocks(k), IsHeader(k, h)
       PROVE  \E p \in Blocks(k) : IsPreheader(k, h, p)
  BY <1>4, <1>15, <1>16, <1>17, <1>18
<1>19. Simplified(k)
  BY <1>18, SimplifiedFacts
<1> QED BY <1>19 DEF k, e, P

LEMMA IsolateKeepsLoops ==
  ASSUME NEW g, IsFunction(g), Connected(g), Simplified(g),
         NEW r \in Blocks(g) \X Blocks(g), Isolable(g, r)
  PROVE  Simplified(Isolate(g, r))
<1> DEFINE j == SplitPredecessors(g, r[2], Inside(g, r))
<1>1. Split(j, r[1], 1) = Isolate(g, r)
  BY DEF Isolate, Inside
<1>2. /\ IsFunction(j) /\ Connected(j) /\ Blocks(g) \subseteq Blocks(j)
  BY DummyBeforeKeeps
<1>3. Simplified(j)
  BY DummyBeforeKeepsLoops
<1> HIDE DEF j
<1>4. r[1] \in Blocks(j) /\ 1 \in 1 .. Len(j.code[r[1]]) + 1
  <2>1. r[1] \in Blocks(j)
    BY <1>2
  <2>2. IsSeq(j.code[r[1]])
    BY <1>2, <2>1 DEF IsFunction
  <2> DEFINE s == j.code[r[1]]
  <2>3. Len(s) \in Nat
    BY <2>2 DEF IsSeq
  <2> HIDE DEF s
  <2>4. 1 \in 1 .. Len(s) + 1
    BY <2>3
  <2> QED BY <2>1, <2>4 DEF s
<1>5. PICK c, d : IsSeq(c) /\ IsSeq(d) /\ Split(j, r[1], 1) = SplitInto(j, r[1], c, d)
  BY <1>2, <1>4, SplitIsInto
<1> QED BY <1>1, <1>2, <1>3, <1>4, <1>5, SplitIntoKeepsLoops

-----------------------------------------------------------------------------
(***************************************************************************)
(* The kernel's own instructions in a block.                               *)
(***************************************************************************)
\* The ids after the first p of b.
Counted(b, h, n) ==
  h = [p \in 0 .. n |->
         IF p = 0 THEN << >>
         ELSE IF b[p].id = 0 THEN h[p - 1] ELSE Append(h[p - 1], b[p].id)]

LEMMA CountedExists ==
  ASSUME NEW b, NEW n \in Nat
  PROVE  \E h : Counted(b, h, n)
<1> DEFINE K == {k \in Nat : \E h : Counted(b, h, k)}
<1>1. 0 \in K
  <2>1. Counted(b, [p \in 0 .. 0 |-> << >>], 0)
    BY DEF Counted
  <2> QED BY <2>1
<1>2. ASSUME NEW k \in Nat, NEW h, Counted(b, h, k)
      PROVE  \E e : Counted(b, e, k + 1)
  <2> DEFINE e == [p \in 0 .. k + 1 |->
                     IF p = k + 1
                     THEN IF b[p].id = 0 THEN h[k] ELSE Append(h[k], b[p].id)
                     ELSE h[p]]
  <2>1. ASSUME NEW p \in 0 .. k + 1
        PROVE  e[p] = IF p = 0 THEN << >>
                      ELSE IF b[p].id = 0 THEN e[p - 1] ELSE Append(e[p - 1], b[p].id)
    <3>1. CASE p = k + 1
      BY <3>1
    <3>2. CASE p # k + 1
      <4>1. p \in 0 .. k /\ e[p] = h[p] /\ (p # 0 => e[p - 1] = h[p - 1])
        BY <3>2
      <4>2. h[p] = IF p = 0 THEN << >>
                   ELSE IF b[p].id = 0 THEN h[p - 1] ELSE Append(h[p - 1], b[p].id)
        BY <1>2, <4>1, Zenon DEF Counted
      <4> QED BY <4>1, <4>2
    <3> QED BY <3>1, <3>2
  <2>2. e = [p \in 0 .. k + 1 |-> e[p]]
    OBVIOUS
  <2> HIDE DEF e
  <2>3. Counted(b, e, k + 1)
    BY <2>1, <2>2, Zenon DEF Counted
  <2> QED BY <2>3
<1>3. Nat \subseteq K
  <2>1. \A k \in Nat : k \in K => k + 1 \in K
    BY <1>2
  <2> HIDE DEF K
  <2> QED BY <1>1, <2>1, SetInduction
<1> QED BY <1>3

\* The ids after the first p, for all of a block.
IdsUpTo(b) == CHOOSE h : Counted(b, h, Len(b))

LEMMA IdsUpToFacts ==
  ASSUME NEW T, NEW b \in Seq(T)
  PROVE  /\ Ids(b) = IdsUpTo(b)[Len(b)] /\ Ids(b) \in Seq({t.id : t \in T})
         /\ IdsUpTo(b)[0] = << >>
         /\ \A p \in 1 .. Len(b) :
              IdsUpTo(b)[p] = IF b[p].id = 0 THEN IdsUpTo(b)[p - 1]
                              ELSE Append(IdsUpTo(b)[p - 1], b[p].id)
         /\ \A p \in 0 .. Len(b) : IdsUpTo(b)[p] \in Seq({t.id : t \in T})
<1> DEFINE h == IdsUpTo(b)
           U == {t.id : t \in T}
<1>1. Counted(b, h, Len(b))
  <2>1. Len(b) \in Nat
    OBVIOUS
  <2>2. \E e : Counted(b, e, Len(b))
    BY <2>1, CountedExists
  <2> QED BY <2>2, Zenon DEF IdsUpTo
<1>2. Ids(b) = h[Len(b)]
  BY Zenon DEF Ids, Counted, IdsUpTo
<1> HIDE DEF h
<1>3. Len(b) \in Nat /\ \A p \in 1 .. Len(b) : b[p] \in T
  OBVIOUS
<1>4. ASSUME NEW p \in 0 .. Len(b)
      PROVE  h[p] = IF p = 0 THEN << >>
                    ELSE IF b[p].id = 0 THEN h[p - 1] ELSE Append(h[p - 1], b[p].id)
  BY <1>1, Zenon DEF Counted
<1>5. h[0] = << >> /\ \A p \in 1 .. Len(b) :
        h[p] = IF b[p].id = 0 THEN h[p - 1] ELSE Append(h[p - 1], b[p].id)
  BY <1>3, <1>4
<1> DEFINE K == {k \in Nat : k <= Len(b) => h[k] \in Seq(U)}
<1>6. 0 \in K
  <2>1. << >> \in Seq(U)
    OBVIOUS
  <2> HIDE DEF U
  <2> QED BY <1>5, <2>1
<1>7. ASSUME NEW k \in Nat, k \in K PROVE k + 1 \in K
  <2>1. SUFFICES ASSUME k + 1 <= Len(b) PROVE h[k + 1] \in Seq(U)
    OBVIOUS
  <2>2. h[k] \in Seq(U) /\ k + 1 \in 1 .. Len(b) /\ (k + 1) - 1 = k
    BY <1>3, <1>7, <2>1
  <2>3. b[k + 1].id \in U
    BY <1>3, <2>2
  <2>4. h[k + 1] = IF b[k + 1].id = 0 THEN h[k] ELSE Append(h[k], b[k + 1].id)
    BY <1>5, <2>2
  <2> HIDE DEF U
  <2> QED BY <2>2, <2>3, <2>4
<1>8. \A p \in 0 .. Len(b) : h[p] \in Seq(U)
  <2>1. Nat \subseteq K
    <3> HIDE DEF K
    <3> QED BY <1>6, <1>7, SetInduction
  <2> QED BY <1>3, <2>1
<1>9. Ids(b) \in Seq(U)
  <2> HIDE DEF U
  <2> QED BY <1>2, <1>3, <1>8
<1> QED BY <1>2, <1>5, <1>8, <1>9 DEF h

LEMMA AppendConcat ==
  ASSUME NEW U, NEW s \in Seq(U), NEW t \in Seq(U), NEW i \in U,
         NEW l, l = Append(t, i)
  PROVE  s \o l = Append(s \o t, i)
OBVIOUS

LEMMA ConcatEmpty ==
  ASSUME NEW U, NEW x \in Seq(U)
  PROVE  x \o << >> = x
OBVIOUS

LEMMA IdsConcat ==
  ASSUME NEW T, NEW a \in Seq(T), NEW b \in Seq(T)
  PROVE  Ids(a \o b) = Ids(a) \o Ids(b)
<1> DEFINE c == a \o b
           U == {t.id : t \in T}
           ha == IdsUpTo(a)
           hb == IdsUpTo(b)
           hc == IdsUpTo(c)
<1>1. c \in Seq(T) /\ Len(c) = Len(a) + Len(b) /\ Len(a) \in Nat /\ Len(b) \in Nat
      /\ (\A p \in 1 .. Len(a) : c[p] = a[p])
      /\ (\A p \in 1 .. Len(b) : c[Len(a) + p] = b[p])
  OBVIOUS
<1> HIDE DEF c
<1>2. /\ Ids(a) = ha[Len(a)] /\ ha[0] = << >>
      /\ \A p \in 1 .. Len(a) : ha[p] = IF a[p].id = 0 THEN ha[p - 1] ELSE Append(ha[p - 1], a[p].id)
      /\ \A p \in 0 .. Len(a) : ha[p] \in Seq(U)
  BY IdsUpToFacts
<1>3. /\ Ids(b) = hb[Len(b)] /\ hb[0] = << >>
      /\ \A p \in 1 .. Len(b) : hb[p] = IF b[p].id = 0 THEN hb[p - 1] ELSE Append(hb[p - 1], b[p].id)
      /\ \A p \in 0 .. Len(b) : hb[p] \in Seq(U)
  BY IdsUpToFacts
<1>4. /\ Ids(c) = hc[Len(c)] /\ hc[0] = << >>
      /\ \A p \in 1 .. Len(c) : hc[p] = IF c[p].id = 0 THEN hc[p - 1] ELSE Append(hc[p - 1], c[p].id)
  BY <1>1, IdsUpToFacts
<1>5. \A p \in 1 .. Len(b) : b[p].id \in U
  OBVIOUS
<1> HIDE DEF ha, hb, hc, U
<1> DEFINE K == {k \in Nat : k <= Len(a) => hc[k] = ha[k]}
<1>6. 0 \in K
  BY <1>2, <1>4
<1>7. ASSUME NEW k \in Nat, k \in K PROVE k + 1 \in K
  <2>1. SUFFICES ASSUME k + 1 <= Len(a) PROVE hc[k + 1] = ha[k + 1]
    OBVIOUS
  <2>2. hc[k] = ha[k] /\ k + 1 \in 1 .. Len(a) /\ k + 1 \in 1 .. Len(c) /\ (k + 1) - 1 = k
    BY <1>1, <1>7, <2>1
  <2> QED BY <1>1, <1>2, <1>4, <2>2
<1>8. hc[Len(a)] = ha[Len(a)]
  <2>1. Nat \subseteq K
    <3> HIDE DEF K
    <3> QED BY <1>6, <1>7, SetInduction
  <2> QED BY <1>1, <2>1
<1> DEFINE Both(k) == hc[Len(a) + k] = ha[Len(a)] \o hb[k]
           J == {k \in Nat : k <= Len(b) => Both(k)}
<1>9. Both(0)
  <2> DEFINE x == ha[Len(a)]
  <2>1. x \in Seq(U)
    BY <1>1, <1>2
  <2> HIDE DEF x
  <2>2. x \o << >> = x
    BY ONLY <2>1, ConcatEmpty
  <2>3. Len(a) + 0 = Len(a)
    BY <1>1
  <2> QED BY <1>3, <1>8, <2>2, <2>3 DEF x
<1>10. ASSUME NEW k \in Nat, k + 1 <= Len(b), Both(k) PROVE Both(k + 1)
  <2> DEFINE p == Len(a) + (k + 1)
             x == ha[Len(a)]
             y == hb[k]
             e == b[k + 1].id
  <2>1. hc[Len(a) + k] = x \o y
    BY <1>10
  <2>2. /\ k + 1 \in 1 .. Len(b) /\ p \in 1 .. Len(c)
        /\ (k + 1) - 1 = k /\ p - 1 = Len(a) + k
    BY <1>1, <1>10
  <2>3. c[p] = b[k + 1]
    BY <1>1, <2>2
  <2>4. hc[p] = IF e = 0 THEN hc[Len(a) + k] ELSE Append(hc[Len(a) + k], e)
    BY <1>4, <2>2, <2>3
  <2>5. hb[k + 1] = IF e = 0 THEN y ELSE Append(y, e)
    BY <1>3, <2>2
  <2>6. x \in Seq(U) /\ y \in Seq(U) /\ e \in U
    BY <1>1, <1>2, <1>3, <1>5, <2>2
  <2> DEFINE l == Append(y, e)
  <2>7. l = Append(y, e)
    OBVIOUS
  <2> HIDE DEF x, y, e, l
  <2>8. x \o l = Append(x \o y, e)
    BY ONLY <2>6, <2>7, AppendConcat
  <2>9. hc[p] = x \o hb[k + 1]
    BY <2>1, <2>4, <2>5, <2>7, <2>8
  <2> QED BY <2>9 DEF x
<1>11. hc[Len(a) + Len(b)] = ha[Len(a)] \o hb[Len(b)]
  <2> HIDE DEF Both
  <2>1. 0 \in J /\ \A k \in Nat : k \in J => k + 1 \in J
    BY <1>1, <1>9, <1>10
  <2>2. Nat \subseteq J
    <3> HIDE DEF J
    <3> QED BY <2>1, SetInduction
  <2>3. Both(Len(b))
    BY <1>1, <2>2
  <2> QED BY <2>3 DEF Both
<1> QED BY <1>1, <1>2, <1>3, <1>4, <1>11 DEF c

\* A barrier a pass adds is none of the kernel's instructions.
LEMMA IdsSingle ==
  ASSUME NEW i
  PROVE  Ids(<< i >>) = IF i.id = 0 THEN << >> ELSE << i.id >>
<1> DEFINE b == << i >>
           h == IdsUpTo(b)
<1>1. b \in Seq({i}) /\ Len(b) = 1 /\ b[1] = i
  OBVIOUS
<1> HIDE DEF b
<1>2. /\ Ids(b) = h[Len(b)] /\ h[0] = << >>
      /\ \A p \in 1 .. Len(b) : h[p] = IF b[p].id = 0 THEN h[p - 1] ELSE Append(h[p - 1], b[p].id)
  BY <1>1, IdsUpToFacts
<1> HIDE DEF h
<1>3. Append(<< >>, i.id) = << i.id >>
  OBVIOUS
<1>4. 1 \in 1 .. Len(b) /\ 1 - 1 = 0
  BY <1>1
<1>5. h[1] = IF i.id = 0 THEN << >> ELSE << i.id >>
  BY <1>1, <1>2, <1>3, <1>4
<1> QED BY <1>1, <1>2, <1>5 DEF b

LEMMA IdsIn ==
  ASSUME NEW b, IsSeq(b)
  PROVE  \E U : Ids(b) \in Seq(U)
<1>1. b \in Seq(Range(b)) /\ Len(b) \in Nat
  BY DEF IsSeq
<1> DEFINE U == {t.id : t \in Range(b)}
<1>2. Ids(b) \in Seq(U)
  BY <1>1, IdsUpToFacts, Zenon
<1> QED BY <1>2

LEMMA IdsEmpty == Ids(<< >>) = << >>
<1> DEFINE b == << >>
           h == IdsUpTo(b)
<1>1. b \in Seq({}) /\ Len(b) = 0
  OBVIOUS
<1> HIDE DEF b
<1>2. Ids(b) = h[Len(b)] /\ h[0] = << >>
  BY <1>1, IdsUpToFacts
<1> HIDE DEF h
<1> QED BY <1>1, <1>2 DEF b
-----------------------------------------------------------------------------
(***************************************************************************)
(* createBarrier changes what is in a block, and neither the graph nor the *)
(* kernel's own instructions.                                              *)
(***************************************************************************)
SameGraph(g, h) ==
  /\ IsFunction(h) /\ Blocks(h) = Blocks(g)
  /\ h.succ = g.succ /\ h.layout = g.layout

\* The kernel's own instructions are the same, too.
SameIds(g, h) == SameGraph(g, h) /\ \A n \in Blocks(g) : Ids(h.code[n]) = Ids(g.code[n])

LEMMA SameGraphFacts ==
  ASSUME NEW g, NEW h, SameGraph(g, h)
  PROVE  /\ Succ(h) = Succ(g) /\ Pred(h) = Pred(g) /\ Entry(h) = Entry(g)
         /\ Dom(h) = Dom(g) /\ PDom(h) = PDom(g)
         /\ Connected(g) => Connected(h)
         /\ Simplified(g) => Simplified(h)
         /\ Loops(h) = Loops(g) /\ BackEdges(h) = BackEdges(g)
<1>1. Blocks(h) = Blocks(g) /\ h.succ = g.succ /\ h.layout = g.layout
  BY DEF SameGraph
<1>2. Succ(h) = Succ(g) /\ Pred(h) = Pred(g) /\ Entry(h) = Entry(g)
  BY <1>1 DEF Succ, Pred, Entry
<1>3. Returns(h) = Returns(g)
  BY <1>1 DEF Returns, IsReturn
<1>4. Dom(h) = Dom(g) /\ PDom(h) = PDom(g)
  BY <1>1, <1>2, <1>3 DEF Dom, PDom
<1>5. Connected(g) => Connected(h)
  BY <1>1, <1>2, <1>3 DEF Connected
<1>6. Simplified(g) => Simplified(h)
  BY <1>1, <1>2, <1>4 DEF Simplified
<1>7. BackEdges(h) = BackEdges(g)
  BY <1>1, <1>4 DEF BackEdges
<1>8. Loops(h) = Loops(g)
  BY <1>1, <1>2, <1>7 DEF Loops
<1> QED BY <1>2, <1>4, <1>5, <1>6, <1>7, <1>8

\* Code is put into a block, or nowhere.
LEMMA CodeFacts ==
  ASSUME NEW g, IsFunction(g), NEW n, NEW c, n \in Blocks(g) => IsSeq(c)
  PROVE  LET h == [g EXCEPT !.code[n] = c]
         IN /\ SameGraph(g, h)
            /\ \A m \in Blocks(g) : h.code[m] = IF m = n THEN c ELSE g.code[m]
<1> DEFINE h == [g EXCEPT !.code[n] = c]
           C == Range(g.code) \cup {c}
           v == [g.code EXCEPT ![n] = c]
<1>1. /\ g = [layout |-> g.layout, code |-> g.code, succ |-> g.succ]
      /\ g.code \in Seq(Range(g.code)) /\ \A m \in Blocks(g) : IsSeq(g.code[m])
      /\ DOMAIN g.code = Blocks(g)
  BY DEF IsFunction, IsSeq, Blocks
<1>2. h = [layout |-> g.layout, code |-> v, succ |-> g.succ]
  <2>1. g = [layout |-> g.layout, code |-> g.code, succ |-> g.succ]
    BY <1>1
  <2>2. h = [g EXCEPT !.code = v]
    OBVIOUS
  <2> HIDE DEF v, h
  <2> QED BY <2>1, <2>2
<1> HIDE DEF h
<1>3. h.layout = g.layout /\ h.code = v /\ h.succ = g.succ
  BY <1>2
<1>4. /\ DOMAIN v = Blocks(g)
      /\ \A m \in Blocks(g) : v[m] = IF m = n THEN c ELSE g.code[m]
  BY <1>1
<1>5. IsSeq(v)
  <2>1. CASE n \in Blocks(g)
    <3>1. g.code \in Seq(C)
      BY <1>1, SeqWidened
    <3>2. c \in C /\ n \in 1 .. Len(g.code)
      BY <1>1, <2>1
    <3> HIDE DEF C
    <3>3. v \in Seq(C)
      BY <3>1, <3>2, ExceptSeq
    <3> QED BY <3>3, IsSeqOfSeq
  <2>2. CASE n \notin Blocks(g)
    <3>1. v = g.code
      BY <1>1, <2>2
    <3> QED BY <1>1, <3>1, IsSeqOfSeq
  <2> QED BY <2>1, <2>2
<1>6. Blocks(h) = Blocks(g)
  BY <1>3, <1>4 DEF Blocks
<1>7. ASSUME NEW m \in Blocks(h) PROVE IsSeq(h.code[m])
  BY <1>1, <1>3, <1>4, <1>6
<1>8. h = [layout |-> h.layout, code |-> h.code, succ |-> h.succ]
  BY <1>2, <1>3
<1>9. IsFunction(h)
  BY <1>3, <1>5, <1>6, <1>7, <1>8 DEF IsFunction
<1> QED BY <1>3, <1>4, <1>6, <1>9 DEF SameGraph, h

LEMMA BarrierIsSeq ==
  ASSUME NEW b, IsSeq(b)
  PROVE  IsSeq(BarrierInFront(b)) /\ IsSeq(BarrierAtEnd(b))
<1> DEFINE T == Range(b) \cup {AuxBarrier}
           c == <<AuxBarrier>> \o b
           d == Append(b, AuxBarrier)
<1>1. b \in Seq(T)
  BY SeqWidened DEF IsSeq
<1>2. AuxBarrier \in T
  OBVIOUS
<1> HIDE DEF T
<1>3. c \in Seq(T) /\ d \in Seq(T)
  BY <1>1, <1>2
<1> HIDE DEF c, d
<1>4. IsSeq(c) /\ IsSeq(d)
  BY <1>3, IsSeqOfSeq
<1> QED BY <1>4 DEF BarrierInFront, BarrierAtEnd, c, d

LEMMA BarrierIds ==
  ASSUME NEW b, IsSeq(b)
  PROVE  Ids(BarrierInFront(b)) = Ids(b) /\ Ids(BarrierAtEnd(b)) = Ids(b)
<1> DEFINE T == Range(b) \cup {AuxBarrier}
           a == <<AuxBarrier>>
           c == a \o b
           d == Append(b, AuxBarrier)
<1>1. b \in Seq(T)
  BY SeqWidened DEF IsSeq
<1>2. AuxBarrier \in T /\ AuxBarrier.id = 0
  BY DEF AuxBarrier
<1> HIDE DEF T
<1>3. a \in Seq(T) /\ d = b \o a
  BY <1>1, <1>2
<1>4. Ids(a) = << >>
  BY <1>2, IdsSingle
<1> HIDE DEF a, d
<1>5. Ids(c) = Ids(a) \o Ids(b) /\ Ids(b \o a) = Ids(b) \o Ids(a)
  BY <1>1, <1>3, IdsConcat
<1>6. PICK U : Ids(b) \in Seq(U)
  BY IdsIn
<1>7. Ids(b) \o << >> = Ids(b) /\ << >> \o Ids(b) = Ids(b)
  BY <1>6
<1>8. Ids(c) = Ids(b) /\ Ids(d) = Ids(b)
  BY <1>3, <1>4, <1>5, <1>7
<1> HIDE DEF c
<1> QED BY <1>8 DEF BarrierInFront, BarrierAtEnd, a, c, d

LEMMA PutFacts ==
  ASSUME NEW g, IsFunction(g), NEW n
  PROVE  SameIds(g, PutInFront(g, n)) /\ SameIds(g, PutAtEnd(g, n))
<1> DEFINE c == BarrierInFront(g.code[n])
           d == BarrierAtEnd(g.code[n])
<1>1. n \in Blocks(g) => /\ IsSeq(c) /\ IsSeq(d)
                         /\ Ids(c) = Ids(g.code[n]) /\ Ids(d) = Ids(g.code[n])
  BY BarrierIsSeq, BarrierIds DEF IsFunction
<1>2. PutInFront(g, n) = [g EXCEPT !.code[n] = c] /\ PutAtEnd(g, n) = [g EXCEPT !.code[n] = d]
  BY DEF PutInFront, PutAtEnd
<1> HIDE DEF c, d
<1>3. ASSUME NEW e, n \in Blocks(g) => IsSeq(e) /\ Ids(e) = Ids(g.code[n])
      PROVE  SameIds(g, [g EXCEPT !.code[n] = e])
  <2> DEFINE h == [g EXCEPT !.code[n] = e]
  <2>1. SameGraph(g, h) /\ \A m \in Blocks(g) : h.code[m] = IF m = n THEN e ELSE g.code[m]
    BY <1>3, CodeFacts
  <2> HIDE DEF h
  <2>2. \A m \in Blocks(g) : Ids(h.code[m]) = Ids(g.code[m])
    BY <1>3, <2>1
  <2> QED BY <2>1, <2>2 DEF SameIds, h
<1> QED BY <1>1, <1>2, <1>3

\* Other code in the same blocks.
LEMMA RecodedFacts ==
  ASSUME NEW g, IsFunction(g), NEW v, v = [n \in Blocks(g) |-> v[n]],
         \A n \in Blocks(g) : IsSeq(v[n])
  PROVE  LET h == [g EXCEPT !.code = v]
         IN SameGraph(g, h) /\ h.code = v
<1> DEFINE h == [g EXCEPT !.code = v]
           C == {v[n] : n \in Blocks(g)}
<1>1. g = [layout |-> g.layout, code |-> g.code, succ |-> g.succ]
  BY DEF IsFunction
<1>2. Blocks(g) = 1 .. Len(g.code) /\ Len(g.code) \in Nat
  BY FunctionGraph
<1>3. DOMAIN v = Blocks(g) /\ \A n \in Blocks(g) : v[n] \in C
  BY Zenon
<1> HIDE DEF C
<1>4. IsSeq(v)
  <2>1. v = [n \in 1 .. Len(g.code) |-> v[n]]
    BY <1>2
  <2>2. \A n \in 1 .. Len(g.code) : v[n] \in C
    BY <1>2, <1>3
  <2>3. ASSUME NEW m \in Nat, v = [n \in 1 .. m |-> v[n]], \A n \in 1 .. m : v[n] \in C
        PROVE  v \in Seq(C)
    BY ONLY <2>3
  <2>4. v \in Seq(C)
    BY <1>2, <2>1, <2>2, <2>3
  <2> QED BY <2>4, IsSeqOfSeq
<1>5. h = [layout |-> g.layout, code |-> v, succ |-> g.succ]
  BY ONLY <1>1
<1> HIDE DEF h
<1>6. h.layout = g.layout /\ h.code = v /\ h.succ = g.succ
  BY <1>5
<1>7. Blocks(h) = Blocks(g)
  BY <1>3, <1>6 DEF Blocks
<1>8. h = [layout |-> h.layout, code |-> h.code, succ |-> h.succ]
  BY <1>5, <1>6
<1>9. IsFunction(h)
  BY <1>4, <1>6, <1>7, <1>8 DEF IsFunction
<1> QED BY <1>6, <1>7, <1>9 DEF SameGraph, h

LEMMA PutAtEndsSame ==
  ASSUME NEW g, IsFunction(g), NEW S
  PROVE  SameIds(g, PutAtEnds(g, S))
<1> DEFINE v == [n \in DOMAIN g.code |-> IF n \in S THEN BarrierAtEnd(g.code[n]) ELSE g.code[n]]
           h == [g EXCEPT !.code = v]
<1>1. DOMAIN g.code = Blocks(g) /\ \A n \in Blocks(g) : IsSeq(g.code[n])
  BY DEF IsFunction, Blocks
<1>2. \A n \in Blocks(g) : IsSeq(v[n]) /\ Ids(v[n]) = Ids(g.code[n])
  BY <1>1, BarrierIsSeq, BarrierIds
<1>3. v = [n \in Blocks(g) |-> v[n]]
  BY <1>1
<1>4. PutAtEnds(g, S) = h
  BY DEF PutAtEnds
<1> HIDE DEF v
<1>5. SameGraph(g, h) /\ h.code = v
  BY <1>2, <1>3, RecodedFacts
<1> HIDE DEF h
<1> QED BY <1>2, <1>4, <1>5 DEF SameIds

LEMMA SameIdsTransitive ==
  ASSUME NEW g, NEW h, NEW k, SameIds(g, h), SameIds(h, k)
  PROVE  SameIds(g, k)
BY DEF SameIds, SameGraph

LEMMA SameIdsReflexive ==
  ASSUME NEW g, IsFunction(g)
  PROVE  SameIds(g, g)
BY DEF SameIds, SameGraph

-----------------------------------------------------------------------------
(***************************************************************************)
(* Barriers in front of one block after the other, as FoldLeft puts them:  *)
(* the recursion is over the sets of the places still to go.               *)
(***************************************************************************)
Folded(g, s, h, n) ==
  h = [S \in SUBSET (1 .. n) |->
         IF S = {} THEN g ELSE PutInFront(h[S \ {Max(S)}], s[Max(S)])]

LEMMA MaxFacts ==
  ASSUME NEW n \in Nat, NEW S \in SUBSET (1 .. n + 1), S # {}
  PROVE  /\ Max(S) \in S /\ S \ {Max(S)} \in SUBSET (1 .. n)
         /\ n + 1 \in S <=> Max(S) = n + 1
<1> DEFINE K == {k \in Nat : \A T \in SUBSET (1 .. k) : T # {} => \E x \in T : \A y \in T : x >= y}
<1>1. 0 \in K
  <2>1. \A T \in SUBSET (1 .. 0) : T = {}
    OBVIOUS
  <2> QED BY <2>1
<1>2. ASSUME NEW k \in Nat, k \in K PROVE k + 1 \in K
  <2> SUFFICES ASSUME NEW T \in SUBSET (1 .. k + 1), T # {}
               PROVE  \E x \in T : \A y \in T : x >= y
    OBVIOUS
  <2>1. CASE k + 1 \in T
    BY <2>1
  <2>2. CASE k + 1 \notin T
    <3>1. T \in SUBSET (1 .. k)
      BY <2>2
    <3> QED BY <1>2, <3>1
  <2> QED BY <2>1, <2>2
<1>3. n + 1 \in K
  <2>1. \A k \in Nat : k \in K => k + 1 \in K
    BY <1>2
  <2>2. n + 1 \in Nat
    OBVIOUS
  <2> HIDE DEF K
  <2> QED BY <1>1, <2>1, <2>2, SetInduction
<1>4. \E x \in S : \A y \in S : x >= y
  BY <1>3
<1> HIDE DEF K
<1>5. Max(S) \in S /\ \A y \in S : Max(S) >= y
  BY <1>4 DEF Max
<1> DEFINE m == Max(S)
<1>6. m \in S /\ (\A y \in S : m >= y) /\ m \in 1 .. n + 1
  BY <1>5
<1> HIDE DEF m
<1>7. n + 1 \in S <=> m = n + 1
  BY <1>6
<1>8. ASSUME NEW y \in S \ {m} PROVE y \in 1 .. n
  <2>1. y \in 1 .. n + 1 /\ m >= y /\ y # m
    BY <1>6
  <2> QED BY <1>6, <2>1
<1> QED BY <1>6, <1>7, <1>8 DEF m

LEMMA FoldedExists ==
  ASSUME NEW g, NEW s, NEW n \in Nat
  PROVE  \E h : Folded(g, s, h, n)
<1> DEFINE K == {k \in Nat : \E h : Folded(g, s, h, k)}
<1>1. 0 \in K
  <2> DEFINE h == [S \in SUBSET (1 .. 0) |-> g]
  <2>1. \A S \in SUBSET (1 .. 0) : S = {}
    OBVIOUS
  <2>2. Folded(g, s, h, 0)
    BY <2>1, Zenon DEF Folded
  <2> QED BY <2>2
<1>2. ASSUME NEW k \in Nat, NEW h, Folded(g, s, h, k)
      PROVE  \E e : Folded(g, s, e, k + 1)
  <2> DEFINE e == [S \in SUBSET (1 .. k + 1) |->
                     IF k + 1 \in S THEN PutInFront(h[S \ {k + 1}], s[k + 1]) ELSE h[S]]
  <2>1. ASSUME NEW S \in SUBSET (1 .. k + 1)
        PROVE  e[S] = IF S = {} THEN g ELSE PutInFront(e[S \ {Max(S)}], s[Max(S)])
    <3>1. CASE k + 1 \in S
      <4>1. Max(S) = k + 1 /\ S \ {Max(S)} \in SUBSET (1 .. k + 1) /\ S # {}
        BY <3>1, MaxFacts
      <4>2. e[S \ {k + 1}] = h[S \ {k + 1}]
        BY <4>1
      <4>3. e[S] = PutInFront(h[S \ {k + 1}], s[k + 1])
        BY <3>1
      <4> QED BY <4>1, <4>2, <4>3
    <3>2. CASE k + 1 \notin S
      <4>1. S \in SUBSET (1 .. k) /\ e[S] = h[S]
        BY <3>2
      <4>2. h[S] = IF S = {} THEN g ELSE PutInFront(h[S \ {Max(S)}], s[Max(S)])
        BY <1>2, <4>1, Zenon DEF Folded
      <4>3. S # {} => e[S \ {Max(S)}] = h[S \ {Max(S)}]
        <5>1. S \ {Max(S)} \in SUBSET (1 .. k + 1) /\ k + 1 \notin S \ {Max(S)}
          BY <3>2
        <5> QED BY <5>1
      <4> QED BY <4>1, <4>2, <4>3
    <3> QED BY <3>1, <3>2
  <2>2. e = [S \in SUBSET (1 .. k + 1) |-> e[S]]
    OBVIOUS
  <2> HIDE DEF e
  <2>3. Folded(g, s, e, k + 1)
    BY <2>1, <2>2, Zenon DEF Folded
  <2> QED BY <2>3
<1>3. Nat \subseteq K
  <2>1. \A k \in Nat : k \in K => k + 1 \in K
    BY <1>2
  <2> HIDE DEF K
  <2> QED BY <1>1, <2>1, SetInduction
<1> QED BY <1>3

LEMMA FoldedSame ==
  ASSUME NEW g, IsFunction(g), NEW s, NEW n \in Nat, NEW h, Folded(g, s, h, n)
  PROVE  \A S \in SUBSET (1 .. n) : SameIds(g, h[S])
<1> DEFINE K == {k \in Nat : k <= n => \A S \in SUBSET (1 .. k) : SameIds(g, h[S])}
<1>1. ASSUME NEW S \in SUBSET (1 .. n)
      PROVE  h[S] = IF S = {} THEN g ELSE PutInFront(h[S \ {Max(S)}], s[Max(S)])
  BY Zenon DEF Folded
<1>2. 0 \in K
  <2>1. \A S \in SUBSET (1 .. 0) : S = {} /\ S \in SUBSET (1 .. n)
    <3>1. SUBSET (1 .. 0) = {{}}
      <4>1. 1 .. 0 = {}
        OBVIOUS
      <4> QED BY ONLY <4>1, Zenon
    <3>2. {} \in SUBSET (1 .. n)
      OBVIOUS
    <3> QED BY ONLY <3>1, <3>2
  <2>2. \A S \in SUBSET (1 .. 0) : h[S] = g
    BY <1>1, <2>1
  <2> QED BY <2>2, SameIdsReflexive
<1>3. ASSUME NEW k \in Nat, k \in K PROVE k + 1 \in K
  <2> SUFFICES ASSUME k + 1 <= n, NEW S \in SUBSET (1 .. k + 1) PROVE SameIds(g, h[S])
    <3>1. k + 1 \in K <=> (k + 1 <= n => \A S \in SUBSET (1 .. k + 1) : SameIds(g, h[S]))
      OBVIOUS
    <3> HIDE DEF K
    <3> QED BY <3>1, Zenon
  <2>1. S \in SUBSET (1 .. n)
    OBVIOUS
  <2>2. CASE S = {}
    BY <1>1, <2>1, <2>2, SameIdsReflexive
  <2>3. CASE S # {}
    <3>1. S \ {Max(S)} \in SUBSET (1 .. k)
      BY <2>3, MaxFacts
    <3>2. SameIds(g, h[S \ {Max(S)}])
      BY <1>3, <3>1
    <3>3. h[S] = PutInFront(h[S \ {Max(S)}], s[Max(S)])
      BY <1>1, <2>1, <2>3
    <3>4. IsFunction(h[S \ {Max(S)}])
      BY <3>2 DEF SameIds, SameGraph
    <3>5. SameIds(h[S \ {Max(S)}], h[S])
      BY <3>3, <3>4, PutFacts
    <3> QED BY <3>2, <3>5, SameIdsTransitive
  <2> QED BY <2>2, <2>3
<1>4. n \in K
  <2>1. Nat \subseteq K
    <3> HIDE DEF K
    <3> QED BY <1>2, <1>3, SetInduction
  <2> QED BY <2>1
<1> QED BY <1>4

LEMMA FoldInFront ==
  ASSUME NEW g, IsFunction(g), NEW T, NEW s \in Seq(T)
  PROVE  SameIds(g, FoldLeft(PutInFront, g, s))
<1> DEFINE h == CHOOSE e : Folded(g, s, e, Len(s))
<1>1. DOMAIN s = 1 .. Len(s) /\ Len(s) \in Nat
  OBVIOUS
<1>2. Folded(g, s, h, Len(s))
  <2>1. \E e : Folded(g, s, e, Len(s))
    BY <1>1, FoldedExists
  <2> QED BY <2>1, Zenon
<1>3. FoldLeft(PutInFront, g, s) = h[1 .. Len(s)]
  BY <1>1 DEF FoldLeft, MapThenFoldSet, Folded
<1> HIDE DEF h
<1> QED BY <1>1, <1>2, <1>3, FoldedSame

LEMMA GuardSame ==
  ASSUME NEW g, IsFunction(g), NEW x \in Blocks(g)
  PROVE  SameIds(g, GuardController(g, x))
<1> DEFINE j == PutInFront(g, x)
           h == PutAtEnd(j, x)
<1>1. SameIds(g, j)
  BY PutFacts
<1>2. SameIds(j, h)
  BY <1>1, PutFacts DEF SameIds, SameGraph
<1> HIDE DEF j
<1>3. SameIds(g, h)
  BY <1>1, <1>2, SameIdsTransitive
<1> HIDE DEF h
<1>4. h.succ[x] \in Seq(Blocks(g))
  BY <1>3, FunctionGraph DEF SameIds, SameGraph
<1>5. SameIds(h, FoldLeft(PutInFront, h, h.succ[x]))
  BY <1>3, <1>4, FoldInFront DEF SameIds, SameGraph
<1>6. SameIds(g, FoldLeft(PutInFront, h, h.succ[x]))
  BY <1>3, <1>5, SameIdsTransitive
<1> QED BY <1>3, <1>6 DEF GuardController, h, j

-----------------------------------------------------------------------------
(***************************************************************************)
(* What the kernel's instructions are followed by.                         *)
(***************************************************************************)
\* What is seen first from the nodes in S on.
Firsts(next, shows, S) == UNION {shows[n] : n \in Reach(next, S)}

LEMMA FirstsUnion ==
  ASSUME NEW next, IsGraph(next), NEW shows,
         NEW S \in SUBSET DOMAIN next, NEW T \in SUBSET DOMAIN next
  PROVE  Firsts(next, shows, S \cup T) = Firsts(next, shows, S) \cup Firsts(next, shows, T)
<1>1. ASSUME NEW U \in SUBSET DOMAIN next
      PROVE  \A n : n \in Reach(next, U) <=> \E v \in U : n \in Reach(next, {v})
  <2>1. Reach(next, U) = UNION {Reach(next, {v}) : v \in U}
    BY ReachUnion
  <2> QED BY <2>1
<1>2. S \cup T \in SUBSET DOMAIN next
  OBVIOUS
<1>3. \A n : n \in Reach(next, S \cup T) <=> n \in Reach(next, S) \/ n \in Reach(next, T)
  BY <1>1, <1>2
<1> QED BY <1>3 DEF Firsts

LEMMA FirstsUnfold ==
  ASSUME NEW next, IsGraph(next), NEW shows, NEW v \in DOMAIN next
  PROVE  Firsts(next, shows, {v}) = shows[v] \cup Firsts(next, shows, next[v])
<1>1. Reach(next, {v}) = {v} \cup Reach(next, next[v])
  BY ReachUnfold
<1> QED BY <1>1 DEF Firsts

LEMMA FirstsNone ==
  ASSUME NEW next, IsGraph(next), NEW shows
  PROVE  Firsts(next, shows, {}) = {}
<1>1. {} \in SUBSET DOMAIN next /\ ClosedUnder(next, {})
  BY DEF ClosedUnder
<1>2. Reach(next, {}) \subseteq {}
  BY <1>1, ReachIsLeast
<1> QED BY <1>2 DEF Firsts

\* A node b on some edges changes nothing, where what it shows is what the
\* nodes before it no longer show.
LEMMA FirstsSubdivided ==
  ASSUME NEW next, IsGraph(next), NEW b, NEW into, Subdivided(next, into, b),
         NEW shows, NEW new,
         \A n \in DOMAIN next : shows[n] = new[n] \cup (IF b \in into[n] THEN new[b] ELSE {}),
         NEW S \in SUBSET DOMAIN next
  PROVE  Firsts(into, new, S) = Firsts(next, shows, S)
<1> DEFINE Q == Reach(next, S)
           R == Reach(into, S)
<1>1. Q \subseteq DOMAIN next
  BY ReachIsLeast
<1>2. /\ \A n \in DOMAIN next : n \in R <=> n \in Q
      /\ b \in R <=> \E n \in Q : b \in into[n]
  BY SubdividedReach
<1>3. R \subseteq DOMAIN next \cup {b}
  <2>1. IsGraph(into) /\ DOMAIN into = DOMAIN next \cup {b}
    BY SubdividedGraph
  <2>2. S \in SUBSET DOMAIN into
    BY <2>1
  <2> QED BY <2>1, <2>2, ReachIsLeast
<1> HIDE DEF Q, R
<1>4. ASSUME NEW n \in R, NEW i \in new[n] PROVE \E m \in Q : i \in shows[m]
  <2>1. CASE n = b
    <3>1. PICK m \in Q : b \in into[m]
      BY <1>2, <1>4, <2>1
    <3> QED BY <1>1, <1>4, <2>1, <3>1
  <2>2. CASE n # b
    BY <1>2, <1>3, <1>4, <2>2
  <2> QED BY <2>1, <2>2
<1>5. ASSUME NEW m \in Q, NEW i \in shows[m] PROVE \E n \in R : i \in new[n]
  <2>1. i \in new[m] \/ (b \in into[m] /\ i \in new[b])
    BY <1>1, <1>5
  <2> QED BY <1>1, <1>2, <1>5, <2>1
<1> QED BY <1>4, <1>5 DEF Firsts, Q, R

\* The instructions of the blocks, and the graph of the blocks without any.
IdsOf(g) == [n \in Blocks(g) |-> Ids(g.code[n])]
Silent(g) == [n \in Blocks(g) |-> IF IdsOf(g)[n] = << >> THEN Range(g.succ[n]) ELSE {}]
Shown(g) == [n \in Blocks(g) |-> Shows(g, IdsOf(g), n)]
FirstsOf(g, S) == Firsts(Silent(g), Shown(g), S)
Behinds(g, n) == IF IsReturn(g, n) THEN {0} ELSE FirstsOf(g, Range(g.succ[n]))

\* The pairs in a sequence, and those of its last with what is in A.
Rows(s, A) ==
  IF s = << >> THEN {}
  ELSE {<<s[k], s[k + 1]>> : k \in 1 .. Len(s) - 1} \cup {<<Last(s), i>> : i \in A}

LEMMA FollowsFacts ==
  ASSUME NEW g, IsFunction(g), Connected(g)
  PROVE  /\ IsGraph(Silent(g)) /\ DOMAIN Silent(g) = Blocks(g)
         /\ \A n \in Blocks(g) : Range(g.succ[n]) \subseteq Blocks(g)
         /\ Follows(g) = {<<0, i>> : i \in FirstsOf(g, {Entry(g)})}
                           \cup UNION {Rows(IdsOf(g)[n], Behinds(g, n)) : n \in Blocks(g)}
<1> DEFINE ids == [n \in Blocks(g) |-> Ids(g.code[n])]
           alive == {n \in Reach(Succ(g), {Entry(g)}) : ids[n] # << >>}
<1>1. IsGraph(Succ(g)) /\ DOMAIN Succ(g) = Blocks(g) /\ Entry(g) \in Blocks(g)
  BY FunctionGraph
<1>2. ASSUME NEW n \in Blocks(g) PROVE Range(g.succ[n]) \subseteq Blocks(g)
  <2>1. Succ(g)[n] = Range(g.succ[n])
    BY DEF Succ
  <2> QED BY <1>1, <2>1 DEF IsGraph
<1>3. IsGraph(Silent(g)) /\ DOMAIN Silent(g) = Blocks(g)
  BY <1>1, <1>2 DEF Silent, IsGraph
<1>4. IdsOf(g) = ids
  BY DEF IdsOf
<1>5. ASSUME NEW S \in SUBSET Blocks(g)
      PROVE  FirstIds(g, ids, S) = FirstsOf(g, S)
  <2> DEFINE R == Reach(Silent(g), S)
  <2>1. FirstIds(g, ids, S) = UNION {Shows(g, ids, n) : n \in R}
    BY <1>4, Zenon DEF FirstIds, Silent
  <2>2. R \subseteq Blocks(g)
    BY <1>3, ReachIsLeast
  <2> HIDE DEF ids, R
  <2>3. \A n \in R : Shown(g)[n] = Shows(g, ids, n)
    BY <1>4, <2>2 DEF Shown
  <2>4. FirstsOf(g, S) = UNION {Shown(g)[n] : n \in R}
    BY DEF FirstsOf, Firsts, R
  <2> QED BY <2>1, <2>3, <2>4
<1>6. alive = {n \in Blocks(g) : ids[n] # << >>}
  BY DEF Connected
<1>7. ASSUME NEW n \in Blocks(g) PROVE After(g, ids, n) = Behinds(g, n)
  <2> HIDE DEF ids
  <2> QED BY <1>2, <1>5 DEF After, Behinds
<1>8. ASSUME NEW n \in alive
      PROVE  n \in Blocks(g) /\ FollowsIn(g, ids, n) = Rows(ids[n], Behinds(g, n))
  <2>1. n \in Blocks(g) /\ ids[n] # << >>
    BY <1>6
  <2> HIDE DEF ids
  <2> QED BY <1>7, <2>1 DEF FollowsIn, Rows
<1>9. UNION {FollowsIn(g, ids, n) : n \in alive}
        = UNION {Rows(ids[n], Behinds(g, n)) : n \in Blocks(g)}
  <2>1. \A n \in Blocks(g) : n \notin alive => Rows(ids[n], Behinds(g, n)) = {}
    BY <1>6 DEF Rows
  <2> HIDE DEF alive, ids
  <2> QED BY <1>8, <2>1
<1>10. Follows(g) = {<<0, i>> : i \in FirstIds(g, ids, {Entry(g)})}
                      \cup UNION {FollowsIn(g, ids, n) : n \in alive}
  BY Zenon DEF Follows
<1>11. FirstIds(g, ids, {Entry(g)}) = FirstsOf(g, {Entry(g)})
  BY <1>1, <1>5
<1> HIDE DEF alive, ids
<1> QED BY <1>2, <1>3, <1>4, <1>9, <1>10, <1>11

LEMMA RowsConcat ==
  ASSUME NEW U, NEW c \in Seq(U), NEW d \in Seq(U), c # << >>, d # << >>, NEW A
  PROVE  Rows(c \o d, A) = Rows(c, {d[1]}) \cup Rows(d, A)
<1> DEFINE e == c \o d
           m == Len(c)
<1>1. /\ e \in Seq(U) /\ Len(e) = m + Len(d) /\ m \in Nat \ {0} /\ Len(d) \in Nat \ {0}
      /\ \A k \in 1 .. m + Len(d) : e[k] = IF k <= m THEN c[k] ELSE d[k - m]
  BY ConcatProperties
<1>2. e # << >> /\ Last(e) = d[Len(d)] /\ Last(c) = c[m] /\ Last(d) = d[Len(d)]
  <2> HIDE DEF e
  <2>1. Len(e) \in 1 .. m + Len(d) /\ ~(Len(e) <= m) /\ Len(e) - m = Len(d)
    BY <1>1
  <2>2. e[Len(e)] = d[Len(d)]
    BY <1>1, <2>1
  <2>3. e # << >>
    BY <1>1
  <2> QED BY <2>2, <2>3 DEF Last
<1> HIDE DEF e, m
<1>3. ASSUME NEW k \in 1 .. Len(e) - 1
      PROVE  \/ k \in 1 .. m - 1 /\ <<e[k], e[k + 1]>> = <<c[k], c[k + 1]>>
             \/ <<e[k], e[k + 1]>> = <<c[m], d[1]>>
             \/ \E j \in 1 .. Len(d) - 1 : <<e[k], e[k + 1]>> = <<d[j], d[j + 1]>>
  <2>1. k \in 1 .. m + Len(d) /\ k + 1 \in 1 .. m + Len(d)
    BY <1>1
  <2>2. CASE k < m
    BY <1>1, <2>1, <2>2
  <2>3. CASE k = m
    <3>1. e[k] = c[m] /\ e[k + 1] = d[(k + 1) - m] /\ (k + 1) - m = 1
      BY <1>1, <2>1, <2>3
    <3> QED BY <3>1
  <2>4. CASE k > m
    <3> DEFINE j == k - m
    <3>1. j \in 1 .. Len(d) - 1 /\ (k + 1) - m = j + 1
      BY <1>1, <2>4
    <3>2. e[k] = d[j] /\ e[k + 1] = d[(k + 1) - m]
      BY <1>1, <2>1, <2>4
    <3> QED BY <3>1, <3>2
  <2> QED BY <1>1, <2>2, <2>3, <2>4
<1>4. ASSUME NEW k \in 1 .. m - 1
      PROVE  k \in 1 .. Len(e) - 1 /\ <<c[k], c[k + 1]>> = <<e[k], e[k + 1]>>
  BY <1>1
<1>5. m \in 1 .. Len(e) - 1 /\ <<c[m], d[1]>> = <<e[m], e[m + 1]>>
  <2>1. m \in 1 .. m + Len(d) /\ m + 1 \in 1 .. m + Len(d) /\ ~(m + 1 <= m) /\ (m + 1) - m = 1
        /\ m \in 1 .. Len(e) - 1
    BY <1>1
  <2> QED BY <1>1, <2>1
<1>6. ASSUME NEW j \in 1 .. Len(d) - 1
      PROVE  \E k \in 1 .. Len(e) - 1 : <<d[j], d[j + 1]>> = <<e[k], e[k + 1]>>
  <2> DEFINE k == m + j
  <2>1. k \in 1 .. Len(e) - 1 /\ k \in 1 .. m + Len(d) /\ k + 1 \in 1 .. m + Len(d)
        /\ ~(k <= m) /\ ~(k + 1 <= m) /\ k - m = j /\ (k + 1) - m = j + 1
    BY <1>1
  <2>2. e[k] = d[j] /\ e[k + 1] = d[j + 1]
    BY <1>1, <2>1
  <2> QED BY <2>1, <2>2
<1> DEFINE Pairs(s) == {<<s[k], s[k + 1]>> : k \in 1 .. Len(s) - 1}
<1>7. Pairs(e) = Pairs(c) \cup {<<c[m], d[1]>>} \cup Pairs(d)
  <2>1. ASSUME NEW x \in Pairs(e) PROVE x \in Pairs(c) \cup {<<c[m], d[1]>>} \cup Pairs(d)
    <3>1. PICK k \in 1 .. Len(e) - 1 : x = <<e[k], e[k + 1]>>
      OBVIOUS
    <3>2. CASE k \in 1 .. m - 1 /\ <<e[k], e[k + 1]>> = <<c[k], c[k + 1]>>
      <4>1. x \in Pairs(c)
        BY ONLY <3>1, <3>2 DEF m
      <4> QED BY <4>1
    <3>3. CASE <<e[k], e[k + 1]>> = <<c[m], d[1]>>
      BY ONLY <3>1, <3>3
    <3>4. CASE \E j \in 1 .. Len(d) - 1 : <<e[k], e[k + 1]>> = <<d[j], d[j + 1]>>
      <4>1. x \in Pairs(d)
        BY ONLY <3>1, <3>4
      <4> QED BY <4>1
    <3> QED BY <1>3, <3>2, <3>3, <3>4
  <2>2. Pairs(c) \subseteq Pairs(e)
    BY <1>4 DEF m
  <2>3. <<c[m], d[1]>> \in Pairs(e)
    BY <1>5
  <2>4. Pairs(d) \subseteq Pairs(e)
    <3>1. ASSUME NEW j \in 1 .. Len(d) - 1 PROVE <<d[j], d[j + 1]>> \in Pairs(e)
      <4>1. PICK k \in 1 .. Len(e) - 1 : <<d[j], d[j + 1]>> = <<e[k], e[k + 1]>>
        BY <1>6
      <4>2. <<e[k], e[k + 1]>> \in Pairs(e)
        OBVIOUS
      <4> QED BY <4>1, <4>2, Zenon
    <3> QED BY <3>1
  <2> HIDE DEF Pairs
  <2> QED BY <2>1, <2>2, <2>3, <2>4
<1>8. /\ Rows(e, A) = Pairs(e) \cup {<<d[Len(d)], i>> : i \in A}
      /\ Rows(c, {d[1]}) = Pairs(c) \cup {<<c[m], i>> : i \in {d[1]}}
      /\ Rows(d, A) = Pairs(d) \cup {<<d[Len(d)], i>> : i \in A}
  BY <1>2 DEF Rows
<1>9. {<<c[m], i>> : i \in {d[1]}} = {<<c[m], d[1]>>}
  OBVIOUS
<1> HIDE DEF Pairs
<1>10. Rows(e, A) = Rows(c, {d[1]}) \cup Rows(d, A)
  BY <1>7, <1>8, <1>9
<1> QED BY <1>10 DEF e

LEMMA ConcatFirst ==
  ASSUME NEW U, NEW c \in Seq(U), NEW d \in Seq(U)
  PROVE  /\ c = << >> => c \o d = d
         /\ d = << >> => c \o d = c
         /\ c # << >> => c \o d # << >> /\ (c \o d)[1] = c[1]
<1>1. c = << >> => c \o d = d
  OBVIOUS
<1>2. d = << >> => c \o d = c
  OBVIOUS
<1>3. c # << >> => c \o d # << >> /\ (c \o d)[1] = c[1]
  OBVIOUS
<1> QED BY <1>1, <1>2, <1>3

LEMMA IdsWidened ==
  ASSUME NEW c, IsSeq(c), NEW d, IsSeq(d)
  PROVE  \E U : Ids(c) \in Seq(U) /\ Ids(d) \in Seq(U)
<1>1. PICK U : Ids(c) \in Seq(U)
  BY IdsIn
<1>2. PICK V : Ids(d) \in Seq(V)
  BY IdsIn
<1>3. Ids(c) \in Seq(U \cup V)
  BY <1>1, SeqWidened
<1>4. Ids(d) \in Seq(U \cup V)
  BY <1>2, SeqWidened
<1> QED BY <1>3, <1>4

\* The fields of what Silent, Shown and Behinds say of a block.
LEMMA BlockFacts ==
  ASSUME NEW g, NEW n \in Blocks(g)
  PROVE  /\ IdsOf(g)[n] = Ids(g.code[n])
         /\ Silent(g)[n] = IF IdsOf(g)[n] = << >> THEN Range(g.succ[n]) ELSE {}
         /\ Shown(g)[n] = IF IdsOf(g)[n] # << >> THEN {IdsOf(g)[n][1]}
                          ELSE IF g.succ[n] = << >> THEN {0} ELSE {}
         /\ Behinds(g, n) = IF g.succ[n] = << >> THEN {0} ELSE FirstsOf(g, Range(g.succ[n]))
BY DEF IdsOf, Silent, Shown, Shows, IsReturn, Behinds

\* A block split in two: what the two show one after the other is what the
\* block showed.
LEMMA FollowsSplit ==
  ASSUME NEW g, IsFunction(g), Connected(g), NEW n \in Blocks(g),
         NEW c, IsSeq(c), NEW d, IsSeq(d), Ids(c) \o Ids(d) = Ids(g.code[n])
  PROVE  Follows(SplitInto(g, n, c, d)) = Follows(g)
<1> DEFINE h == SplitInto(g, n, c, d)
           b == Len(g.code) + 1
           sg == Silent(g)
           sh == Silent(h)
           C == Ids(c)
           D == Ids(d)
           I == Ids(g.code[n])
<1>1. /\ Refines(g, h, b)
      /\ h.succ[b] = g.succ[n] /\ \A m \in Blocks(g) \ {n} : h.succ[m] = g.succ[m]
      /\ h.succ[n] = <<b>> /\ h.code[n] = c /\ h.code[b] = d
      /\ \A m \in Blocks(g) \ {n} : h.code[m] = g.code[m]
  BY SplitIntoRefines
<1> HIDE DEF h, b
<1>2. /\ IsFunction(h) /\ Entry(h) = Entry(g) /\ Blocks(h) = Blocks(g) \cup {b}
      /\ Connected(h) /\ b \notin Blocks(g)
  BY <1>1, RefinesConnected, FunctionGraph DEF Refines, Subdivided
<1>3. /\ IsGraph(sg) /\ DOMAIN sg = Blocks(g)
      /\ \A m \in Blocks(g) : Range(g.succ[m]) \subseteq Blocks(g)
      /\ Follows(g) = {<<0, i>> : i \in FirstsOf(g, {Entry(g)})}
                        \cup UNION {Rows(IdsOf(g)[m], Behinds(g, m)) : m \in Blocks(g)}
  BY FollowsFacts
<1>4. /\ IsGraph(sh) /\ DOMAIN sh = Blocks(h)
      /\ Follows(h) = {<<0, i>> : i \in FirstsOf(h, {Entry(h)})}
                        \cup UNION {Rows(IdsOf(h)[m], Behinds(h, m)) : m \in Blocks(h)}
  BY <1>2, FollowsFacts
<1>5. /\ C = << >> => I = D
      /\ D = << >> => I = C
      /\ C # << >> => I # << >> /\ I[1] = C[1]
      /\ C # << >> /\ D # << >> => \A A : Rows(I, A) = Rows(C, {D[1]}) \cup Rows(D, A)
  <2>1. PICK U : C \in Seq(U) /\ D \in Seq(U)
    BY IdsWidened
  <2>2. I = C \o D
    OBVIOUS
  <2> HIDE DEF C, D, I
  <2>3. /\ C = << >> => C \o D = D
        /\ D = << >> => C \o D = C
        /\ C # << >> => C \o D # << >> /\ (C \o D)[1] = C[1]
    BY ONLY <2>1, ConcatFirst
  <2>4. C # << >> /\ D # << >> => \A A : Rows(C \o D, A) = Rows(C, {D[1]}) \cup Rows(D, A)
    BY ONLY <2>1, RowsConcat
  <2> QED BY <2>2, <2>3, <2>4
<1> HIDE DEF sg, sh
<1>21. \A m \in Blocks(g) :
         /\ IdsOf(g)[m] = Ids(g.code[m])
         /\ sg[m] = IF IdsOf(g)[m] = << >> THEN Range(g.succ[m]) ELSE {}
         /\ Shown(g)[m] = IF IdsOf(g)[m] # << >> THEN {IdsOf(g)[m][1]}
                           ELSE IF g.succ[m] = << >> THEN {0} ELSE {}
         /\ Behinds(g, m) = IF g.succ[m] = << >> THEN {0} ELSE FirstsOf(g, Range(g.succ[m]))
  BY BlockFacts DEF sg
<1>22. \A m \in Blocks(h) :
         /\ IdsOf(h)[m] = Ids(h.code[m])
         /\ sh[m] = IF IdsOf(h)[m] = << >> THEN Range(h.succ[m]) ELSE {}
         /\ Shown(h)[m] = IF IdsOf(h)[m] # << >> THEN {IdsOf(h)[m][1]}
                           ELSE IF h.succ[m] = << >> THEN {0} ELSE {}
         /\ Behinds(h, m) = IF h.succ[m] = << >> THEN {0} ELSE FirstsOf(h, Range(h.succ[m]))
  BY BlockFacts DEF sh
<1>6. Range(<<b>>) = {b}
  BY DEF Range
<1>7. Range(<< >>) = {}
  BY DEF Range
<1>23. n \in Blocks(h) /\ b \in Blocks(h) /\ b # n /\ \A m \in Blocks(g) : m \in Blocks(h)
  BY <1>2
<1>24. /\ I = Ids(g.code[n]) /\ C = Ids(h.code[n]) /\ D = Ids(h.code[b])
       /\ \A m \in Blocks(g) \ {n} : Ids(h.code[m]) = Ids(g.code[m])
  BY <1>1
<1>25. \E t : h.succ[n] = t /\ Range(t) = {b} /\ t # << >>
  BY <1>1, <1>6
<1>26. Range(h.succ[n]) = {b} /\ h.succ[n] # << >>
  BY <1>25
<1>27. h.succ[b] = g.succ[n] /\ \A m \in Blocks(g) \ {n} : h.succ[m] = g.succ[m]
  BY <1>1
<1> HIDE DEF C, D, I
<1>8. /\ IdsOf(g)[n] = I /\ IdsOf(h)[n] = C /\ IdsOf(h)[b] = D
      /\ \A m \in Blocks(g) \ {n} : IdsOf(h)[m] = IdsOf(g)[m]
  <2>1. IdsOf(g)[n] = I
    BY ONLY n \in Blocks(g), <1>21, <1>24, Zenon
  <2>2. IdsOf(h)[n] = C /\ IdsOf(h)[b] = D
    BY ONLY <1>22, <1>23, <1>24, Zenon
  <2>3. ASSUME NEW m \in Blocks(g) \ {n} PROVE IdsOf(h)[m] = IdsOf(g)[m]
    <3>1. m \in Blocks(g) /\ m \in Blocks(h)
      BY ONLY <1>23, <2>3
    <3> QED BY ONLY <1>21, <1>22, <1>24, <2>3, <3>1, Zenon
  <2> QED BY <2>1, <2>2, <2>3
<1>9. /\ sg[n] = IF I = << >> THEN Range(g.succ[n]) ELSE {}
      /\ sh[n] = IF C = << >> THEN {b} ELSE {}
      /\ sh[b] = IF D = << >> THEN Range(g.succ[n]) ELSE {}
      /\ \A m \in Blocks(g) \ {n} : sh[m] = sg[m]
  <2>1. sg[n] = IF I = << >> THEN Range(g.succ[n]) ELSE {}
    BY ONLY n \in Blocks(g), <1>8, <1>21, Zenon
  <2>2. sh[n] = IF C = << >> THEN {b} ELSE {}
    BY ONLY <1>8, <1>22, <1>23, <1>26, Zenon
  <2>3. sh[b] = IF D = << >> THEN Range(g.succ[n]) ELSE {}
    BY ONLY <1>8, <1>22, <1>23, <1>27, Zenon
  <2>4. ASSUME NEW m \in Blocks(g) \ {n} PROVE sh[m] = sg[m]
    <3>1. sg[m] = IF IdsOf(g)[m] = << >> THEN Range(g.succ[m]) ELSE {}
      BY ONLY <2>4, <1>21
    <3>2. sh[m] = IF IdsOf(h)[m] = << >> THEN Range(h.succ[m]) ELSE {}
      BY ONLY <2>4, <1>22, <1>23
    <3> QED BY ONLY <1>8, <1>27, <2>4, <3>1, <3>2, Zenon
  <2> QED BY <2>1, <2>2, <2>3, <2>4
<1>10. /\ Shown(g)[n] = IF I # << >> THEN {I[1]} ELSE IF g.succ[n] = << >> THEN {0} ELSE {}
       /\ Shown(h)[n] = IF C # << >> THEN {C[1]} ELSE {}
       /\ Shown(h)[b] = IF D # << >> THEN {D[1]} ELSE IF g.succ[n] = << >> THEN {0} ELSE {}
       /\ \A m \in Blocks(g) \ {n} : Shown(h)[m] = Shown(g)[m]
  <2>1. Shown(g)[n] = IF I # << >> THEN {I[1]} ELSE IF g.succ[n] = << >> THEN {0} ELSE {}
    BY ONLY n \in Blocks(g), <1>8, <1>21, Zenon
  <2>2. Shown(h)[n] = IF C # << >> THEN {C[1]} ELSE {}
    BY ONLY <1>8, <1>22, <1>23, <1>26, Zenon
  <2>3. Shown(h)[b] = IF D # << >> THEN {D[1]} ELSE IF g.succ[n] = << >> THEN {0} ELSE {}
    BY ONLY <1>8, <1>22, <1>23, <1>27, Zenon
  <2>4. ASSUME NEW m \in Blocks(g) \ {n} PROVE Shown(h)[m] = Shown(g)[m]
    <3>1. Shown(g)[m] = IF IdsOf(g)[m] # << >> THEN {IdsOf(g)[m][1]}
                        ELSE IF g.succ[m] = << >> THEN {0} ELSE {}
      BY ONLY <2>4, <1>21
    <3>2. Shown(h)[m] = IF IdsOf(h)[m] # << >> THEN {IdsOf(h)[m][1]}
                        ELSE IF h.succ[m] = << >> THEN {0} ELSE {}
      BY ONLY <2>4, <1>22, <1>23
    <3> QED BY ONLY <1>8, <1>27, <2>4, <3>1, <3>2, Zenon
  <2> QED BY <2>1, <2>2, <2>3, <2>4
<1>11. Subdivided(sg, sh, b)
  <2>1. sh \in [DOMAIN sg \cup {b} -> SUBSET (DOMAIN sg \cup {b})]
    BY <1>2, <1>3, <1>4 DEF IsGraph
  <2>2. sh[b] \subseteq DOMAIN sg
    BY <1>3, <1>9
  <2>3. ASSUME NEW m \in DOMAIN sg
        PROVE  /\ \A k \in sh[m] : k = b \/ k \in sg[m]
               /\ b \in sh[m] => sh[b] \subseteq sg[m]
               /\ \A k \in sg[m] : k \in sh[m] \/ (b \in sh[m] /\ k \in sh[b])
    <3>1. CASE m = n
      BY <1>3, <1>5, <1>9, <3>1
    <3>2. CASE m # n
      <4>1. sh[m] = sg[m] /\ sg[m] \subseteq Blocks(g)
        BY <1>3, <1>9, <3>2 DEF IsGraph
      <4> QED BY <1>2, <4>1
    <3> QED BY <3>1, <3>2
  <2> QED BY <1>2, <1>3, <2>1, <2>2, <2>3 DEF Subdivided
<1>12. ASSUME NEW m \in DOMAIN sg
       PROVE  Shown(g)[m] = Shown(h)[m] \cup (IF b \in sh[m] THEN Shown(h)[b] ELSE {})
  <2>1. CASE m = n
    BY <1>5, <1>9, <1>10, <2>1
  <2>2. CASE m # n
    <3>1. sh[m] = sg[m] /\ sg[m] \subseteq Blocks(g)
      BY <1>3, <1>9, <1>12, <2>2 DEF IsGraph
    <3> QED BY <1>2, <1>3, <1>10, <2>2, <3>1
  <2> QED BY <2>1, <2>2
<1>13. ASSUME NEW S \in SUBSET Blocks(g) PROVE FirstsOf(h, S) = FirstsOf(g, S)
  <2>1. IsGraph(sg) /\ S \in SUBSET DOMAIN sg
    BY <1>3
  <2>2. Firsts(sh, Shown(h), S) = Firsts(sg, Shown(g), S)
    BY ONLY <2>1, <1>11, <1>12, FirstsSubdivided
  <2> QED BY <2>2 DEF FirstsOf, sg, sh
<1>31. ASSUME NEW k \in Blocks(h), NEW m \in Blocks(g), h.succ[k] = g.succ[m]
       PROVE  Behinds(h, k) = Behinds(g, m)
  <2>1. Range(g.succ[m]) \in SUBSET Blocks(g)
    BY <1>3
  <2>2. FirstsOf(h, Range(g.succ[m])) = FirstsOf(g, Range(g.succ[m]))
    BY <1>13, <2>1
  <2>3. Behinds(h, k) = IF h.succ[k] = << >> THEN {0} ELSE FirstsOf(h, Range(h.succ[k]))
    BY ONLY k \in Blocks(h), <1>22, Zenon
  <2>4. Behinds(g, m) = IF g.succ[m] = << >> THEN {0} ELSE FirstsOf(g, Range(g.succ[m]))
    BY ONLY m \in Blocks(g), <1>21, Zenon
  <2> QED BY ONLY <1>31, <2>2, <2>3, <2>4, Zenon
<1>14. ASSUME NEW m \in Blocks(g) \ {n} PROVE Behinds(h, m) = Behinds(g, m)
  BY <1>23, <1>27, <1>31
<1>15. Behinds(h, b) = Behinds(g, n)
  BY <1>23, <1>27, <1>31
<1>16. Behinds(h, n) = IF D # << >> THEN {D[1]} ELSE Behinds(g, n)
  <2>1. Behinds(h, n) = FirstsOf(h, {b})
    BY ONLY <1>22, <1>23, <1>26
  <2>2. FirstsOf(h, {b}) = Shown(h)[b] \cup FirstsOf(h, sh[b])
    BY <1>2, <1>4, FirstsUnfold DEF FirstsOf, sh
  <2>3. FirstsOf(h, {}) = {}
    BY <1>4, FirstsNone DEF FirstsOf, sh
  <2>4. CASE D # << >>
    BY <1>9, <1>10, <2>1, <2>2, <2>3, <2>4
  <2>5. CASE D = << >> /\ g.succ[n] = << >>
    <3>1. sh[b] = {} /\ Shown(h)[b] = {0}
      BY <1>7, <1>9, <1>10, <2>5
    <3>2. Behinds(g, n) = {0}
      BY <2>5, <1>21, <1>22
    <3> QED BY <2>1, <2>2, <2>3, <2>5, <3>1, <3>2
  <2>6. CASE D = << >> /\ g.succ[n] # << >>
    <3>1. sh[b] = Range(g.succ[n]) /\ Shown(h)[b] = {}
      BY <1>9, <1>10, <2>6
    <3>2. Behinds(g, n) = FirstsOf(h, Range(g.succ[n]))
      BY <1>3, <1>13, <2>6, <1>21, <1>22
    <3> QED BY <2>1, <2>2, <2>6, <3>1, <3>2
  <2> QED BY <2>4, <2>5, <2>6
<1> DEFINE rg(m) == Rows(IdsOf(g)[m], Behinds(g, m))
           rh(m) == Rows(IdsOf(h)[m], Behinds(h, m))
<1>17. rg(n) = rh(n) \cup rh(b)
  <2> DEFINE A == Behinds(g, n)
  <2>1. rh(n) = Rows(C, IF D # << >> THEN {D[1]} ELSE A) /\ rh(b) = Rows(D, A) /\ rg(n) = Rows(I, A)
    BY <1>8, <1>15, <1>16
  <2> HIDE DEF A, rg, rh
  <2>2. Rows(<< >>, A) = {} /\ Rows(<< >>, {D[1]}) = {}
    BY DEF Rows
  <2>3. CASE C = << >>
    BY <1>5, <2>1, <2>2, <2>3
  <2>4. CASE C # << >> /\ D = << >>
    BY <1>5, <2>1, <2>2, <2>4
  <2>5. CASE C # << >> /\ D # << >>
    BY <1>5, <2>1, <2>5
  <2> QED BY <2>3, <2>4, <2>5
<1>18. \A m \in Blocks(g) \ {n} : rg(m) = rh(m)
  BY <1>8, <1>14
<1> HIDE DEF rg, rh
<1>19. UNION {rh(m) : m \in Blocks(h)} = UNION {rg(m) : m \in Blocks(g)}
  BY <1>2, <1>17, <1>18
<1>20. FirstsOf(h, {Entry(h)}) = FirstsOf(g, {Entry(g)})
  <2>1. Entry(g) \in Blocks(g)
    BY FunctionGraph
  <2> QED BY <1>2, <1>13, <2>1
<1> QED BY <1>3, <1>4, <1>19, <1>20 DEF h, rg, rh

LEMMA BlockFactsSucc ==
  ASSUME NEW g, IsFunction(g), NEW n \in Blocks(g)
  PROVE  /\ IdsOf(g)[n] = Ids(g.code[n])
         /\ Silent(g)[n] = IF IdsOf(g)[n] = << >> THEN Succ(g)[n] ELSE {}
         /\ Shown(g)[n] = IF IdsOf(g)[n] # << >> THEN {IdsOf(g)[n][1]}
                          ELSE IF Succ(g)[n] = {} THEN {0} ELSE {}
         /\ Behinds(g, n) = IF Succ(g)[n] = {} THEN {0} ELSE FirstsOf(g, Succ(g)[n])
<1>1. g.succ[n] \in Seq(Blocks(g))
  BY FunctionGraph
<1>2. g.succ[n] = << >> <=> Range(g.succ[n]) = {}
  BY <1>1, IsSeqOfSeq
<1>3. Succ(g)[n] = Range(g.succ[n])
  BY DEF Succ
<1> QED BY <1>2, <1>3, BlockFacts, Zenon

\* An empty block in front of n, on some of the ways to it.
LEMMA FollowsDummy ==
  ASSUME NEW g, IsFunction(g), Connected(g), NEW n \in Blocks(g), n # Entry(g),
         NEW P \in SUBSET Pred(g)[n], P # {}
  PROVE  Follows(SplitPredecessors(g, n, P)) = Follows(g)
<1> DEFINE h == SplitPredecessors(g, n, P)
           b == Len(g.code) + 1
           sg == Silent(g)
           sh == Silent(h)
<1>1. /\ Refines(g, h, b) /\ Succ(h)[b] = {n}
      /\ \A m \in P : Succ(h)[m] = (Succ(g)[m] \ {n}) \cup {b}
      /\ \A m \in Blocks(g) \ P : Succ(h)[m] = Succ(g)[m]
      /\ h.code[b] = << >> /\ \A m \in Blocks(g) : h.code[m] = g.code[m]
  BY SplitPredecessorsRefines
<1> HIDE DEF h, b
<1>2. /\ IsFunction(h) /\ Entry(h) = Entry(g) /\ Blocks(h) = Blocks(g) \cup {b}
      /\ Connected(h) /\ b \notin Blocks(g)
  BY <1>1, RefinesConnected, FunctionGraph DEF Refines, Subdivided
<1>3. /\ IsGraph(sg) /\ DOMAIN sg = Blocks(g)
      /\ Follows(g) = {<<0, i>> : i \in FirstsOf(g, {Entry(g)})}
                        \cup UNION {Rows(IdsOf(g)[m], Behinds(g, m)) : m \in Blocks(g)}
  BY FollowsFacts
<1>4. /\ IsGraph(sh) /\ DOMAIN sh = Blocks(h)
      /\ Follows(h) = {<<0, i>> : i \in FirstsOf(h, {Entry(h)})}
                        \cup UNION {Rows(IdsOf(h)[m], Behinds(h, m)) : m \in Blocks(h)}
  BY <1>2, FollowsFacts
<1> HIDE DEF sg, sh
<1>5. \A m \in Blocks(g) :
         /\ IdsOf(g)[m] = Ids(g.code[m])
         /\ sg[m] = IF IdsOf(g)[m] = << >> THEN Succ(g)[m] ELSE {}
         /\ Shown(g)[m] = IF IdsOf(g)[m] # << >> THEN {IdsOf(g)[m][1]}
                           ELSE IF Succ(g)[m] = {} THEN {0} ELSE {}
         /\ Behinds(g, m) = IF Succ(g)[m] = {} THEN {0} ELSE FirstsOf(g, Succ(g)[m])
  BY BlockFactsSucc DEF sg
<1>6. \A m \in Blocks(h) :
         /\ IdsOf(h)[m] = Ids(h.code[m])
         /\ sh[m] = IF IdsOf(h)[m] = << >> THEN Succ(h)[m] ELSE {}
         /\ Shown(h)[m] = IF IdsOf(h)[m] # << >> THEN {IdsOf(h)[m][1]}
                           ELSE IF Succ(h)[m] = {} THEN {0} ELSE {}
         /\ Behinds(h, m) = IF Succ(h)[m] = {} THEN {0} ELSE FirstsOf(h, Succ(h)[m])
  BY <1>2, BlockFactsSucc DEF sh
<1>7. IsGraph(Succ(g)) /\ DOMAIN Succ(g) = Blocks(g) /\ IsGraph(Pred(g)) /\ DOMAIN Pred(g) = Blocks(g)
  BY FunctionGraph
<1>8. ASSUME NEW m \in P
      PROVE  m \in Blocks(g) /\ n \in Succ(g)[m]
  <2>1. m \in Blocks(g) /\ n \in Range(g.succ[m])
    BY DEF Pred
  <2> QED BY <2>1 DEF Succ
<1>9. /\ b \in Blocks(h) /\ \A m \in Blocks(g) : m \in Blocks(h) /\ m # b /\ Succ(g)[m] \subseteq Blocks(g)
  BY <1>2, <1>7 DEF IsGraph
<1>10. ASSUME NEW m \in Blocks(g) PROVE IdsOf(h)[m] = IdsOf(g)[m]
  <2>1. m \in Blocks(h) /\ h.code[m] = g.code[m]
    BY <1>1, <1>9
  <2> QED BY ONLY <1>5, <1>6, <1>10, <2>1, Zenon
<1>11. /\ IdsOf(h)[b] = << >> /\ sh[b] = {n} /\ Shown(h)[b] = {}
  <2>1. IdsOf(h)[b] = << >>
    <3>1. IdsOf(h)[b] = Ids(h.code[b])
      BY ONLY <1>6, <1>9, Zenon
    <3>2. Ids(h.code[b]) = << >>
      BY ONLY <1>1, IdsEmpty, Zenon
    <3> QED BY <3>1, <3>2, Zenon
  <2>2. Succ(h)[b] # {}
    BY <1>1
  <2> QED BY <1>1, <1>6, <1>9, <2>1, <2>2, Zenon
<1>12. ASSUME NEW m \in Blocks(g)
       PROVE  /\ Succ(h)[m] = {} <=> Succ(g)[m] = {}
              /\ \A k \in Succ(h)[m] : k = b \/ k \in Succ(g)[m]
              /\ b \in Succ(h)[m] => n \in Succ(g)[m]
              /\ \A k \in Succ(g)[m] : k \in Succ(h)[m] \/ (b \in Succ(h)[m] /\ k = n)
  <2>1. CASE m \in P
    BY <1>1, <1>8, <2>1
  <2>2. CASE m \notin P
    BY <1>1, <1>9, <2>2
  <2> QED BY <2>1, <2>2
<1>13. ASSUME NEW m \in Blocks(g)
       PROVE  /\ sg[m] = IF IdsOf(g)[m] = << >> THEN Succ(g)[m] ELSE {}
              /\ sh[m] = IF IdsOf(g)[m] = << >> THEN Succ(h)[m] ELSE {}
              /\ Shown(h)[m] = Shown(g)[m]
  <2>1. /\ IdsOf(h)[m] = IdsOf(g)[m] /\ (Succ(h)[m] = {} <=> Succ(g)[m] = {})
        /\ m \in Blocks(h) /\ m \in Blocks(g)
    BY <1>9, <1>10, <1>12
  <2> QED BY ONLY <1>5, <1>6, <2>1, Zenon
<1>14. Subdivided(sg, sh, b)
  <2>1. sh \in [DOMAIN sg \cup {b} -> SUBSET (DOMAIN sg \cup {b})]
    BY <1>2, <1>3, <1>4 DEF IsGraph
  <2>2. sh[b] \subseteq DOMAIN sg
    BY <1>3, <1>11
  <2>3. ASSUME NEW m \in DOMAIN sg
        PROVE  /\ \A k \in sh[m] : k = b \/ k \in sg[m]
               /\ b \in sh[m] => sh[b] \subseteq sg[m]
               /\ \A k \in sg[m] : k \in sh[m] \/ (b \in sh[m] /\ k \in sh[b])
    <3>1. m \in Blocks(g)
      BY <1>3
    <3> DEFINE silent == IdsOf(g)[m] = << >>
    <3>2. sg[m] = (IF silent THEN Succ(g)[m] ELSE {}) /\ sh[m] = (IF silent THEN Succ(h)[m] ELSE {})
      BY <1>13, <3>1
    <3> HIDE DEF silent
    <3> QED BY ONLY <1>11, <1>12, <3>1, <3>2
  <2> QED BY <1>2, <1>3, <2>1, <2>2, <2>3 DEF Subdivided
<1>15. ASSUME NEW m \in DOMAIN sg
       PROVE  Shown(g)[m] = Shown(h)[m] \cup (IF b \in sh[m] THEN Shown(h)[b] ELSE {})
  BY <1>3, <1>11, <1>13
<1>16. ASSUME NEW S \in SUBSET Blocks(g) PROVE FirstsOf(h, S) = FirstsOf(g, S)
  <2>1. IsGraph(sg) /\ S \in SUBSET DOMAIN sg
    BY <1>3
  <2>2. Firsts(sh, Shown(h), S) = Firsts(sg, Shown(g), S)
    BY ONLY <2>1, <1>14, <1>15, FirstsSubdivided
  <2> QED BY <2>2 DEF FirstsOf, sg, sh
<1>17. FirstsOf(h, {b}) = FirstsOf(h, {n})
  <2>1. FirstsOf(h, {b}) = Shown(h)[b] \cup FirstsOf(h, sh[b])
    BY <1>2, <1>4, FirstsUnfold DEF FirstsOf, sh
  <2> QED BY <1>11, <2>1
<1>18. ASSUME NEW m \in Blocks(g) PROVE Behinds(h, m) = Behinds(g, m)
  <2>1. FirstsOf(h, Succ(h)[m]) = FirstsOf(g, Succ(g)[m])
    <3>1. CASE m \in P
      <4> DEFINE S == Succ(g)[m] \ {n}
      <4>1. Succ(h)[m] = S \cup {b} /\ Succ(g)[m] = S \cup {n} /\ S \in SUBSET Blocks(g)
        BY <1>1, <1>8, <1>9, <3>1
      <4> HIDE DEF S
      <4>2. ASSUME NEW T \in SUBSET Blocks(h), NEW U \in SUBSET Blocks(h)
            PROVE  FirstsOf(h, T \cup U) = FirstsOf(h, T) \cup FirstsOf(h, U)
        BY <1>4, FirstsUnion DEF FirstsOf, sh
      <4>3. /\ S \in SUBSET Blocks(h) /\ {b} \in SUBSET Blocks(h) /\ {n} \in SUBSET Blocks(h)
        BY <1>2, <4>1
      <4>4. FirstsOf(h, S \cup {b}) = FirstsOf(h, S \cup {n})
        <5>1. FirstsOf(h, S \cup {b}) = FirstsOf(h, S) \cup FirstsOf(h, {b})
          BY ONLY <4>2, <4>3
        <5>2. FirstsOf(h, S \cup {n}) = FirstsOf(h, S) \cup FirstsOf(h, {n})
          BY ONLY <4>2, <4>3
        <5> QED BY <1>17, <5>1, <5>2
      <4> QED BY <1>9, <1>16, <4>1, <4>4
    <3>2. CASE m \notin P
      BY <1>1, <1>9, <1>16, <3>2
    <3> QED BY <3>1, <3>2
  <2>2. m \in Blocks(g) /\ m \in Blocks(h) /\ (Succ(h)[m] = {} <=> Succ(g)[m] = {})
    BY <1>9, <1>12
  <2> QED BY ONLY <1>5, <1>6, <2>1, <2>2, Zenon
<1> DEFINE rg(m) == Rows(IdsOf(g)[m], Behinds(g, m))
           rh(m) == Rows(IdsOf(h)[m], Behinds(h, m))
<1>19. rh(b) = {} /\ \A m \in Blocks(g) : rg(m) = rh(m)
  <2>1. rh(b) = {}
    BY <1>11 DEF Rows
  <2> QED BY <1>10, <1>18, <2>1
<1> HIDE DEF rg, rh
<1>20. UNION {rh(m) : m \in Blocks(h)} = UNION {rg(m) : m \in Blocks(g)}
  BY <1>2, <1>19
<1>21. FirstsOf(h, {Entry(h)}) = FirstsOf(g, {Entry(g)})
  <2>1. Entry(g) \in Blocks(g)
    BY FunctionGraph
  <2> QED BY <1>2, <1>16, <2>1
<1> QED BY <1>3, <1>4, <1>20, <1>21 DEF h, rg, rh

LEMMA FollowsCut ==
  ASSUME NEW g, IsFunction(g), Connected(g), NEW n \in Blocks(g),
         NEW c, IsSeq(c), NEW d, IsSeq(d), c \o d = g.code[n]
  PROVE  Follows(SplitInto(g, n, c, d)) = Follows(g)
<1>1. PICK U : c \in Seq(U) /\ d \in Seq(U)
  <2>1. c \in Seq(Range(c) \cup Range(d)) /\ d \in Seq(Range(c) \cup Range(d))
    BY SeqWidened DEF IsSeq
  <2> QED BY <2>1
<1>2. Ids(c \o d) = Ids(c) \o Ids(d)
  BY <1>1, IdsConcat
<1>3. Ids(c) \o Ids(d) = Ids(g.code[n])
  BY <1>2
<1> QED BY <1>3, FollowsSplit

\* The dummies isolate-regions puts around a region.
LEMMA FollowsIsolate ==
  ASSUME NEW g, IsFunction(g), Connected(g),
         NEW r \in Blocks(g) \X Blocks(g), Isolable(g, r)
  PROVE  Follows(Isolate(g, r)) = Follows(g)
<1> DEFINE P == Inside(g, r)
           j == SplitPredecessors(g, r[2], P)
           k == Split(j, r[1], 1)
<1>1. k = Isolate(g, r)
  BY DEF Isolate, Inside
<1>2. IsFunction(j) /\ Connected(j) /\ Blocks(g) \subseteq Blocks(j)
  BY DummyBeforeKeeps
<1>3. /\ r[2] \in Blocks(g) /\ r[2] # Entry(g) /\ P \in SUBSET Pred(g)[r[2]] /\ P # {}
  BY InsideNotEmpty DEF Inside
<1>4. Follows(j) = Follows(g)
  BY <1>3, FollowsDummy
<1> HIDE DEF j
<1>5. r[1] \in Blocks(j) /\ 1 \in 1 .. Len(j.code[r[1]]) + 1
  <2>1. r[1] \in Blocks(j)
    BY <1>2
  <2>2. IsSeq(j.code[r[1]])
    BY <1>2, <2>1 DEF IsFunction
  <2> DEFINE s == j.code[r[1]]
  <2>3. Len(s) \in Nat
    BY <2>2 DEF IsSeq
  <2> HIDE DEF s
  <2>4. 1 \in 1 .. Len(s) + 1
    BY <2>3
  <2> QED BY <2>1, <2>4 DEF s
<1>6. PICK c, d : /\ IsSeq(c) /\ IsSeq(d) /\ c \o d = j.code[r[1]]
                  /\ k = SplitInto(j, r[1], c, d)
  BY <1>2, <1>5, SplitIsInto
<1> HIDE DEF k
<1>7. Follows(k) = Follows(j)
  BY <1>2, <1>5, <1>6, FollowsCut
<1> QED BY <1>1, <1>4, <1>7

\* Nor do barriers that are put anywhere.
LEMMA FollowsSame ==
  ASSUME NEW g, IsFunction(g), NEW h, SameIds(g, h)
  PROVE  Follows(h) = Follows(g)
<1>1. /\ Blocks(h) = Blocks(g) /\ h.succ = g.succ /\ Succ(h) = Succ(g) /\ Entry(h) = Entry(g)
  BY SameGraphFacts DEF SameIds, SameGraph
<1> DEFINE I == [n \in Blocks(g) |-> Ids(g.code[n])]
<1>2. [n \in Blocks(h) |-> Ids(h.code[n])] = I
  BY <1>1 DEF SameIds
<1> HIDE DEF I
<1>3. \A n : IsReturn(h, n) <=> IsReturn(g, n)
  BY <1>1 DEF IsReturn
<1>4. \A n : Shows(h, I, n) = Shows(g, I, n)
  BY <1>3, Zenon DEF Shows
<1>5. \A S : FirstIds(h, I, S) = FirstIds(g, I, S)
  BY <1>1, <1>4 DEF FirstIds
<1>6. \A n : After(h, I, n) = After(g, I, n)
  BY <1>1, <1>3, <1>5 DEF After
<1>7. \A n : FollowsIn(h, I, n) = FollowsIn(g, I, n)
  BY <1>6 DEF FollowsIn
<1> DEFINE Total(k, ids) ==
             LET alive == {n \in Reach(Succ(k), {Entry(k)}) : ids[n] # << >>}
             IN {<<0, i>> : i \in FirstIds(k, ids, {Entry(k)})}
                  \cup UNION {FollowsIn(k, ids, n) : n \in alive}
<1>8. Follows(g) = Total(g, I) /\ Follows(h) = Total(h, I)
  BY <1>2 DEF Follows, I
<1>9. Total(h, I) = Total(g, I)
  BY <1>1, <1>5, <1>7
<1> QED BY <1>8, <1>9

-----------------------------------------------------------------------------
(***************************************************************************)
(* What a branch hangs on in front of the rest of its block: where         *)
(* SplitAndSink cuts.                                                      *)
(***************************************************************************)
CondFirst(b) == <<Last(b)>> \o Front(b)

LEMMA CondFirstFacts ==
  ASSUME NEW b, IsSeq(b)
  PROVE  IsSeq(<<Last(b)>>) /\ IsSeq(Front(b)) /\ IsSeq(CondFirst(b))
<1> DEFINE T == Range(b)
           U == T \cup {Last(b)}
           c == <<Last(b)>>
           d == Front(b)
<1>1. b \in Seq(T)
  BY DEF IsSeq
<1> HIDE DEF T
<1>2. d \in Seq(T)
  BY <1>1 DEF Front
<1>3. c \in Seq({Last(b)})
  OBVIOUS
<1> HIDE DEF c, d
<1>4. c \in Seq(U) /\ d \in Seq(U)
  BY <1>2, <1>3, SeqWidened
<1> HIDE DEF U
<1>5. c \o d \in Seq(U)
  BY <1>4
<1>6. IsSeq(c) /\ IsSeq(d) /\ IsSeq(c \o d)
  BY <1>4, <1>5, IsSeqOfSeq
<1> QED BY <1>6 DEF CondFirst, c, d

\* One item has nothing to come in front of.
LEMMA CondFirstOfOne ==
  ASSUME NEW i
  PROVE  CondFirst(<<i>>) = <<i>>
<1>1. Last(<<i>>) = i /\ Front(<<i>>) = << >>
  BY DEF Last, Front
<1> QED BY <1>1 DEF CondFirst

LEMMA ConditionsFirstFacts ==
  ASSUME NEW g, IsFunction(g), NEW C
  PROVE  LET h == ConditionsFirst(g, C)
         IN /\ SameGraph(g, h)
            /\ \A n \in Blocks(g) : h.code[n] = IF n \in C THEN CondFirst(g.code[n]) ELSE g.code[n]
<1> DEFINE v == [n \in DOMAIN g.code |-> IF n \in C THEN CondFirst(g.code[n]) ELSE g.code[n]]
           h == [g EXCEPT !.code = v]
<1>1. DOMAIN g.code = Blocks(g) /\ \A n \in Blocks(g) : IsSeq(g.code[n])
  BY DEF IsFunction, Blocks
<1>2. ConditionsFirst(g, C) = h
  BY DEF ConditionsFirst, CondFirst
<1>3. \A n \in Blocks(g) : v[n] = IF n \in C THEN CondFirst(g.code[n]) ELSE g.code[n]
  BY <1>1
<1>4. v = [n \in Blocks(g) |-> v[n]]
  BY <1>1
<1> HIDE DEF v
<1>5. \A n \in Blocks(g) : IsSeq(v[n])
  BY <1>1, <1>3, CondFirstFacts
<1>6. SameGraph(g, h) /\ h.code = v
  BY <1>4, <1>5, RecodedFacts
<1> QED BY <1>2, <1>3, <1>6

LEMMA SplitIntoCode ==
  ASSUME NEW g, IsFunction(g), NEW n \in Blocks(g), NEW c, IsSeq(c), NEW d, IsSeq(d)
  PROVE  LET k == SplitInto(g, n, c, d)
             b == Len(g.code) + 1
         IN /\ IsFunction(k) /\ Blocks(k) = Blocks(g) \cup {b}
            /\ k.code[n] = c /\ k.code[b] = d
            /\ \A m \in Blocks(g) \ {n} : k.code[m] = g.code[m]
<1> DEFINE k == SplitInto(g, n, c, d)
           b == Len(g.code) + 1
<1>1. /\ Refines(g, k, b)
      /\ Succ(k)[n] = {b} /\ Succ(k)[b] = Succ(g)[n]
      /\ \A m \in Blocks(g) \ {n} : Succ(k)[m] = Succ(g)[m]
      /\ k.succ[b] = g.succ[n] /\ \A m \in Blocks(g) \ {n} : k.succ[m] = g.succ[m]
      /\ k.succ[n] = <<b>> /\ k.code[n] = c /\ k.code[b] = d
      /\ \A m \in Blocks(g) \ {n} : k.code[m] = g.code[m]
  BY SplitIntoRefines
<1> HIDE DEF k, b
<1> QED BY <1>1 DEF Refines, k, b

LEMMA SplitIntoShape ==
  ASSUME NEW g, IsFunction(g), NEW n \in Blocks(g), NEW c, NEW d
  PROVE  LET k == SplitInto(g, n, c, d)
             b == Len(g.code) + 1
         IN /\ k.layout = InsertAt(g.layout, Place(g, n) + 1, b)
            /\ k.succ = [Append(g.succ, g.succ[n]) EXCEPT ![n] = <<b>>]
<1> DEFINE h == AddBlock(g, Place(g, n) + 1, d, g.succ[n])
           b == Len(g.code) + 1
<1>1. g.code \in Seq(Range(g.code))
  BY DEF IsFunction, IsSeq
<1>2. Len(Append(g.code, d)) = b
  BY <1>1
<1>3. /\ h = [layout |-> InsertAt(g.layout, Place(g, n) + 1, b),
              code   |-> Append(g.code, d), succ |-> Append(g.succ, g.succ[n])]
  BY DEF AddBlock
<1> HIDE DEF h
<1>4. Len(h.code) = b
  BY <1>2, <1>3
<1> HIDE DEF b
<1>5. SplitInto(g, n, c, d) = [h EXCEPT !.code[n] = c, !.succ[n] = <<b>>]
  BY <1>4 DEF SplitInto, Rewired, h
<1> QED BY <1>3, <1>5 DEF b

\* Sinking x is a cut of the function whose conditions come first, at x, but
\* for the conditions that are still to come first.
LEMMA FollowsSink ==
  ASSUME NEW g, IsFunction(g), Connected(g), NEW x \in Blocks(g), NEW S \in SUBSET Blocks(g)
  PROVE  Follows(ConditionsFirst(SplitAndSink(g, x), S)) =
           Follows(ConditionsFirst(g, {x} \cup S))
<1> DEFINE c == <<Last(g.code[x])>>
           d == Front(g.code[x])
           b == Len(g.code) + 1
           h == ConditionsFirst(g, {x} \cup S)
           k == SplitInto(h, x, c, d)
           e == SplitInto(g, x, c, d)
           s == ConditionsFirst(e, S)
<1>1. IsSeq(g.code[x]) /\ b \notin Blocks(g)
  <2>1. Blocks(g) = 1 .. Len(g.code) /\ Len(g.code) \in Nat
    BY FunctionGraph
  <2>2. b \notin Blocks(g)
    BY <2>1
  <2>3. IsSeq(g.code[x])
    BY DEF IsFunction
  <2> QED BY <2>2, <2>3
<1>2. IsSeq(c) /\ IsSeq(d) /\ c \o d = CondFirst(g.code[x])
  BY <1>1, CondFirstFacts DEF CondFirst
<1>3. e = SplitAndSink(g, x)
  BY SplitAndSinkIsInto
<1>4. CondFirst(c) = c
  BY CondFirstOfOne
<1> HIDE DEF c, d
<1>5. /\ SameGraph(g, h)
      /\ \A n \in Blocks(g) :
           h.code[n] = IF n \in {x} \cup S THEN CondFirst(g.code[n]) ELSE g.code[n]
  BY ConditionsFirstFacts
<1> HIDE DEF h
<1>6. /\ IsFunction(h) /\ Connected(h) /\ Blocks(h) = Blocks(g)
      /\ h.succ = g.succ /\ h.layout = g.layout /\ h.code[x] = c \o d
  BY <1>2, <1>5, SameGraphFacts DEF SameGraph
<1>7. Len(h.code) = Len(g.code)
  <2>1. Blocks(h) = 1 .. Len(h.code) /\ Len(h.code) \in Nat
    BY <1>6, FunctionGraph
  <2>2. Blocks(g) = 1 .. Len(g.code) /\ Len(g.code) \in Nat
    BY FunctionGraph
  <2>3. ASSUME NEW i \in Nat, NEW j \in Nat, 1 .. i = 1 .. j PROVE i = j
    BY <2>3
  <2> QED BY <1>6, <2>1, <2>2, <2>3
<1>8. Follows(k) = Follows(h)
  BY <1>2, <1>6, FollowsCut
<1>9. /\ IsFunction(e) /\ Blocks(e) = Blocks(g) \cup {b}
      /\ e.code[x] = c /\ e.code[b] = d
      /\ \A m \in Blocks(g) \ {x} : e.code[m] = g.code[m]
  BY <1>2, SplitIntoCode
<1>17. /\ e.layout = InsertAt(g.layout, Place(g, x) + 1, b)
      /\ e.succ = [Append(g.succ, g.succ[x]) EXCEPT ![x] = <<b>>]
  BY SplitIntoShape
<1>10. /\ IsFunction(k) /\ Blocks(k) = Blocks(g) \cup {b}
       /\ k.code[x] = c /\ k.code[b] = d
       /\ \A m \in Blocks(g) \ {x} : k.code[m] = h.code[m]
       /\ k.layout = InsertAt(g.layout, Place(g, x) + 1, b)
       /\ k.succ = [Append(g.succ, g.succ[x]) EXCEPT ![x] = <<b>>]
  <2> DEFINE i == Len(h.code) + 1
  <2>1. IsFunction(h) /\ x \in Blocks(h)
    BY <1>6
  <2>2. /\ IsFunction(k) /\ Blocks(k) = Blocks(h) \cup {i}
        /\ k.code[x] = c /\ k.code[i] = d
        /\ \A m \in Blocks(h) \ {x} : k.code[m] = h.code[m]
    BY <1>2, <1>6, <2>1, SplitIntoCode
  <2>5. /\ k.layout = InsertAt(h.layout, Place(h, x) + 1, i)
        /\ k.succ = [Append(h.succ, h.succ[x]) EXCEPT ![x] = <<i>>]
    BY ONLY <2>1, SplitIntoShape
  <2>3. Place(h, x) = Place(g, x)
    BY <1>6, Zenon DEF Place
  <2>4. i = b
    BY <1>7
  <2> HIDE DEF k, i, b
  <2> QED BY <1>6, <2>2, <2>3, <2>4, <2>5
<1>11. k.layout = e.layout /\ k.succ = e.succ
  <2> HIDE DEF k, e, b
  <2> QED BY <1>9, <1>10, <1>17
<1> HIDE DEF k, e
<1>12. /\ SameGraph(e, s)
       /\ \A n \in Blocks(e) : s.code[n] = IF n \in S THEN CondFirst(e.code[n]) ELSE e.code[n]
  BY <1>9, ConditionsFirstFacts
<1> HIDE DEF s
<1>13. SameGraph(k, s)
  BY <1>9, <1>10, <1>11, <1>12 DEF SameGraph
<1>14. ASSUME NEW n \in Blocks(k) PROVE s.code[n] = k.code[n]
  <2>1. CASE n = x
    <3>1. e.code[n] = c /\ k.code[n] = c /\ n \in Blocks(e)
      BY <1>9, <1>10, <2>1
    <3>2. s.code[n] = c
      BY <1>4, <1>12, <3>1
    <3> QED BY <3>1, <3>2
  <2>2. CASE n = b
    <3>1. n \notin S /\ n \in Blocks(e)
      BY <1>1, <1>9, <2>2
    <3>2. s.code[n] = e.code[n]
      BY <1>12, <3>1
    <3> QED BY <1>9, <1>10, <2>2, <3>2
  <2>3. CASE n \in Blocks(g) \ {x}
    <3>1. e.code[n] = g.code[n] /\ k.code[n] = h.code[n] /\ n \in Blocks(e)
      BY <1>9, <1>10, <2>3
    <3>2. s.code[n] = IF n \in S THEN CondFirst(g.code[n]) ELSE g.code[n]
      BY <1>12, <3>1
    <3>3. h.code[n] = IF n \in S THEN CondFirst(g.code[n]) ELSE g.code[n]
      BY <1>5, <2>3
    <3> QED BY <3>1, <3>2, <3>3
  <2> QED BY <1>10, <2>1, <2>2, <2>3
<1>15. SameIds(k, s)
  BY <1>13, <1>14 DEF SameIds
<1>16. Follows(s) = Follows(k)
  BY <1>10, <1>15, FollowsSame
<1> QED BY <1>3, <1>8, <1>16 DEF s, h

-----------------------------------------------------------------------------
(***************************************************************************)
(* Natural loops of a function in loop-simplified form.                    *)
(***************************************************************************)
LEMMA LoopHeaders ==
  ASSUME NEW g
  PROVE  \A h \in Blocks(g) : h \in DOMAIN Loops(g) <=> IsHeader(g, h)
<1>1. DOMAIN Loops(g) = {e[2] : e \in BackEdges(g)}
  BY DEF Loops
<1>2. ASSUME NEW h \in Blocks(g), NEW e \in BackEdges(g), h = e[2] PROVE IsHeader(g, h)
  BY <1>2 DEF BackEdges, IsHeader, Pred
<1>3. ASSUME NEW h \in Blocks(g), IsHeader(g, h) PROVE \E e \in BackEdges(g) : h = e[2]
  <2>1. PICK q \in Pred(g)[h] : q \in Dom(g)[h]
    BY <1>3 DEF IsHeader
  <2>2. q \in Blocks(g) /\ h \in Range(g.succ[q])
    BY <2>1 DEF Pred
  <2>3. <<q, h>> \in BackEdges(g)
    BY <2>1, <2>2 DEF BackEdges
  <2> QED BY <2>3
<1> QED BY <1>1, <1>2, <1>3

\* A natural loop is among what its header dominates, and holds all the
\* latches: what else leads to the header is outside.
LEMMA LoopOutside ==
  ASSUME NEW g, IsFunction(g), Connected(g), NEW h \in Blocks(g), h \in DOMAIN Loops(g)
  PROVE  Pred(g)[h] \ Loops(g)[h] = Pred(g)[h] \ Dom(g)[h]
<1> DEFINE next == [n \in Blocks(g) |-> IF n = h THEN {} ELSE Pred(g)[n]]
           latches == {e[1] : e \in {c \in BackEdges(g) : c[2] = h}}
           S == {h} \cup latches
<1>1. Loops(g)[h] = Reach(next, S)
  BY DEF Loops
<1>2. IsGraph(Pred(g)) /\ DOMAIN Pred(g) = Blocks(g)
  BY FunctionGraph
<1>3. IsGraph(next) /\ DOMAIN next = Blocks(g)
  BY <1>2 DEF IsGraph
<1>4. \A q : q \in latches <=> q \in Pred(g)[h] /\ q \in Dom(g)[h]
  <2>1. ASSUME NEW e \in BackEdges(g), e[2] = h PROVE e[1] \in Pred(g)[h] /\ e[1] \in Dom(g)[h]
    BY <2>1 DEF BackEdges, Pred
  <2>2. ASSUME NEW q \in Pred(g)[h], q \in Dom(g)[h] PROVE <<q, h>> \in BackEdges(g)
    BY <2>2 DEF BackEdges, Pred
  <2>3. ASSUME NEW q \in latches PROVE q \in Pred(g)[h] /\ q \in Dom(g)[h]
    BY <2>1
  <2>4. ASSUME NEW q \in Pred(g)[h], q \in Dom(g)[h] PROVE q \in latches
    <3>1. <<q, h>> \in {c \in BackEdges(g) : c[2] = h}
      BY <2>2, <2>4
    <3> QED BY <3>1
  <2> QED BY <2>3, <2>4
<1> HIDE DEF latches
<1>5. S \in SUBSET DOMAIN next
  BY <1>2, <1>3, <1>4 DEF IsGraph
<1>6. Reach(next, S) \subseteq Dom(g)[h]
  <2>1. S \subseteq Dom(g)[h]
    BY <1>4, DomFacts
  <2>2. ClosedUnder(next, Dom(g)[h])
    <3>1. ASSUME NEW n \in Dom(g)[h] PROVE next[n] \subseteq Dom(g)[h]
      BY DomFacts
    <3> QED BY <3>1 DEF ClosedUnder
  <2> HIDE DEF next, S
  <2> QED BY <1>3, <1>5, <2>1, <2>2, ReachIsLeast
<1>7. S \subseteq Reach(next, S)
  <2> HIDE DEF next, S
  <2> QED BY <1>3, <1>5, ReachIsLeast
<1> HIDE DEF next
<1>8. ASSUME NEW q \in Pred(g)[h] PROVE q \in Loops(g)[h] <=> q \in Dom(g)[h]
  BY <1>1, <1>4, <1>6, <1>7
<1> QED BY <1>8

\* The assertion of loop-barriers.
LEMMA PreheaderFacts ==
  ASSUME NEW g, IsFunction(g), Connected(g), Simplified(g), NEW h \in DOMAIN Loops(g)
  PROVE  h \in Blocks(g) /\ Preheader(g, Loops(g)[h], h) \in Blocks(g)
<1>1. h \in Blocks(g)
  BY DEF Loops, BackEdges
<1>2. PICK p \in Blocks(g) : IsPreheader(g, h, p)
  BY <1>1, LoopHeaders, SimplifiedFacts
<1>3. Pred(g)[h] \ Loops(g)[h] = {p} /\ g.succ[p] = <<h>>
  BY <1>1, <1>2, LoopOutside DEF IsPreheader
<1>4. Unique({p}) = p
  BY FS_Singleton DEF Unique
<1>5. p # 0 /\ Len(g.succ[p]) = 1
  BY <1>3, FunctionGraph
<1>6. Preheader(g, Loops(g)[h], h) = p
  BY <1>3, <1>4, <1>5 DEF Preheader
<1> QED BY <1>1, <1>6

\* What loop-barriers does to a loop leaves all loops as they were.
LEMMA LoopKept ==
  ASSUME NEW g, IsFunction(g), Connected(g), Simplified(g), NEW h \in DOMAIN Loops(g),
         NEW k, \/ k = GuardBarrierLoop(g, Loops(g)[h], h)
                \/ k = DetachLoop(g, Loops(g)[h], h)
  PROVE  /\ IsFunction(k) /\ Connected(k) /\ Simplified(k)
         /\ DOMAIN Loops(g) \subseteq DOMAIN Loops(k)
         /\ Follows(k) = Follows(g)
<1> DEFINE loop == Loops(g)[h]
           p == Preheader(g, loop, h)
<1>1. p \in Blocks(g)
  BY PreheaderFacts
<1> HIDE DEF loop, p
<1>2. ASSUME SameIds(g, k)
      PROVE  /\ IsFunction(k) /\ Connected(k) /\ Simplified(k)
             /\ DOMAIN Loops(g) \subseteq DOMAIN Loops(k)
             /\ Follows(k) = Follows(g)
  BY <1>2, SameGraphFacts, FollowsSame DEF SameIds, SameGraph
<1>3. CASE k = GuardBarrierLoop(g, loop, h)
  <2>1. PICK S, T : k = PutAtEnds(PutAtEnds(g, S), T)
    BY <1>3 DEF GuardBarrierLoop
  <2>2. SameIds(g, PutAtEnds(g, S))
    BY PutAtEndsSame
  <2>3. SameIds(PutAtEnds(g, S), k)
    BY <2>1, <2>2, PutAtEndsSame DEF SameIds, SameGraph
  <2> QED BY <1>2, <2>2, <2>3, SameIdsTransitive
<1>4. CASE k = DetachLoop(g, loop, h)
  <2>1. CASE k = g
    BY <1>2, <2>1, SameIdsReflexive
  <2>2. CASE k = Split(g, p, Len(g.code[p]) + 1)
    <3> DEFINE s == g.code[p]
    <3>1. Len(s) \in Nat
      BY <1>1 DEF IsFunction, IsSeq
    <3> HIDE DEF s
    <3>2. Len(s) + 1 \in 1 .. Len(s) + 1
      BY <3>1
    <3>3. PICK c, d : /\ IsSeq(c) /\ IsSeq(d) /\ c \o d = g.code[p]
                      /\ k = SplitInto(g, p, c, d)
      BY <1>1, <2>2, <3>2, SplitIsInto DEF s
    <3>6. Follows(k) = Follows(g)
      BY <1>1, <3>3, FollowsCut
    <3>4. /\ IsFunction(k) /\ Connected(k) /\ Simplified(k) /\ Blocks(g) \subseteq Blocks(k)
          /\ \A n \in Blocks(g) : IsHeader(g, n) => IsHeader(k, n)
      BY <1>1, <3>3, SplitIntoKeepsLoops
    <3>5. ASSUME NEW n \in DOMAIN Loops(g) PROVE n \in DOMAIN Loops(k)
      <4>1. n \in Blocks(g)
        BY PreheaderFacts
      <4> QED BY <3>4, <4>1, LoopHeaders
    <3> QED BY <3>4, <3>5, <3>6
  <2> QED BY <1>4, <2>1, <2>2 DEF DetachLoop, p
<1> QED BY <1>3, <1>4 DEF loop

-----------------------------------------------------------------------------
(***************************************************************************)
(* What the passes collect are blocks.                                     *)
(***************************************************************************)
LEMMA FrontierGraphs ==
  ASSUME NEW g, IsFunction(g)
  PROVE  /\ IsGraph(PDF(g)) /\ DOMAIN PDF(g) = Blocks(g)
         /\ IsGraph(DF(g)) /\ DOMAIN DF(g) = Blocks(g)
<1>1. /\ IsGraph(Succ(g)) /\ DOMAIN Succ(g) = Blocks(g)
      /\ IsGraph(Pred(g)) /\ DOMAIN Pred(g) = Blocks(g)
      /\ Entry(g) \in Blocks(g)
  BY FunctionGraph
<1>2. ASSUME NEW n \in Blocks(g)
      PROVE  Dom(g)[n] \subseteq Blocks(g) /\ PDom(g)[n] \subseteq Blocks(g)
  <2>1. Returns(g) \in SUBSET Blocks(g) /\ {Entry(g)} \in SUBSET Blocks(g)
    BY <1>1 DEF Returns
  <2>2. Behind(Succ(g), {Entry(g)}, n) \subseteq Blocks(g)
    BY <1>1, <2>1, BehindFacts
  <2>3. Behind(Pred(g), Returns(g), n) \subseteq Blocks(g)
    BY <1>1, <2>1, BehindFacts
  <2> QED BY <2>2, <2>3 DEF Dom, PDom
<1>3. ASSUME NEW n \in Blocks(g)
      PROVE  Frontier(Dom(g), Succ(g), n) \subseteq Blocks(g)
  BY <1>1, <1>2 DEF Frontier, IsGraph
<1>4. ASSUME NEW n \in Blocks(g)
      PROVE  Frontier(PDom(g), Pred(g), n) \subseteq Blocks(g)
  BY <1>1, <1>2 DEF Frontier, IsGraph
<1>5. IsFiniteSet(Blocks(g))
  BY <1>1 DEF IsGraph
<1>6. IsGraph(DF(g)) /\ DOMAIN DF(g) = Blocks(g)
  BY <1>3, <1>5 DEF DF, IsGraph
<1>7. IsGraph(PDF(g)) /\ DOMAIN PDF(g) = Blocks(g)
  BY <1>4, <1>5 DEF PDF, IsGraph
<1> QED BY <1>6, <1>7

LEMMA ControlsFacts ==
  ASSUME NEW next, IsGraph(next), NEW y \in DOMAIN next
  PROVE  Controls(next, y) \subseteq DOMAIN next
<1>1. {y} \in SUBSET DOMAIN next
  OBVIOUS
<1>2. Reach(next, {y}) \subseteq DOMAIN next
  BY <1>1, ReachIsLeast
<1> QED BY <1>2 DEF Controls

LEMMA InLayoutOrderBlocks ==
  ASSUME NEW g, IsFunction(g), NEW S, NEW T, S \subseteq T
  PROVE  InLayoutOrder(g, S) \in Seq(T)
<1>1. Len(g.layout) \in Nat
  BY DEF IsFunction
<1>2. InLayoutOrder(g, S) \in Seq(S)
  BY <1>1, InLayoutOrderIn
<1> QED BY <1>2, SeqWidened

LEMMA InLayoutOrderAll ==
  ASSUME NEW g, IsFunction(g), NEW S \in SUBSET Blocks(g)
  PROVE  Range(InLayoutOrder(g, S)) = S
<1>1. /\ g.layout \in Seq(Blocks(g)) /\ Len(g.layout) \in Nat /\ Range(g.layout) = Blocks(g)
      /\ DOMAIN g.layout = 1 .. Len(g.layout)
  BY DEF IsFunction
<1> DEFINE t == InLayoutOrder(g, S)
<1>2. t \in Seq(S)
  BY <1>1, InLayoutOrderIn
<1>3. \A p \in 1 .. Len(g.layout) : g.layout[p] \in S => g.layout[p] \in Range(t)
  BY <1>1, InLayoutOrderIn
<1> HIDE DEF t
<1>4. Range(t) \subseteq S
  BY <1>2, IsSeqOfSeq
<1>5. ASSUME NEW n \in S PROVE n \in Range(t)
  <2>1. n \in Range(g.layout)
    BY <1>1
  <2>2. PICK p \in DOMAIN g.layout : g.layout[p] = n
    BY <2>1 DEF Range
  <2> QED BY <1>1, <1>3, <2>2
<1> QED BY <1>4, <1>5 DEF t

LEMMA BarrierControllersFacts ==
  ASSUME NEW g, IsFunction(g)
  PROVE  BarrierControllers(g) \subseteq Blocks(g)
<1>1. ASSUME NEW y \in BarrierBlocks(g) PROVE Controls(PDF(g), y) \subseteq Blocks(g)
  BY FrontierGraphs, ControlsFacts DEF BarrierBlocks
<1> QED BY <1>1 DEF BarrierControllers

LEMMA BBsCtrlFacts ==
  ASSUME NEW g, IsFunction(g)
  PROVE  BBsCtrl(g) \in Seq(Blocks(g))
<1> DEFINE B == Blocks(g)
           of(y) == Controllers(PDF(g), DF(g), y)
           barriers(n) == Cardinality({k \in DOMAIN g.code[n] : IsBarrier(g.code[n][k])})
           row(y) == InLayoutOrder(g, of(y))
           rows(n) == [k \in 1 .. barriers(n) |-> row(n)]
           all == [p \in DOMAIN g.layout |-> FlattenSeq(rows(g.layout[p]))]
<1>1. ASSUME NEW y \in B PROVE row(y) \in Seq(B)
  <2>1. of(y) \subseteq Blocks(g)
    BY FrontierGraphs, ControlsFacts DEF Controllers
  <2> HIDE DEF of
  <2> QED BY <2>1, InLayoutOrderBlocks
<1>2. ASSUME NEW n \in B PROVE barriers(n) \in Nat
  <2> DEFINE s == g.code[n]
             D == {k \in DOMAIN s : IsBarrier(s[k])}
  <2>1. DOMAIN s = 1 .. Len(s) /\ Len(s) \in Nat
    <3>1. IsSeq(s)
      BY DEF IsFunction
    <3> HIDE DEF s
    <3> QED BY ONLY <3>1 DEF IsSeq
  <2>2. IsFiniteSet(1 .. Len(s))
    BY <2>1, FS_Interval
  <2>3. D \in SUBSET (1 .. Len(s))
    BY <2>1
  <2> HIDE DEF D
  <2>4. IsFiniteSet(D)
    BY <2>2, <2>3, FS_Subset
  <2> QED BY <2>4, FS_CardinalityType DEF D
<1>3. ASSUME NEW n \in B PROVE FlattenSeq(rows(n)) \in Seq(B)
  <2> DEFINE T == Seq(B)
  <2>1. row(n) \in T /\ barriers(n) \in Nat
    BY <1>1, <1>2
  <2> HIDE DEF T, row, barriers
  <2>2. rows(n) \in Seq(T)
    BY <2>1
  <2> HIDE DEF rows
  <2> QED BY <2>2, FlattenIn DEF T
<1>4. DOMAIN g.layout = 1 .. Len(g.layout) /\ Len(g.layout) \in Nat /\ \A p \in DOMAIN g.layout : g.layout[p] \in B
  BY DEF IsFunction
<1>5. all \in Seq(Seq(B))
  <2> DEFINE T == Seq(B)
  <2>1. \A p \in 1 .. Len(g.layout) : FlattenSeq(rows(g.layout[p])) \in T
    BY <1>3, <1>4
  <2> HIDE DEF T, rows
  <2>2. all \in Seq(T)
    BY <1>4, <2>1
  <2> QED BY <2>2 DEF T
<1>6. BBsCtrl(g) = FlattenSeq(all)
  BY DEF BBsCtrl
<1> HIDE DEF all
<1> QED BY <1>5, <1>6, FlattenIn

\* A block the walk stands in has a predecessor that is not a back edge,
\* unless it is the entry.
LEMMA ForwardPredecessorFacts ==
  ASSUME IsFunction(f), Connected(f), NEW n \in Blocks(f), n # Entry(f),
         NEW p \in ForwardPredecessors(n)
  PROVE  p \in Blocks(f) /\ p # 0
<1>1. \E q \in Pred(f)[n] : q \notin Dom(f)[n]
  BY DomFacts
<1>2. p \in Pred(f)[n]
  BY <1>1 DEF ForwardPredecessors
<1>3. p \in Blocks(f)
  BY <1>2 DEF Pred
<1> QED BY <1>3, FunctionGraph

-----------------------------------------------------------------------------
(***************************************************************************)
(* The invariant of the placement passes, and one lemma for each kind of   *)
(* their steps.                                                            *)
(***************************************************************************)
GraphInv == IsFunction(f) /\ Connected(f) /\ Simplified(f)

TodoInv ==
  /\ pass \in {"SplitAndSink", "implicit-cdg-barriers"} => todo \in Seq(Blocks(f))
  /\ pass = "isolate-regions" =>
       todo \subseteq Blocks(f) \X Blocks(f) /\ \A r \in todo : Isolable(f, r)
  /\ pass = "implicit-cond-barriers" => todo \in Seq(Conditional(f))
  /\ pass = "loop-barriers" => todo \subseteq DOMAIN Loops(f)

WalkInv ==
  walk # NoWalk =>
    /\ pass = "implicit-cond-barriers"
    /\ walk \in [b : Conditional(f), pos : Blocks(f), pred : Blocks(f)]

PlacementInv == GraphInv /\ TodoInv /\ WalkInv

LEMMA HeadTail ==
  ASSUME NEW T, NEW s \in Seq(T), s # << >>
  PROVE  Head(s) \in T /\ Tail(s) \in Seq(T)
OBVIOUS

LEMMA HeadTailRange ==
  ASSUME NEW T, NEW s \in Seq(T), s # << >>
  PROVE  Range(s) = {Head(s)} \cup Range(Tail(s))
<1> DEFINE t == Tail(s)
<1>1. /\ DOMAIN s = 1 .. Len(s) /\ Len(s) \in Nat /\ 1 \in DOMAIN s
      /\ DOMAIN t = 1 .. Len(s) - 1 /\ \A i \in DOMAIN t : t[i] = s[i + 1]
      /\ Head(s) = s[1]
  OBVIOUS
<1> HIDE DEF t
<1>2. ASSUME NEW i \in DOMAIN s PROVE s[i] = s[1] \/ s[i] \in Range(t)
  <2>1. CASE i # 1
    <3>1. i - 1 \in DOMAIN t /\ t[i - 1] = s[i]
      BY <1>1, <1>2, <2>1
    <3> QED BY <3>1 DEF Range
  <2> QED BY <2>1
<1>3. ASSUME NEW i \in DOMAIN t PROVE t[i] \in Range(s)
  <2>1. i + 1 \in DOMAIN s /\ t[i] = s[i + 1]
    BY <1>1, <1>3
  <2> QED BY <2>1 DEF Range
<1>4. s[1] \in Range(s)
  BY <1>1 DEF Range
<1>5. Range(s) \subseteq {s[1]} \cup Range(t)
  BY <1>2 DEF Range
<1>6. Range(t) \subseteq Range(s)
  BY <1>3 DEF Range
<1> QED BY <1>1, <1>4, <1>5, <1>6 DEF t

LEMMA PlacementStart == PlacementInit => PlacementInv
<1> SUFFICES ASSUME PlacementInit PROVE PlacementInv
  OBVIOUS
<1>1. GraphInv
  BY GraphsAssumption DEF PlacementInit, GraphInv
<1>2. TodoInv /\ WalkInv
  BY DEF PlacementInit, TodoInv, WalkInv
<1> QED BY <1>1, <1>2 DEF PlacementInv

\* A pass hands over to the next.
LEMMA PassOver ==
  ASSUME PlacementInv,
         \/ CollectControllers \/ ControllersSunk \/ RegionsIsolated \/ ControllersGuarded
         \/ CollectConditional \/ ConditionalDone \/ LoopsDone
  PROVE  PlacementInv'
<1>1. IsFunction(f) /\ Connected(f) /\ Simplified(f)
  BY DEF PlacementInv, GraphInv
<1>2. f' = f /\ walk' = walk
  BY DEF CollectControllers, ControllersSunk, RegionsIsolated, ControllersGuarded,
         CollectConditional, ConditionalDone, LoopsDone
<1>3. GraphInv'
  BY <1>1, <1>2 DEF GraphInv
<1>4. walk = NoWalk
  BY DEF PlacementInv, WalkInv, CollectControllers, ControllersSunk, RegionsIsolated,
         ControllersGuarded, CollectConditional, ConditionalDone, LoopsDone
<1>5. WalkInv'
  BY <1>2, <1>4 DEF WalkInv, NoWalk
<1>6. CASE CollectControllers
  <2>1. InLayoutOrder(f, BarrierControllers(f)) \in Seq(Blocks(f))
    BY <1>1, BarrierControllersFacts, InLayoutOrderBlocks
  <2>2. pass' = "SplitAndSink" /\ todo' \in Seq(Blocks(f'))
    BY <1>2, <1>6, <2>1 DEF CollectControllers
  <2>3. TodoInv'
    BY <2>2 DEF TodoInv
  <2> QED BY <1>3, <1>5, <2>3 DEF PlacementInv
<1>7. CASE ControllersSunk
  <2>1. pass' = "isolate-regions" /\ todo' = Regions(f)
    BY <1>7 DEF ControllersSunk
  <2>2. \A r \in Regions(f) : r \in Blocks(f) \X Blocks(f) /\ Isolable(f, r)
    BY <1>1, RegionsIsolable
  <2>3. todo' \subseteq Blocks(f') \X Blocks(f') /\ \A r \in todo' : Isolable(f', r)
    BY <1>2, <2>1, <2>2
  <2>4. TodoInv'
    BY <2>1, <2>3 DEF TodoInv
  <2> QED BY <1>3, <1>5, <2>4 DEF PlacementInv
<1>8. CASE RegionsIsolated
  <2>1. pass' = "implicit-cdg-barriers" /\ todo' \in Seq(Blocks(f'))
    BY <1>1, <1>2, <1>8, BBsCtrlFacts DEF RegionsIsolated
  <2>2. TodoInv'
    BY <2>1 DEF TodoInv
  <2> QED BY <1>3, <1>5, <2>2 DEF PlacementInv
<1>9. CASE ControllersGuarded \/ LoopsDone
  <2>1. TodoInv'
    BY <1>9 DEF TodoInv, ControllersGuarded, LoopsDone
  <2> QED BY <1>3, <1>5, <2>1 DEF PlacementInv
<1>10. CASE CollectConditional
  <2>1. InLayoutOrder(f, BarrierBlocks(f) \cap Conditional(f)) \in Seq(Conditional(f))
    BY <1>1, InLayoutOrderBlocks
  <2>2. pass' = "implicit-cond-barriers" /\ todo' \in Seq(Conditional(f'))
    BY <1>2, <1>10, <2>1 DEF CollectConditional
  <2>3. TodoInv'
    BY <2>2 DEF TodoInv
  <2> QED BY <1>3, <1>5, <2>3 DEF PlacementInv
<1>11. CASE ConditionalDone
  <2>1. TodoInv'
    BY <1>2, <1>11 DEF TodoInv, ConditionalDone
  <2> QED BY <1>3, <1>5, <2>1 DEF PlacementInv
<1> QED BY <1>6, <1>7, <1>8, <1>9, <1>10, <1>11

LEMMA SinkStep ==
  ASSUME PlacementInv, SinkController
  PROVE  PlacementInv'
<1>1. IsFunction(f) /\ Connected(f) /\ Simplified(f) /\ todo \in Seq(Blocks(f))
  BY DEF PlacementInv, GraphInv, TodoInv, SinkController
<1>2. todo # << >> /\ f' = SplitAndSink(f, Head(todo)) /\ todo' = Tail(todo)
      /\ pass' = "SplitAndSink" /\ walk' = walk /\ pass = "SplitAndSink"
  BY DEF SinkController
<1>3. Head(todo) \in Blocks(f) /\ Tail(todo) \in Seq(Blocks(f))
  BY <1>1, <1>2, HeadTail
<1>4. PICK c, d : IsSeq(c) /\ IsSeq(d) /\ f' = SplitInto(f, Head(todo), c, d)
  BY <1>1, <1>2, <1>3, SplitAndSinkIsInto
<1>5. IsFunction(f') /\ Connected(f') /\ Simplified(f') /\ Blocks(f) \subseteq Blocks(f')
  BY <1>1, <1>3, <1>4, SplitIntoKeepsLoops
<1>6. todo' \in Seq(Blocks(f'))
  BY <1>2, <1>3, <1>5, SeqWidened
<1>7. TodoInv'
  BY <1>2, <1>6 DEF TodoInv
<1>8. WalkInv'
  BY <1>2 DEF PlacementInv, WalkInv, NoWalk
<1> QED BY <1>5, <1>7, <1>8 DEF PlacementInv, GraphInv

LEMMA IsolateStep ==
  ASSUME PlacementInv, NEW r \in Blocks(f) \X Blocks(f), IsolateRegion(r)
  PROVE  PlacementInv'
<1>1. /\ IsFunction(f) /\ Connected(f) /\ Simplified(f)
      /\ todo \subseteq Blocks(f) \X Blocks(f) /\ \A s \in todo : Isolable(f, s)
  BY DEF PlacementInv, GraphInv, TodoInv, IsolateRegion
<1>2. /\ r \in todo /\ \A s \in todo \ {r} : Before(f, r, s)
      /\ f' = Isolate(f, r) /\ todo' = todo \ {r}
      /\ pass = "isolate-regions" /\ pass' = "isolate-regions" /\ walk' = walk
  BY DEF IsolateRegion
<1>3. /\ IsFunction(f') /\ Connected(f') /\ Blocks(f) \subseteq Blocks(f')
      /\ \A s \in Blocks(f) \X Blocks(f) :
           Isolable(f, s) /\ Before(f, r, s) => Isolable(f', s)
  BY <1>1, <1>2, IsolateKeeps
<1>4. Simplified(f')
  BY <1>1, <1>2, IsolateKeepsLoops
<1>5. todo' \subseteq Blocks(f') \X Blocks(f') /\ \A s \in todo' : Isolable(f', s)
  BY <1>1, <1>2, <1>3
<1>6. TodoInv'
  BY <1>2, <1>5 DEF TodoInv
<1>7. WalkInv'
  BY <1>2 DEF PlacementInv, WalkInv, NoWalk
<1> QED BY <1>3, <1>4, <1>6, <1>7 DEF PlacementInv, GraphInv

LEMMA GuardStep ==
  ASSUME PlacementInv, ImplicitCdgBarriers
  PROVE  PlacementInv'
<1>1. IsFunction(f) /\ Connected(f) /\ Simplified(f) /\ todo \in Seq(Blocks(f))
  BY DEF PlacementInv, GraphInv, TodoInv, ImplicitCdgBarriers
<1>2. /\ todo # << >> /\ f' = GuardController(f, Head(todo)) /\ todo' = Tail(todo)
      /\ pass = "implicit-cdg-barriers" /\ pass' = "implicit-cdg-barriers" /\ walk' = walk
  BY DEF ImplicitCdgBarriers
<1>3. Head(todo) \in Blocks(f) /\ Tail(todo) \in Seq(Blocks(f))
  BY <1>1, <1>2, HeadTail
<1>4. SameGraph(f, f')
  BY <1>1, <1>2, <1>3, GuardSame DEF SameIds
<1>5. IsFunction(f') /\ Connected(f') /\ Simplified(f') /\ Blocks(f') = Blocks(f)
  BY <1>1, <1>4, SameGraphFacts DEF SameGraph
<1>6. todo' \in Seq(Blocks(f'))
  BY <1>2, <1>3, <1>5
<1>7. TodoInv'
  BY <1>2, <1>6 DEF TodoInv
<1>8. WalkInv'
  BY <1>2 DEF PlacementInv, WalkInv, NoWalk
<1> QED BY <1>5, <1>7, <1>8 DEF PlacementInv, GraphInv

\* The entry is not conditional: it post-dominates itself.
LEMMA ConditionalFacts ==
  ASSUME IsFunction(f)
  PROVE  Conditional(f) \subseteq Blocks(f) /\ Entry(f) \notin Conditional(f)
<1>1. IsGraph(Pred(f)) /\ DOMAIN Pred(f) = Blocks(f) /\ Entry(f) \in Blocks(f)
  BY FunctionGraph
<1>2. Returns(f) \in SUBSET DOMAIN Pred(f) /\ Entry(f) \in DOMAIN Pred(f)
  BY <1>1 DEF Returns
<1>3. Entry(f) \in Behind(Pred(f), Returns(f), Entry(f))
  BY <1>1, <1>2, BehindFacts
<1>4. Entry(f) \in PDom(f)[Entry(f)]
  BY <1>1, <1>3 DEF PDom
<1> QED BY <1>4 DEF Conditional

LEMMA StartWalkStep ==
  ASSUME PlacementInv, NEW p \in Blocks(f) \cup {0}, StartWalk(p)
  PROVE  PlacementInv'
<1>1. IsFunction(f) /\ Connected(f) /\ Simplified(f) /\ todo \in Seq(Conditional(f))
  BY DEF PlacementInv, GraphInv, TodoInv, StartWalk
<1>2. /\ todo # << >> /\ p \in ForwardPredecessors(Head(todo)) /\ todo' = Tail(todo)
      /\ walk' = [b |-> Head(todo), pos |-> Head(todo), pred |-> p]
      /\ pass = "implicit-cond-barriers" /\ pass' = "implicit-cond-barriers" /\ f' = f
  BY DEF StartWalk
<1>3. Head(todo) \in Conditional(f) /\ Tail(todo) \in Seq(Conditional(f))
  BY <1>1, <1>2, HeadTail
<1>4. Head(todo) \in Blocks(f) /\ Head(todo) # Entry(f)
  BY <1>1, <1>3, ConditionalFacts
<1>5. p \in Blocks(f)
  BY <1>1, <1>2, <1>4, ForwardPredecessorFacts
<1>6. WalkInv'
  BY <1>2, <1>3, <1>4, <1>5 DEF WalkInv
<1>7. TodoInv'
  BY <1>2, <1>3 DEF TodoInv
<1>8. GraphInv'
  BY <1>1, <1>2 DEF GraphInv
<1> QED BY <1>6, <1>7, <1>8 DEF PlacementInv

\* What the walk passes post-dominates the barrier, so it is not the entry.
LEMMA WalkUpStep ==
  ASSUME PlacementInv, NEW p \in Blocks(f) \cup {0}, WalkUp(p)
  PROVE  PlacementInv'
<1>1. IsFunction(f) /\ Connected(f) /\ Simplified(f)
  BY DEF PlacementInv, GraphInv
<1>2. /\ walk # NoWalk /\ WalkOn /\ p \in ForwardPredecessors(walk.pred)
      /\ walk' = [walk EXCEPT !.pos = walk.pred, !.pred = p]
      /\ f' = f /\ pass' = pass /\ todo' = todo
  BY DEF WalkUp
<1>3. /\ pass = "implicit-cond-barriers"
      /\ walk \in [b : Conditional(f), pos : Blocks(f), pred : Blocks(f)]
  BY <1>2 DEF PlacementInv, WalkInv
<1>4. walk.pred \in Blocks(f) /\ walk.pred # Entry(f)
  BY <1>2, <1>3 DEF WalkOn, Conditional
<1>5. p \in Blocks(f)
  BY <1>1, <1>2, <1>4, ForwardPredecessorFacts
<1>6. walk' \in [b : Conditional(f), pos : Blocks(f), pred : Blocks(f)]
  BY <1>2, <1>3, <1>4, <1>5
<1>7. WalkInv'
  BY <1>2, <1>3, <1>6 DEF WalkInv
<1>8. TodoInv'
  BY <1>2 DEF PlacementInv, TodoInv
<1>9. GraphInv'
  BY <1>1, <1>2 DEF GraphInv
<1> QED BY <1>7, <1>8, <1>9 DEF PlacementInv

LEMMA EndWalkStep ==
  ASSUME PlacementInv, EndWalk
  PROVE  PlacementInv'
<1>1. IsFunction(f) /\ Connected(f) /\ Simplified(f)
  BY DEF PlacementInv, GraphInv
<1>2. /\ walk # NoWalk /\ walk' = NoWalk /\ pass' = pass /\ todo' = todo
      /\ f' = f \/ f' = PutInFront(f, walk.pos)
  BY DEF EndWalk
<1>3. pass = "implicit-cond-barriers" /\ todo \in Seq(Conditional(f))
  BY <1>2 DEF PlacementInv, WalkInv, TodoInv
<1>4. SameGraph(f, f')
  BY <1>1, <1>2, PutFacts, SameIdsReflexive DEF SameIds
<1>5. IsFunction(f') /\ Connected(f') /\ Simplified(f')
  BY <1>1, <1>4, SameGraphFacts DEF SameGraph
<1>6. Conditional(f') = Conditional(f)
  BY <1>4, SameGraphFacts DEF SameGraph, Conditional
<1>7. TodoInv'
  BY <1>2, <1>3, <1>6 DEF TodoInv
<1>8. WalkInv'
  BY <1>2 DEF WalkInv, NoWalk
<1> QED BY <1>5, <1>7, <1>8 DEF PlacementInv, GraphInv

LEMMA LoopStep ==
  ASSUME PlacementInv, NEW h \in Blocks(f), ProcessLoop(h)
  PROVE  PlacementInv'
<1>1. IsFunction(f) /\ Connected(f) /\ Simplified(f) /\ todo \subseteq DOMAIN Loops(f)
  BY DEF PlacementInv, GraphInv, TodoInv, ProcessLoop
<1>2. /\ h \in todo /\ todo' = todo \ {h} /\ walk' = walk
      /\ pass = "loop-barriers" /\ pass' = "loop-barriers"
      /\ \/ f' = GuardBarrierLoop(f, Loops(f)[h], h)
         \/ f' = DetachLoop(f, Loops(f)[h], h)
  BY DEF ProcessLoop
<1>3. /\ IsFunction(f') /\ Connected(f') /\ Simplified(f')
      /\ DOMAIN Loops(f) \subseteq DOMAIN Loops(f')
  <2>1. h \in DOMAIN Loops(f)
    BY <1>1, <1>2
  <2> QED BY <1>1, <1>2, <2>1, LoopKept
<1>4. TodoInv'
  BY <1>1, <1>2, <1>3 DEF TodoInv
<1>5. WalkInv'
  BY <1>2 DEF PlacementInv, WalkInv, NoWalk
<1> QED BY <1>3, <1>4, <1>5 DEF PlacementInv, GraphInv

LEMMA PlacementKeeps == PlacementInv /\ [PlacementNext]_placementVars => PlacementInv'
<1> SUFFICES ASSUME PlacementInv, [PlacementNext]_placementVars PROVE PlacementInv'
  OBVIOUS
<1>1. CASE CollectControllers \/ ControllersSunk \/ RegionsIsolated \/ ControllersGuarded
           \/ CollectConditional \/ ConditionalDone \/ LoopsDone
  BY <1>1, PassOver
<1>2. CASE SinkController
  BY <1>2, SinkStep
<1>3. ASSUME NEW r \in Blocks(f) \X Blocks(f), IsolateRegion(r) PROVE PlacementInv'
  BY <1>3, IsolateStep
<1>4. CASE ImplicitCdgBarriers
  BY <1>4, GuardStep
<1>5. ASSUME NEW p \in Blocks(f) \cup {0}, StartWalk(p) PROVE PlacementInv'
  BY <1>5, StartWalkStep
<1>6. ASSUME NEW p \in Blocks(f) \cup {0}, WalkUp(p) PROVE PlacementInv'
  BY <1>6, WalkUpStep
<1>7. CASE EndWalk
  BY <1>7, EndWalkStep
<1>8. ASSUME NEW h \in Blocks(f), ProcessLoop(h) PROVE PlacementInv'
  BY <1>8, LoopStep
<1>9. CASE UNCHANGED placementVars
  <2>1. f' = f /\ pass' = pass /\ todo' = todo /\ walk' = walk
    BY <1>9 DEF placementVars
  <2> QED BY <2>1 DEF PlacementInv, GraphInv, TodoInv, WalkInv
<1> QED BY <1>1, <1>2, <1>3, <1>4, <1>5, <1>6, <1>7, <1>8, <1>9 DEF PlacementNext

-----------------------------------------------------------------------------
\* Whatever the kernel, implicit-cond-barriers finds a predecessor at every
\* step up from a conditional barrier, whichever of several it takes.
THEOREM NeverNull == PlacementSpec => []NoNullPredecessor
<1>1. PlacementInv => NoNullPredecessor
  <2> SUFFICES ASSUME PlacementInv, walk # NoWalk PROVE walk.pred # 0
    BY DEF NoNullPredecessor
  <2>1. walk.pred \in Blocks(f)
    BY DEF PlacementInv, WalkInv
  <2> QED BY <2>1, FunctionGraph DEF PlacementInv, GraphInv
<1> QED BY <1>1, PlacementStart, PlacementKeeps, PTL DEF PlacementSpec

\* Whatever the kernel, no placement pass cuts a barrier off the entry.
THEOREM AlwaysReachable == PlacementSpec => []BarriersReachable
<1>1. PlacementInv => BarriersReachable
  BY DEF PlacementInv, GraphInv, Connected, BarriersReachable, BarrierBlocks
<1> QED BY <1>1, PlacementStart, PlacementKeeps, PTL DEF PlacementSpec

\* Whatever the kernel, no loop has lost its preheader when loop-barriers
\* comes to it, though three passes have split blocks since loop-simplify.
THEOREM LoopsKeepPreheaders == PlacementSpec => []PreheadersExist
<1>1. PlacementInv => PreheadersExist
  <2> SUFFICES ASSUME PlacementInv, pass = "loop-barriers", NEW h \in todo
               PROVE  Preheader(f, Loops(f)[h], h) # 0
    BY DEF PreheadersExist
  <2>1. h \in DOMAIN Loops(f)
    BY DEF PlacementInv, TodoInv
  <2>2. Preheader(f, Loops(f)[h], h) \in Blocks(f)
    BY <2>1, PreheaderFacts DEF PlacementInv, GraphInv
  <2> QED BY <2>2, FunctionGraph DEF PlacementInv, GraphInv
<1> QED BY <1>1, PlacementStart, PlacementKeeps, PTL DEF PlacementSpec
-----------------------------------------------------------------------------
(***************************************************************************)
(* What is followed by what, pass by pass: as in the kernel until the      *)
(* controllers are known, then as it is due, with the controllers that are *)
(* still to sink taken for sunk.                                           *)
(***************************************************************************)
Due == Follows(ConditionsFirst(kernel, BarrierControllers(kernel)))

FollowsInv ==
  /\ pass = "IPBreakPhi" => f = kernel
  /\ pass = "SplitAndSink" => Follows(ConditionsFirst(f, Range(todo))) = Due
  /\ pass \notin {"IPBreakPhi", "SplitAndSink"} => Follows(f) = Due

LEMMA NothingToSink ==
  ASSUME NEW g, IsFunction(g)
  PROVE  Follows(ConditionsFirst(g, {})) = Follows(g)
<1> DEFINE h == ConditionsFirst(g, {})
<1>1. SameGraph(g, h) /\ \A n \in Blocks(g) : h.code[n] = g.code[n]
  BY ConditionsFirstFacts
<1> HIDE DEF h
<1>2. SameIds(g, h)
  BY <1>1 DEF SameIds
<1> QED BY <1>2, FollowsSame DEF h

LEMMA FollowsStart == PlacementInit => FollowsInv
BY DEF PlacementInit, FollowsInv

LEMMA CollectFollows ==
  ASSUME PlacementInv, FollowsInv, CollectControllers
  PROVE  FollowsInv'
<1>1. IsFunction(f)
  BY DEF PlacementInv, GraphInv
<1>2. /\ f = kernel /\ f' = f /\ kernel' = kernel /\ pass' = "SplitAndSink"
      /\ todo' = InLayoutOrder(f, BarrierControllers(f))
  BY DEF CollectControllers, FollowsInv
<1>3. Range(todo') = BarrierControllers(kernel)
  BY <1>1, <1>2, BarrierControllersFacts, InLayoutOrderAll
<1>4. Due' = Due
  BY <1>2 DEF Due
<1>5. Follows(ConditionsFirst(f', Range(todo'))) = Due
  BY <1>2, <1>3 DEF Due
<1> QED BY <1>2, <1>4, <1>5 DEF FollowsInv

LEMMA SinkFollows ==
  ASSUME PlacementInv, FollowsInv, SinkController
  PROVE  FollowsInv'
<1>1. IsFunction(f) /\ Connected(f) /\ todo \in Seq(Blocks(f))
  BY DEF PlacementInv, GraphInv, TodoInv, SinkController
<1>2. /\ todo # << >> /\ f' = SplitAndSink(f, Head(todo)) /\ todo' = Tail(todo)
      /\ pass' = "SplitAndSink" /\ pass = "SplitAndSink" /\ kernel' = kernel
  BY DEF SinkController
<1>3. Head(todo) \in Blocks(f) /\ Tail(todo) \in Seq(Blocks(f))
  BY <1>1, <1>2, HeadTail
<1>4. Range(Tail(todo)) \in SUBSET Blocks(f)
  BY <1>3, IsSeqOfSeq
<1>5. Range(todo) = {Head(todo)} \cup Range(Tail(todo))
  BY <1>1, <1>2, HeadTailRange
<1>6. Follows(ConditionsFirst(SplitAndSink(f, Head(todo)), Range(Tail(todo)))) =
        Follows(ConditionsFirst(f, {Head(todo)} \cup Range(Tail(todo))))
  BY <1>1, <1>3, <1>4, FollowsSink
<1>7. Follows(ConditionsFirst(f, Range(todo))) = Due
  BY <1>2 DEF FollowsInv
<1>8. Follows(ConditionsFirst(f', Range(todo'))) = Due
  BY <1>2, <1>5, <1>6, <1>7, Zenon
<1>9. Due' = Due
  BY <1>2 DEF Due
<1> QED BY <1>2, <1>8, <1>9 DEF FollowsInv

LEMMA SunkFollows ==
  ASSUME PlacementInv, FollowsInv, ControllersSunk
  PROVE  FollowsInv'
<1>1. IsFunction(f)
  BY DEF PlacementInv, GraphInv
<1>2. /\ todo = << >> /\ f' = f /\ kernel' = kernel
      /\ pass = "SplitAndSink" /\ pass' = "isolate-regions"
  BY DEF ControllersSunk
<1>3. Range(todo) = {}
  BY <1>2 DEF Range
<1>4. Follows(ConditionsFirst(f, {})) = Due
  BY <1>2, <1>3, Zenon DEF FollowsInv
<1>5. Follows(f') = Due
  BY <1>1, <1>2, <1>4, NothingToSink
<1>6. Due' = Due
  BY <1>2 DEF Due
<1> QED BY <1>2, <1>5, <1>6 DEF FollowsInv

\* Behind SplitAndSink, a step that keeps what is followed by what.
LEMMA KeepsFollows ==
  ASSUME FollowsInv, Follows(f') = Follows(f), kernel' = kernel,
         pass \notin {"IPBreakPhi", "SplitAndSink"}, pass' \notin {"IPBreakPhi", "SplitAndSink"}
  PROVE  FollowsInv'
<1>1. Due' = Due
  BY DEF Due
<1> QED BY <1>1 DEF FollowsInv

LEMMA RegionFollows ==
  ASSUME PlacementInv, FollowsInv, NEW r \in Blocks(f) \X Blocks(f), IsolateRegion(r)
  PROVE  FollowsInv'
<1>1. /\ IsFunction(f) /\ Connected(f)
      /\ pass = "isolate-regions" => \A s \in todo : Isolable(f, s)
  BY DEF PlacementInv, GraphInv, TodoInv
<1>2. /\ r \in todo /\ f' = Isolate(f, r) /\ kernel' = kernel
      /\ pass = "isolate-regions" /\ pass' = "isolate-regions"
  BY DEF IsolateRegion
<1>3. Follows(f') = Follows(f)
  BY <1>1, <1>2, FollowsIsolate
<1> QED BY <1>2, <1>3, KeepsFollows

LEMMA GuardFollows ==
  ASSUME PlacementInv, FollowsInv, ImplicitCdgBarriers
  PROVE  FollowsInv'
<1>1. IsFunction(f) /\ todo \in Seq(Blocks(f))
  BY DEF PlacementInv, GraphInv, TodoInv, ImplicitCdgBarriers
<1>2. /\ todo # << >> /\ f' = GuardController(f, Head(todo)) /\ kernel' = kernel
      /\ pass = "implicit-cdg-barriers" /\ pass' = "implicit-cdg-barriers"
  BY DEF ImplicitCdgBarriers
<1>3. SameIds(f, f')
  BY <1>1, <1>2, HeadTail, GuardSame
<1>4. Follows(f') = Follows(f)
  BY <1>1, <1>3, FollowsSame
<1> QED BY <1>2, <1>4, KeepsFollows

LEMMA WalkFollows ==
  ASSUME PlacementInv, FollowsInv, EndWalk
  PROVE  FollowsInv'
<1>1. IsFunction(f)
  BY DEF PlacementInv, GraphInv
<1>2. /\ f' = f \/ f' = PutInFront(f, walk.pos)
      /\ walk # NoWalk /\ kernel' = kernel /\ pass' = pass
  BY DEF EndWalk
<1>3. pass = "implicit-cond-barriers"
  BY <1>2 DEF PlacementInv, WalkInv
<1>4. SameIds(f, f')
  BY <1>1, <1>2, PutFacts, SameIdsReflexive
<1>5. Follows(f') = Follows(f)
  BY <1>1, <1>4, FollowsSame
<1> QED BY <1>2, <1>3, <1>5, KeepsFollows

LEMMA LoopFollows ==
  ASSUME PlacementInv, FollowsInv, NEW h \in Blocks(f), ProcessLoop(h)
  PROVE  FollowsInv'
<1>1. IsFunction(f) /\ Connected(f) /\ Simplified(f) /\ todo \subseteq DOMAIN Loops(f)
  BY DEF PlacementInv, GraphInv, TodoInv, ProcessLoop
<1>2. /\ h \in todo /\ kernel' = kernel
      /\ pass = "loop-barriers" /\ pass' = "loop-barriers"
      /\ \/ f' = GuardBarrierLoop(f, Loops(f)[h], h)
         \/ f' = DetachLoop(f, Loops(f)[h], h)
  BY DEF ProcessLoop
<1>3. h \in DOMAIN Loops(f)
  BY <1>1, <1>2
<1>4. Follows(f') = Follows(f)
  BY <1>1, <1>2, <1>3, LoopKept
<1> QED BY <1>2, <1>4, KeepsFollows

LEMMA FollowsKept ==
  PlacementInv /\ FollowsInv /\ [PlacementNext]_placementVars => FollowsInv'
<1> SUFFICES ASSUME PlacementInv, FollowsInv, [PlacementNext]_placementVars PROVE FollowsInv'
  OBVIOUS
<1>1. CASE CollectControllers
  BY <1>1, CollectFollows
<1>2. CASE SinkController
  BY <1>2, SinkFollows
<1>3. CASE ControllersSunk
  BY <1>3, SunkFollows
<1>4. ASSUME NEW r \in Blocks(f) \X Blocks(f), IsolateRegion(r) PROVE FollowsInv'
  BY <1>4, RegionFollows
<1>5. CASE ImplicitCdgBarriers
  BY <1>5, GuardFollows
<1>6. CASE EndWalk
  BY <1>6, WalkFollows
<1>7. ASSUME NEW h \in Blocks(f), ProcessLoop(h) PROVE FollowsInv'
  BY <1>7, LoopFollows
<1>8. CASE RegionsIsolated \/ ControllersGuarded \/ CollectConditional \/ ConditionalDone
           \/ LoopsDone
  <2>1. /\ f' = f /\ kernel' = kernel /\ pass \notin {"IPBreakPhi", "SplitAndSink"}
        /\ pass' \notin {"IPBreakPhi", "SplitAndSink"}
    BY <1>8 DEF RegionsIsolated, ControllersGuarded, CollectConditional, ConditionalDone,
                LoopsDone
  <2> QED BY <2>1, KeepsFollows
<1>9. ASSUME NEW p \in Blocks(f) \cup {0}, StartWalk(p) \/ WalkUp(p) PROVE FollowsInv'
  <2>1. /\ f' = f /\ kernel' = kernel /\ pass' = pass /\ pass = "implicit-cond-barriers"
    BY <1>9 DEF StartWalk, WalkUp, PlacementInv, WalkInv
  <2> QED BY <2>1, KeepsFollows
<1>10. CASE UNCHANGED placementVars
  <2>1. f' = f /\ kernel' = kernel /\ pass' = pass /\ todo' = todo
    BY <1>10 DEF placementVars
  <2> QED BY <2>1 DEF FollowsInv, Due
<1> QED BY <1>1, <1>2, <1>3, <1>4, <1>5, <1>6, <1>7, <1>8, <1>9, <1>10 DEF PlacementNext

-----------------------------------------------------------------------------
\* Whatever the kernel, from isolate-regions on every instruction is followed
\* by what followed it in the source, but that the controllers' conditions
\* have come to the front: splits, dummies and barriers change no path.
THEOREM PathsAlwaysPreserved == PlacementSpec => []PathsPreserved
<1>1. FollowsInv => PathsPreserved
  BY DEF FollowsInv, Due, PathsPreserved
<1> QED BY <1>1, PlacementStart, PlacementKeeps, FollowsStart, FollowsKept, PTL
        DEF PlacementSpec
=============================================================================
