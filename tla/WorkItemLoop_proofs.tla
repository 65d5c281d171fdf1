------------------------ MODULE WorkItemLoop_proofs ------------------------
(***************************************************************************)
(* Proofs about WorkItemLoop, for every kernel and every group size.       *)
(***************************************************************************)
EXTENDS WorkItemLoop, TLAPS

-----------------------------------------------------------------------------
(***************************************************************************)
(* Work-items and their slots.                                             *)
(***************************************************************************)

\* The work-items are the triples of local ids below the local sizes.
LEMMA WorkItemIds ==
  ASSUME NEW w
  PROVE  w \in WorkItems <=> /\ w \in [Dim -> Nat]
                             /\ \A d \in Dim : w[d] < LocalSize[d]
<1> DEFINE Ids == UNION {0 .. LocalSize[d] - 1 : d \in Dim}
<1>1. \A d \in Dim : LocalSize[d] \in Nat \ {0}
  BY LocalSizeAssumption
<1>2. Ids \subseteq Nat
  BY <1>1
<1>3. \A d \in Dim, n \in Nat : n < LocalSize[d] => n \in Ids
  BY <1>1
<1>4. ASSUME w \in WorkItems
      PROVE  w \in [Dim -> Nat] /\ \A d \in Dim : w[d] < LocalSize[d]
  BY <1>2, <1>4 DEF WorkItems
<1>5. ASSUME w \in [Dim -> Nat], \A d \in Dim : w[d] < LocalSize[d]
      PROVE  w \in WorkItems
  <2>1. w \in [Dim -> Ids]
    BY <1>3, <1>5
  <2> QED BY <2>1, <1>5 DEF WorkItems
<1> QED BY <1>4, <1>5

LEMMA Dims ==
  /\ 0 \in Dim /\ 1 \in Dim /\ 2 \in Dim
  /\ \A d \in Dim : d = 0 \/ d = 1 \/ d = 2
BY DEF Dim

\* Two numbers in the same mixed-radix notation have the same digits.
LEMMA Digits ==
  ASSUME NEW m \in Nat \ {0}, NEW q1 \in Nat, NEW q2 \in Nat,
         NEW r1 \in 0 .. m - 1, NEW r2 \in 0 .. m - 1,
         q1 * m + r1 = q2 * m + r2
  PROVE  q1 = q2 /\ r1 = r2
<1>1. ASSUME NEW a \in Nat, NEW b \in Nat, a < b
      PROVE  b * m >= a * m + m
  <2>1. PICK k \in Nat : b = a + 1 + k
    <3>1. b - a - 1 \in Nat /\ b = a + 1 + (b - a - 1)
      BY <1>1
    <3> QED BY <3>1
  <2>2. b * m = a * m + m + k * m
    BY <2>1
  <2>3. k * m >= 0 /\ k * m \in Nat /\ a * m \in Nat
    OBVIOUS
  <2> QED BY <2>2, <2>3
<1>2. q1 * m \in Nat /\ q2 * m \in Nat
  OBVIOUS
<1>3. ~(q1 < q2)
  BY <1>1, <1>2
<1>4. ~(q2 < q1)
  BY <1>1, <1>2
<1> QED BY <1>3, <1>4

LEMMA WrapSmall ==
  ASSUME NEW n \in Nat, n < IntMod
  PROVE  Wrap(n) = n
BY IntModAssumption DEF Wrap
\* No intermediate result of Flat3DSize or FlatIdx wraps around.
LEMMA FlatIdxExact ==
  /\ Flat3DSize = LocalSize[2] * LocalSize[1] * LocalSize[0]
  /\ \A w \in WorkItems :
       LET row == w[2] * LocalSize[1] + w[1]
       IN  /\ row \in Nat
           /\ w[1] \in 0 .. LocalSize[1] - 1
           /\ w[0] \in 0 .. LocalSize[0] - 1
           /\ FlatIdx(w) = row * LocalSize[0] + w[0]
           /\ FlatIdx(w) \in Slots
<1> DEFINE a == LocalSize[0]
           b == LocalSize[1]
           c == LocalSize[2]
<1>1. a \in Nat \ {0} /\ b \in Nat \ {0} /\ c \in Nat \ {0}
  BY LocalSizeAssumption, Dims
<1>2. IntMod \in Nat \ {0} /\ a * b * c < IntMod
  BY IntModAssumption
<1> HIDE DEF a, b, c
<1>3. Flat3DSize = c * b * a
  <2>1. c * b \in Nat /\ c * b * a \in Nat /\ c * b <= c * b * a
    BY <1>1
  <2>2. c * b * a = a * b * c
    BY <1>1
  <2>3. c * b < IntMod /\ c * b * a < IntMod
    BY <1>1, <1>2, <2>1, <2>2
  <2>4. Wrap(c * b) = c * b /\ Wrap(c * b * a) = c * b * a
    BY <2>1, <2>3, WrapSmall
  <2> QED BY <2>4 DEF Flat3DSize, a, b, c
<1>4. ASSUME NEW w \in WorkItems
      PROVE  LET row == w[2] * b + w[1]
             IN  /\ row \in Nat
                 /\ w[1] \in 0 .. b - 1
                 /\ w[0] \in 0 .. a - 1
                 /\ FlatIdx(w) = row * a + w[0]
                 /\ FlatIdx(w) \in Slots
  <2> DEFINE x == w[0]
             y == w[1]
             z == w[2]
  <2>1. x \in Nat /\ y \in Nat /\ z \in Nat /\ x < a /\ y < b /\ z < c
    BY WorkItemIds, Dims DEF a, b, c
  <2> HIDE DEF x, y, z
  <2>2. /\ z * a \in Nat /\ z * a * b \in Nat /\ y * a \in Nat
        /\ z * a <= z * a * b
    BY <1>1, <2>1
  <2>3. z * a * b + y * a + x = (z * b + y) * a + x
    BY <1>1, <2>1
  <2>4. (z * b + y) * a + x < c * b * a
    <3>1. z * b + y + 1 <= c * b
      <4>1. (z + 1) * b <= c * b
        BY <1>1, <2>1
      <4> QED BY <4>1, <1>1, <2>1
    <3>2. (z * b + y + 1) * a <= c * b * a
      <4> DEFINE p == z * b + y + 1
                 q == c * b
      <4>1. p \in Nat /\ q \in Nat /\ p <= q
        BY <3>1, <1>1, <2>1
      <4> HIDE DEF p, q
      <4>2. p * a <= q * a
        BY <4>1, <1>1
      <4> QED BY <4>2 DEF p, q
    <3>3. (z * b + y + 1) * a = (z * b + y) * a + a
      BY <1>1, <2>1
    <3>4. (z * b + y) * a \in Nat
      BY <1>1, <2>1
    <3> QED BY <3>2, <3>3, <3>4, <1>1, <2>1
  <2>5. z * a * b + y * a + x < IntMod
    <3>1. c * b * a = a * b * c
      BY <1>1
    <3> QED BY <3>1, <2>3, <2>4, <1>1, <1>2, <2>1, <2>2
  <2>6. /\ Wrap(z * a) = z * a
        /\ Wrap(z * a * b) = z * a * b
        /\ Wrap(y * a) = y * a
        /\ Wrap(z * a * b + y * a) = z * a * b + y * a
        /\ Wrap(z * a * b + y * a + x) = z * a * b + y * a + x
    <3>1. /\ z * a < IntMod /\ z * a * b < IntMod /\ y * a < IntMod
          /\ z * a * b + y * a < IntMod /\ z * a * b + y * a \in Nat
          /\ z * a * b + y * a + x \in Nat
      BY <1>2, <2>1, <2>2, <2>5
    <3> QED BY <3>1, <2>2, <2>5, WrapSmall
  <2>7. FlatIdx(w) =
          Wrap(Wrap(Wrap(Wrap(z * a) * b) + Wrap(y * a)) + x)
    BY DEF FlatIdx, x, y, z, a, b
  <2>8. FlatIdx(w) = (z * b + y) * a + x
    BY <2>3, <2>6, <2>7
  <2>9. FlatIdx(w) \in Slots
    <3>1. (z * b + y) * a + x \in Nat /\ c * b * a \in Nat
      BY <1>1, <2>1
    <3> QED BY <3>1, <1>3, <2>4, <2>8 DEF Slots
  <2>10. z * b + y \in Nat /\ y \in 0 .. b - 1 /\ x \in 0 .. a - 1
    BY <1>1, <2>1
  <2> QED BY <2>8, <2>9, <2>10 DEF x, y, z
<1> QED BY <1>3, <1>4 DEF a, b, c

\* Two work-items never share a slot (the FlatIdx the pass computes for
\* every looped region, LoopInserter.cpp:425).
THEOREM SlotsDistinct ==
  \A w1, w2 \in WorkItems : FlatIdx(w1) = FlatIdx(w2) => w1 = w2
<1> SUFFICES ASSUME NEW w1 \in WorkItems, NEW w2 \in WorkItems,
                    FlatIdx(w1) = FlatIdx(w2)
             PROVE  w1 = w2
  OBVIOUS
<1>1. LocalSize[0] \in Nat \ {0} /\ LocalSize[1] \in Nat \ {0}
  BY LocalSizeAssumption, Dims
<1> DEFINE row(w) == w[2] * LocalSize[1] + w[1]
<1>2. row(w1) = row(w2) /\ w1[0] = w2[0]
  <2> HIDE DEF row
  <2>1. \A w \in WorkItems : /\ row(w) \in Nat
                             /\ w[0] \in 0 .. LocalSize[0] - 1
                             /\ FlatIdx(w) = row(w) * LocalSize[0] + w[0]
    BY FlatIdxExact DEF row
  <2> QED BY <2>1, <1>1, Digits
<1>3. \A w \in WorkItems : /\ w \in [Dim -> Nat]
                           /\ w[2] \in Nat
                           /\ w[1] \in 0 .. LocalSize[1] - 1
  BY WorkItemIds, Dims, FlatIdxExact
<1>4. w1[2] = w2[2] /\ w1[1] = w2[1]
  BY <1>1, <1>2, <1>3, Digits
<1> QED BY <1>2, <1>3, <1>4, Dims
-----------------------------------------------------------------------------
(***************************************************************************)
(* Type correctness.                                                       *)
(***************************************************************************)

\* The loops are those of a looped region.
PlaceOK ==
  /\ at \in {"preheader", "body", "latch"} => region \in PR(kernel)
  /\ at = "single" => region \in Regions \ PR(kernel)
  /\ at = "body" => dim = 0

LEMMA KernelFields ==
  ASSUME NEW k \in Kernels
  PROVE  /\ k.entry \in Regions
         /\ k.next \in [Regions -> SUBSET (Regions \cup {Exit})]
         /\ k.def \in [Regions -> SUBSET Vars]
         /\ k.src \in [Regions -> [Vars -> Vars \cup {Lid, Arg}]]
         /\ k.home \in [Vars -> Regions]
         /\ k.private \in SUBSET Vars
         /\ k.guarded \in SUBSET Vars
         /\ k.uniform \in SUBSET Vars
         /\ k.varying \in SUBSET Regions
<1>1. k \in KernelType
  BY KernelsAssumption
<1> QED BY <1>1 DEF KernelType

LEMMA RunRegionType ==
  ASSUME NEW k \in Kernels, NEW r \in Regions, NEW w \in WorkItems,
         NEW p \in [Vars -> Values], NEW a \in ArgVals, NEW skip
  PROVE  RunRegion(k, r, w, p, a, skip) \in [Vars -> Values]
<1>1. ASSUME NEW v \in Vars
      PROVE  ValueOf(k.src[r][v], w, p, a) \in Values
  <2>1. k.src[r][v] \in Vars \cup {Lid, Arg}
    BY KernelFields
  <2> QED BY <2>1 DEF ValueOf, Values
<1> QED BY <1>1 DEF RunRegion

LEMMA InitTypeOK == Init => TypeOK /\ PlaceOK
<1> SUFFICES ASSUME Init PROVE TypeOK /\ PlaceOK
  OBVIOUS
<1>1. kernel.entry \in Regions
  BY KernelFields DEF Init
<1>2. iv \in WorkItems
  <2>1. iv = [d \in Dim |-> 0] /\ iv \in [Dim -> Nat]
    BY DEF Init
  <2>2. \A d \in Dim : iv[d] < LocalSize[d]
    BY <2>1, LocalSizeAssumption
  <2> QED BY <2>1, <2>2, WorkItemIds
<1>3. region # Exit /\ region \in Regions /\ PR(kernel) \subseteq Regions
  BY <1>1, NamesAssumption DEF Init, PR
<1>4. TypeOK
  BY <1>1, <1>2, <1>3, Dims DEF Init, TypeOK, Start, Values
<1>5. PlaceOK
  BY <1>3 DEF Init, PlaceOK, Start
<1> QED BY <1>4, <1>5

LEMMA EnterLoopTypeOK ==
  ASSUME iv \in WorkItems, NEW d \in Dim, NEW i \in Nat, i < LocalSize[d],
         EnterLoop(d, i)
  PROVE  /\ iv' \in WorkItems
         /\ dim' \in Dim
         /\ at' \in {"body", "preheader"}
         /\ at' = "body" => dim' = 0
<1>1. iv \in [Dim -> Nat] /\ \A e \in Dim : iv[e] < LocalSize[e]
  BY WorkItemIds
<1>2. iv' \in [Dim -> Nat] /\ \A e \in Dim : iv'[e] < LocalSize[e]
  BY <1>1 DEF EnterLoop
<1>3. iv' \in WorkItems
  BY <1>2, WorkItemIds
<1>4. dim' \in Dim
  BY Dims DEF EnterLoop, Dim
<1> QED BY <1>3, <1>4 DEF EnterLoop

LEMMA NextTypeOK ==
  TypeOK /\ PlaceOK /\ [Next]_vars => TypeOK' /\ PlaceOK'
<1> SUFFICES ASSUME TypeOK, PlaceOK, [Next]_vars
             PROVE  TypeOK' /\ PlaceOK'
  OBVIOUS
<1> USE DEF TypeOK
<1>1. CASE Preheader
  <2>1. 0 < LocalSize[dim]
    BY LocalSizeAssumption
  <2>2. /\ iv' \in WorkItems /\ dim' \in Dim
        /\ at' \in {"body", "preheader"} /\ (at' = "body" => dim' = 0)
    BY <1>1, <2>1, EnterLoopTypeOK DEF Preheader
  <2> QED BY <1>1, <2>2 DEF Preheader, PlaceOK
<1>2. ASSUME NEW skip \in SUBSET kernel.guarded, Body(skip)
      PROVE  TypeOK' /\ PlaceOK'
  <2> DEFINE env == [v \in Vars |-> ContextReload(v, FlatIdx(iv))]
             new == RunRegion(kernel, region, iv, env, arg, skip)
  <2>1. region \in Regions
    BY <1>2 DEF Body, PlaceOK, PR
  <2>2. FlatIdx(iv) \in Slots
    BY FlatIdxExact
  <2>3. env \in [Vars -> Values]
    BY <2>2 DEF ContextReload
  <2>4. new \in [Vars -> Values]
    BY <2>1, <2>3, RunRegionType
  <2> HIDE DEF env, new
  <2>5. reg' \in [Vars -> Values]
    BY <1>2, <2>4 DEF Body, env, new
  <2>6. ctx' \in [Vars -> [Slots -> Values]]
    BY <1>2, <2>2, <2>4 DEF Body, ContextStore, env, new
  <2> QED BY <1>2, <2>5, <2>6, Dims DEF Body, PlaceOK
<1>3. CASE Latch
  <2>1. iv[dim] \in Nat
    BY WorkItemIds
  <2>2. Wrap(iv[dim] + 1) \in Nat
    BY <2>1, IntModAssumption DEF Wrap
  <2> USE DEF GoesOn, Increment
  <2>3. CASE EnterLoop(dim, Wrap(iv[dim] + 1))
             /\ Wrap(iv[dim] + 1) < LocalSize[dim]
    <3>1. /\ iv' \in WorkItems /\ dim' \in Dim
          /\ at' \in {"body", "preheader"} /\ (at' = "body" => dim' = 0)
      BY <2>2, <2>3, EnterLoopTypeOK
    <3> QED BY <1>3, <3>1 DEF Latch, PlaceOK
  <2>4. CASE /\ at' = IF dim = 2 THEN "barrier" ELSE "latch"
             /\ dim' = IF dim = 2 THEN 2 ELSE dim + 1
             /\ UNCHANGED iv
    BY <1>3, <2>4 DEF Latch, PlaceOK, Dim
  <2> QED BY <1>3, <2>3, <2>4 DEF Latch
<1>4. ASSUME NEW skip \in SUBSET kernel.guarded, Single(skip)
      PROVE  TypeOK' /\ PlaceOK'
  <2>1. region \in Regions
    BY <1>4 DEF Single, PlaceOK
  <2>2. reg' \in [Vars -> Values]
    BY <1>4, <2>1, RunRegionType DEF Single
  <2> QED BY <1>4, <2>2 DEF Single, PlaceOK
<1>5. ASSUME NEW r \in Regions \cup {Exit}, Barrier(r)
      PROVE  TypeOK' /\ PlaceOK'
  <2>1. PR(kernel) \subseteq Regions
    BY DEF PR
  <2> QED BY <1>5, <2>1, Dims DEF Barrier, Start, PlaceOK
<1>6. CASE UNCHANGED vars
  BY <1>6 DEF vars, PlaceOK
<1> QED BY <1>1, <1>2, <1>3, <1>4, <1>5, <1>6 DEF Next, Returned

\* Every variable keeps its type, and the thread is inside the loop nest
\* exactly in the regions that got one.
THEOREM TypeCorrect == Spec => [](TypeOK /\ PlaceOK)
<1>1. Init => TypeOK /\ PlaceOK
  BY InitTypeOK
<1>2. (TypeOK /\ PlaceOK) /\ [Next]_vars => (TypeOK /\ PlaceOK)'
  BY NextTypeOK
<1> QED BY <1>1, <1>2, PTL DEF Spec

\* A looped region only ever uses slots of its context arrays.
THEOREM SlotsInBounds == Spec => []SlotInBounds
<1>1. TypeOK /\ PlaceOK => SlotInBounds
  BY FlatIdxExact DEF TypeOK, SlotInBounds
<1> QED BY <1>1, TypeCorrect, PTL
-----------------------------------------------------------------------------
(***************************************************************************)
(* The loops visit every work-item once: each step of the loop nest leaves *)
(* the set of work-items still to come as it is, except that the body      *)
(* takes its own work-item out.                                            *)
(***************************************************************************)

\* The two comparisons, written out for each loop.
LEMMA Lexicographic ==
  ASSUME NEW a \in [Dim -> Nat], NEW b \in [Dim -> Nat]
  PROVE  /\ BeforeFrom(a, b, 0) <=> \/ a[2] < b[2]
                                    \/ a[2] = b[2] /\ a[1] < b[1]
                                    \/ a[2] = b[2] /\ a[1] = b[1] /\ a[0] < b[0]
         /\ BeforeFrom(a, b, 1) <=> \/ a[2] < b[2]
                                    \/ a[2] = b[2] /\ a[1] < b[1]
         /\ BeforeFrom(a, b, 2) <=> a[2] < b[2]
         /\ ~BeforeFrom(a, b, 3)
         /\ SameFrom(a, b, 1) <=> a[2] = b[2] /\ a[1] = b[1]
         /\ SameFrom(a, b, 2) <=> a[2] = b[2]
         /\ SameFrom(a, b, 3)
         /\ a = b <=> a[2] = b[2] /\ a[1] = b[1] /\ a[0] = b[0]
<1>1. a = b <=> a[2] = b[2] /\ a[1] = b[1] /\ a[0] = b[0]
  BY Dims
<1>2. \A d \in Dim : a[d] \in Nat /\ b[d] \in Nat
  OBVIOUS
<1> QED BY <1>1, <1>2, Dims DEF BeforeFrom, SameFrom

LEMMA PendingType == TypeOK => Pending \subseteq WorkItems
BY DEF TypeOK, Pending

LEMMA PreheaderPending ==
  ASSUME TypeOK, Preheader
  PROVE  Pending' = Pending
<1>1. iv \in [Dim -> Nat] /\ \A w \in WorkItems : w \in [Dim -> Nat]
  BY WorkItemIds DEF TypeOK
<1>2. /\ at = "preheader" /\ iv' = [iv EXCEPT ![dim] = 0]
      /\ at' = IF dim = 0 THEN "body" ELSE "preheader"
      /\ dim' = IF dim = 0 THEN 0 ELSE dim - 1
  BY DEF Preheader, EnterLoop
<1>3. /\ \A e \in Dim : iv'[e] = IF e = dim THEN 0 ELSE iv[e]
      /\ iv' \in [Dim -> Nat]
  BY <1>1, <1>2
<1>4. \A w \in WorkItems : w \in Pending' <=> w \in Pending
  <2> SUFFICES ASSUME NEW w \in WorkItems
               PROVE  w \in Pending' <=> w \in Pending
    OBVIOUS
  <2>1. w \in Pending <=> SameFrom(iv, w, dim + 1) \/ BeforeFrom(iv, w, dim + 1)
    BY <1>2 DEF Pending
  <2>2. /\ w[0] \in Nat /\ w[1] \in Nat /\ w[2] \in Nat
        /\ \A e \in Dim : iv[e] \in Nat
    BY <1>1, Dims
  <2>3. CASE dim = 0
    <3>1. w \in Pending' <=> w = iv' \/ BeforeFrom(iv', w, 0)
      BY <1>2, <2>3 DEF Pending
    <3> QED BY <1>1, <1>3, <2>1, <2>2, <2>3, <3>1, Lexicographic, Dims
  <2>4. CASE dim = 1
    <3>1. w \in Pending' <=> SameFrom(iv', w, 1) \/ BeforeFrom(iv', w, 1)
      BY <1>2, <2>4 DEF Pending
    <3> QED BY <1>1, <1>3, <2>1, <2>2, <2>4, <3>1, Lexicographic, Dims
  <2>5. CASE dim = 2
    <3>1. w \in Pending' <=> SameFrom(iv', w, 2) \/ BeforeFrom(iv', w, 2)
      BY <1>2, <2>5 DEF Pending
    <3> QED BY <1>1, <1>3, <2>1, <2>2, <2>5, <3>1, Lexicographic, Dims
  <2> QED BY <2>3, <2>4, <2>5, Dims DEF TypeOK
<1>5. Pending \subseteq WorkItems /\ Pending' \subseteq WorkItems
  BY <1>2, PendingType DEF Pending
<1> QED BY <1>4, <1>5

\* The local sizes are i32 values, so the increment of a latch is exact.
LEMMA LocalSizeFits ==
  ASSUME NEW d \in Dim
  PROVE  LocalSize[d] \in Nat \ {0} /\ LocalSize[d] < IntMod
<1> DEFINE a == LocalSize[0]
           b == LocalSize[1]
           c == LocalSize[2]
<1>1. a \in Nat \ {0} /\ b \in Nat \ {0} /\ c \in Nat \ {0}
  BY LocalSizeAssumption, Dims
<1>2. IntMod \in Nat /\ a * b * c < IntMod
  BY IntModAssumption
<1> HIDE DEF a, b, c
<1>3. a * b \in Nat /\ a <= a * b /\ b <= a * b /\ a * b # 0
  BY <1>1
<1>4. a * b * c \in Nat /\ a * b <= a * b * c /\ c <= a * b * c
  BY <1>1, <1>3
<1>5. a < IntMod /\ b < IntMod /\ c < IntMod
  BY <1>1, <1>2, <1>3, <1>4
<1> QED BY <1>1, <1>5, Dims DEF a, b, c

LEMMA LatchPending ==
  ASSUME TypeOK, Latch
  PROVE  Pending' = Pending
<1>1. iv \in [Dim -> Nat] /\ \A w \in WorkItems : w \in [Dim -> Nat]
  BY WorkItemIds DEF TypeOK
<1>2. /\ LocalSize[dim] \in Nat /\ iv[dim] \in Nat
      /\ iv[dim] < LocalSize[dim]
      /\ \A w \in WorkItems : w[dim] < LocalSize[dim]
  BY WorkItemIds, LocalSizeFits DEF TypeOK
<1>3. Wrap(iv[dim] + 1) = iv[dim] + 1
  <2>1. iv[dim] + 1 \in Nat /\ iv[dim] + 1 < IntMod
    BY <1>2, LocalSizeFits, IntModAssumption DEF TypeOK
  <2> QED BY <2>1, WrapSmall
<1>4. ASSUME NEW w \in WorkItems
      PROVE  w \in Pending' <=> w \in Pending
  <2>1. w \in Pending <=> BeforeFrom(iv, w, dim)
    BY DEF Latch, Pending
  <2>2. /\ w[0] \in Nat /\ w[1] \in Nat /\ w[2] \in Nat
        /\ iv[0] \in Nat /\ iv[1] \in Nat /\ iv[2] \in Nat
    BY <1>1, Dims
  <2>3. CASE iv[dim] + 1 < LocalSize[dim] /\ EnterLoop(dim, iv[dim] + 1)
    <3>1. /\ iv' = [iv EXCEPT ![dim] = iv[dim] + 1]
          /\ at' = IF dim = 0 THEN "body" ELSE "preheader"
          /\ dim' = IF dim = 0 THEN 0 ELSE dim - 1
      BY <2>3 DEF EnterLoop
    <3>2. /\ \A e \in Dim : iv'[e] = IF e = dim THEN iv[dim] + 1 ELSE iv[e]
          /\ iv' \in [Dim -> Nat]
      <4>1. PICK n \in Nat : n = iv[dim] + 1
        BY <1>2
      <4>2. iv' = [iv EXCEPT ![dim] = n]
        BY <3>1, <4>1
      <4> QED BY <1>1, <4>1, <4>2
    <3>3. CASE dim = 0
      <4>1. w \in Pending' <=> w = iv' \/ BeforeFrom(iv', w, 0)
        BY <3>1, <3>3 DEF Pending
      <4> QED BY <1>1, <2>1, <2>2, <3>2, <3>3, <4>1, Lexicographic, Dims
    <3>4. CASE dim = 1
      <4>1. w \in Pending' <=> SameFrom(iv', w, 1) \/ BeforeFrom(iv', w, 1)
        BY <3>1, <3>4 DEF Pending
      <4> QED BY <1>1, <2>1, <2>2, <3>2, <3>4, <4>1, Lexicographic, Dims
    <3>5. CASE dim = 2
      <4>1. w \in Pending' <=> SameFrom(iv', w, 2) \/ BeforeFrom(iv', w, 2)
        BY <3>1, <3>5 DEF Pending
      <4> QED BY <1>1, <2>1, <2>2, <3>2, <3>5, <4>1, Lexicographic, Dims
    <3> QED BY <3>3, <3>4, <3>5, Dims DEF TypeOK
  <2>4. CASE /\ iv[dim] + 1 >= LocalSize[dim]
             /\ at' = IF dim = 2 THEN "barrier" ELSE "latch"
             /\ dim' = IF dim = 2 THEN 2 ELSE dim + 1
             /\ iv' = iv
    <3>1. w[dim] <= iv[dim]
      BY <1>1, <1>2, <2>4 DEF TypeOK
    <3>2. CASE dim = 2
      <4>1. w \notin Pending'
        BY <2>4, <3>2 DEF Pending
      <4> QED BY <1>1, <2>1, <2>2, <3>1, <3>2, <4>1, Lexicographic
    <3>3. CASE dim = 0 \/ dim = 1
      <4>1. w \in Pending' <=> BeforeFrom(iv, w, dim + 1)
        BY <2>4, <3>3 DEF Pending
      <4> QED BY <1>1, <2>1, <2>2, <3>1, <3>3, <4>1, Lexicographic
    <3> QED BY <3>2, <3>3, Dims DEF TypeOK
  <2> QED BY <1>2, <1>3, <2>3, <2>4 DEF Latch, GoesOn, Increment
<1>5. at' \in {"body", "preheader", "latch", "barrier"}
  BY DEF Latch, EnterLoop
<1>6. Pending \subseteq WorkItems /\ Pending' \subseteq WorkItems
  BY <1>5, PendingType DEF Pending
<1> QED BY <1>4, <1>6

LEMMA BodyPending ==
  ASSUME TypeOK, PlaceOK, NEW skip, Body(skip)
  PROVE  iv \in Pending /\ Pending' = Pending \ {iv}
<1>1. iv \in [Dim -> Nat]
  BY WorkItemIds DEF TypeOK
<1>2. ~BeforeFrom(iv, iv, 0)
  BY <1>1 DEF BeforeFrom
<1>3. Pending = {w \in WorkItems : w = iv \/ BeforeFrom(iv, w, 0)}
  BY DEF Body, Pending
<1>4. Pending' = {w \in WorkItems : BeforeFrom(iv, w, 0)}
  BY DEF Body, Pending
<1> QED BY <1>2, <1>3, <1>4 DEF TypeOK
-----------------------------------------------------------------------------
(***************************************************************************)
(* The refinement.  The steps of the loop nest are steps of SpmdKernel or  *)
(* leave its variables alone, given the two invariants GroupAgrees and     *)
(* ScalarAgreesWithSlots; SpmdKernel's steps keep the first, the code's    *)
(* the second.                                                             *)
(***************************************************************************)

IInv == TypeOK /\ PlaceOK /\ GroupAgrees /\ ScalarAgreesWithSlots

AllKernelsStayTogether == \A k \in Kernels : AllocasStayTogether(k)

LEMMA KernelForm ==
  ASSUME NEW k \in Kernels
  PROVE  IsSSA(k) /\ IsSoundlyUniform(k)
BY KernelsAssumption

\* A region reads a register only if it does not define it.
LEMMA ReadsAreForeign ==
  ASSUME NEW k \in Kernels, NEW r \in Regions,
         NEW v \in Registers(k), v \in Reads(k, r)
  PROVE  v \notin k.def[r]
BY KernelForm DEF IsSSA

\* A source is a variable the region reads, the local id or the group value.
LEMMA SourceIsRead ==
  ASSUME NEW k \in Kernels, NEW r \in Regions, NEW v \in k.def[r]
  PROVE  /\ v \in Vars
         /\ \/ k.src[r][v] \in Reads(k, r)
            \/ k.src[r][v] = Lid
            \/ k.src[r][v] = Arg
<1>1. v \in Vars /\ k.src[r][v] \in Vars \cup {Lid, Arg}
  BY KernelFields
<1> QED BY <1>1 DEF Reads

\* What a bare region assigns is a group value or an invariant variable.
LEMMA BareSources ==
  ASSUME NEW k \in Kernels, NEW r \in Regions \ PR(k), NEW v \in k.def[r]
  PROVE  /\ k.src[r][v] # Lid
         /\ \/ k.src[r][v] = Arg
            \/ k.src[r][v] \in k.uniform /\ k.src[r][v] \in Reads(k, r)
<1>1. IsUniformSource(k, k.src[r][v])
  BY DEF PR, IsRegionUniform
<1>2. k.uniform \subseteq Vars
  BY KernelFields
<1> QED BY <1>1, <1>2, SourceIsRead, NamesAssumption DEF IsUniformSource

\* A looped region stores to the scalar alone only for invariant registers.
LEMMA UnbufferedStores ==
  ASSUME NEW k \in Kernels, AllocasStayTogether(k),
         NEW r \in PR(k), NEW v \in k.def[r], ~Buffered(k, v)
  PROVE  v \in Registers(k) /\ v \in k.uniform
<1>1. r \in Regions /\ v \in Vars
  BY KernelFields DEF PR
<1>2. v \notin k.private
  BY <1>1, KernelFields DEF AllocasStayTogether, Buffered
<1>3. v \in Registers(k) /\ r = k.home[v]
  BY <1>1, <1>2, KernelForm DEF IsSSA, Registers
<1>4. PICK r2 \in Regions : v \in Reads(k, r2)
  BY <1>1, <1>3, KernelForm DEF IsSSA
<1>5. r2 # k.home[v]
  BY <1>3, <1>4, KernelForm DEF IsSSA
<1>6. r2 \notin PR(k)
  BY <1>3, <1>4, <1>5 DEF Buffered
<1>7. PICK u \in k.def[r2] : k.src[r2][u] = v
  BY <1>4 DEF Reads
<1>8. IsUniformSource(k, v)
  BY <1>6, <1>7 DEF PR, IsRegionUniform
<1> QED BY <1>1, <1>3, <1>8, NamesAssumption DEF IsUniformSource

\* A bare region neither stores to a buffered variable nor reads a buffered
\* alloca.
LEMMA BareAccesses ==
  ASSUME NEW k \in Kernels, AllocasStayTogether(k), NEW r \in Regions \ PR(k)
  PROVE  /\ \A v \in k.def[r] : ~Buffered(k, v)
         /\ \A v \in Reads(k, r) : Buffered(k, v) => v \in Registers(k)
<1>1. ASSUME NEW v \in k.def[r] PROVE ~Buffered(k, v)
  <2>1. v \in Vars
    BY KernelFields
  <2>2. CASE v \in k.private
    BY <2>1, <2>2 DEF AllocasStayTogether, Buffered
  <2>3. CASE v \in Registers(k)
    BY <2>3, KernelForm DEF IsSSA, Buffered
  <2> QED BY <2>1, <2>2, <2>3 DEF Registers
<1>2. ASSUME NEW v \in Reads(k, r), Buffered(k, v) PROVE v \in Registers(k)
  BY <1>2 DEF AllocasStayTogether, Buffered, Registers, Reads
<1> QED BY <1>1, <1>2

\* A work-item's register that the region is going to define.
Dead(w, v) ==
  /\ region # Exit
  /\ v \in Registers(kernel) /\ v \in kernel.def[region]
  /\ w \in Pending

\* Where the code keeps a work-item's variable.
Held(w, v) == IF Buffered(kernel, v) THEN ctx[v][FlatIdx(w)] ELSE reg[v]

LEMMA PrivAt ==
  ASSUME NEW w \in WorkItems, NEW v \in Vars
  PROVE  /\ Priv[w][v] = IF Dead(w, v) THEN None ELSE Held(w, v)
         /\ Priv'[w][v] = IF Dead(w, v)' THEN None ELSE Held(w, v)'
BY DEF Priv, Dead, Held

LEMMA PrivForm ==
  /\ Priv = [w \in WorkItems |-> [v \in Vars |-> Priv[w][v]]]
  /\ Priv' = [w \in WorkItems |-> [v \in Vars |-> Priv'[w][v]]]
BY DEF Priv

\* A variable that is read, or whose store may be skipped, is not dead.
LEMMA NotDead ==
  ASSUME NEW k \in Kernels, NEW r \in Regions, NEW v,
         v \in Reads(k, r) \/ v \in k.guarded
  PROVE  ~(v \in Registers(k) /\ v \in k.def[r])
BY ReadsAreForeign, KernelForm DEF IsSSA, Registers
-----------------------------------------------------------------------------
(***************************************************************************)
(* The loops leave the variables of SpmdKernel alone.                      *)
(***************************************************************************)
LEMMA SilentSteps ==
  ASSUME TypeOK, ScalarAgreesWithSlots, Pending' = Pending,
         UNCHANGED <<kernel, region, arg, reg, ctx>>
  PROVE  UNCHANGED Spmd!vars /\ ScalarAgreesWithSlots'
<1>1. Priv' = Priv
  BY DEF Priv
<1> QED BY <1>1 DEF Spmd!vars, ScalarAgreesWithSlots
-----------------------------------------------------------------------------
(***************************************************************************)
(* The body runs the region for one work-item.                             *)
(***************************************************************************)
LEMMA BodyValues ==
  ASSUME TypeOK, PlaceOK, NEW skip \in SUBSET kernel.guarded, Body(skip),
         NEW v \in kernel.def[region]
  PROVE  LET value == ValueOf(kernel.src[region][v], iv, Priv[iv], arg)
         IN  v \notin skip =>
               /\ Buffered(kernel, v) =>
                    ctx'[v] = [ctx[v] EXCEPT ![FlatIdx(iv)] = value]
               /\ v \in Registers(kernel) \/ ~Buffered(kernel, v) =>
                    reg'[v] = value
<1> DEFINE env == [u \in Vars |-> ContextReload(u, FlatIdx(iv))]
           s == kernel.src[region][v]
           new == RunRegion(kernel, region, iv, env, arg, skip)
<1>1. region \in Regions /\ kernel \in Kernels /\ iv \in WorkItems /\ v \in Vars
  BY KernelFields DEF TypeOK, PlaceOK, Body, PR
<1>2. ASSUME s \in Reads(kernel, region) PROVE env[s] = Priv[iv][s]
  <2>1. s \in Vars
    BY <1>2 DEF Reads
  <2>2. ~Dead(iv, s)
    BY <1>1, <1>2, NotDead DEF Dead
  <2> QED BY <1>1, <2>1, <2>2, PrivAt DEF Held, ContextReload
<1>3. ValueOf(s, iv, env, arg) = ValueOf(s, iv, Priv[iv], arg)
  BY <1>1, <1>2, SourceIsRead DEF ValueOf
<1>4. v \notin skip => new[v] = ValueOf(s, iv, env, arg)
  BY <1>1 DEF RunRegion
<1>5. v \notin skip =>
        /\ Buffered(kernel, v) =>
             ctx'[v] = [ctx[v] EXCEPT ![FlatIdx(iv)] = new[v]]
        /\ v \in Registers(kernel) \/ ~Buffered(kernel, v) =>
             reg'[v] = new[v]
  <2> HIDE DEF new
  <2> QED BY <1>1 DEF Body, ContextStore, Registers, new
<1> QED BY <1>3, <1>4, <1>5

LEMMA BodyKeeps ==
  ASSUME TypeOK, NEW skip, Body(skip), NEW v \in Vars,
         v \notin kernel.def[region] \ skip
  PROVE  ctx'[v] = ctx[v] /\ reg'[v] = reg[v]
BY DEF Body

\* A work-item that has run the region holds what the next one will get.
LEMMA DoneAgrees ==
  ASSUME TypeOK, PlaceOK, GroupAgrees, NEW skip, Body(skip),
         NEW w \in WorkItems, w \notin Pending,
         NEW v \in kernel.def[region], v \in kernel.uniform
  PROVE  /\ Held(w, v) = ValueOf(kernel.src[region][v], iv, Priv[iv], arg)
<1>1. region \in Regions /\ iv \in WorkItems /\ iv \in Pending /\ v \in Vars
  BY BodyPending, KernelFields DEF TypeOK, PlaceOK, Body, PR
<1>2. region # Exit
  BY <1>1, NamesAssumption
<1>3. Priv[w][v] = Held(w, v)
  BY <1>1, PrivAt DEF Dead
<1> QED BY <1>1, <1>2, <1>3 DEF GroupAgrees

LEMMA BodyRuns ==
  ASSUME IInv, AllKernelsStayTogether,
         NEW skip \in SUBSET kernel.guarded, Body(skip)
  PROVE  Spmd!Run({iv}, skip)
<1> USE DEF IInv
<1>1. /\ region \in PR(kernel) /\ region \in Regions /\ kernel \in Kernels
      /\ iv \in WorkItems
      /\ region # Exit
      /\ UNCHANGED <<kernel, region, arg>>
  BY NamesAssumption DEF TypeOK, PlaceOK, Body, PR
<1>2. iv \in Pending /\ Pending' = Pending \ {iv}
  BY BodyPending
<1>3. AllocasStayTogether(kernel)
  BY <1>1 DEF AllKernelsStayTogether
<1> DEFINE goal(w, v) ==
             IF w = iv /\ v \in kernel.def[region] \ skip
             THEN ValueOf(kernel.src[region][v], w, Priv[w], arg)
             ELSE Priv[w][v]
<1>4. ASSUME NEW w \in WorkItems, NEW v \in Vars
      PROVE  Priv'[w][v] = goal(w, v)
  <2>1. Priv[w][v] = IF Dead(w, v) THEN None ELSE Held(w, v)
    BY PrivAt
  <2>2. Priv'[w][v] = IF Dead(w, v)' THEN None ELSE Held(w, v)'
    BY PrivAt
  <2>3. Held(w, v)' = IF Buffered(kernel, v) THEN ctx'[v][FlatIdx(w)]
                                             ELSE reg'[v]
    BY <1>1 DEF Held
  <2>4. Dead(w, v)' <=> Dead(w, v) /\ w # iv
    BY <1>1, <1>2 DEF Dead
  <2>5. FlatIdx(iv) \in Slots /\ ctx[v] \in [Slots -> Values]
    BY <1>1, FlatIdxExact DEF TypeOK
  <2>6. CASE v \notin kernel.def[region] \ skip
    <3>1. Held(w, v)' = Held(w, v)
      BY <2>3, <2>6, BodyKeeps DEF Held
    <3>2. Dead(iv, v) => FALSE
      BY <1>1, <2>6, NotDead DEF Dead
    <3> QED BY <2>1, <2>2, <2>4, <2>6, <3>1, <3>2
  <2>7. CASE v \in kernel.def[region] \ skip /\ w = iv
    <3>1. Held(w, v)' = ValueOf(kernel.src[region][v], iv, Priv[iv], arg)
      <4>1. CASE Buffered(kernel, v)
        BY <2>3, <2>5, <2>7, <4>1, BodyValues
      <4>2. CASE ~Buffered(kernel, v)
        BY <2>3, <2>7, <4>2, BodyValues
      <4> QED BY <4>1, <4>2
    <3> QED BY <2>2, <2>4, <2>7, <3>1
  <2>8. CASE v \in kernel.def[region] \ skip /\ w # iv
    <3>1. CASE Buffered(kernel, v)
      <4>1. FlatIdx(w) # FlatIdx(iv)
        BY <1>1, <2>8, SlotsDistinct
      <4>2. ctx'[v][FlatIdx(w)] = ctx[v][FlatIdx(w)]
        BY <2>5, <2>8, <3>1, <4>1, BodyValues, FlatIdxExact
      <4> QED BY <2>1, <2>2, <2>3, <2>4, <2>8, <3>1, <4>2 DEF Held
    <3>2. CASE ~Buffered(kernel, v)
      <4>1. v \in Registers(kernel) /\ v \in kernel.uniform
        BY <1>1, <1>3, <2>8, <3>2, UnbufferedStores
      <4>2. CASE w \in Pending
        BY <1>1, <2>1, <2>2, <2>4, <2>8, <4>1, <4>2 DEF Dead
      <4>3. CASE w \notin Pending
        <5>1. Held(w, v) = ValueOf(kernel.src[region][v], iv, Priv[iv], arg)
          BY <2>8, <4>1, <4>3, DoneAgrees
        <5>2. reg'[v] = ValueOf(kernel.src[region][v], iv, Priv[iv], arg)
          BY <2>8, <3>2, BodyValues
        <5>3. ~Dead(w, v)
          BY <4>3 DEF Dead
        <5> QED BY <2>1, <2>2, <2>3, <2>4, <2>8, <3>2, <5>1, <5>2, <5>3
      <4> QED BY <4>2, <4>3
    <3> QED BY <3>1, <3>2
  <2> QED BY <2>6, <2>7, <2>8
<1>5. Priv' = [w \in WorkItems |->
                 IF w \in {iv}
                 THEN Spmd!RunRegion(kernel, region, w, Priv[w], arg, skip)
                 ELSE Priv[w]]
  <2>1. \A w \in WorkItems :
          (IF w \in {iv}
           THEN Spmd!RunRegion(kernel, region, w, Priv[w], arg, skip)
           ELSE Priv[w]) = [v \in Vars |-> goal(w, v)]
    <3> SUFFICES ASSUME NEW w \in WorkItems
                 PROVE (IF w \in {iv}
                        THEN Spmd!RunRegion(kernel, region, w, Priv[w], arg, skip)
                        ELSE Priv[w]) = [v \in Vars |-> goal(w, v)]
      OBVIOUS
    <3>1. Priv[w] = [v \in Vars |-> Priv[w][v]]
      BY DEF Priv
    <3>2. CASE w = iv
      BY <3>2 DEF Spmd!RunRegion, Spmd!ValueOf, ValueOf
    <3>3. CASE w # iv
      BY <3>1, <3>3
    <3> QED BY <3>2, <3>3
  <2>2. \A w \in WorkItems : Priv'[w] = [v \in Vars |-> goal(w, v)]
    <3> SUFFICES ASSUME NEW w \in WorkItems
                 PROVE  Priv'[w] = [v \in Vars |-> goal(w, v)]
      OBVIOUS
    <3> HIDE DEF goal
    <3>1. Priv'[w] = [v \in Vars |-> Priv'[w][v]]
      BY DEF Priv
    <3> QED BY <1>4, <3>1
  <2>3. Priv' = [w \in WorkItems |-> Priv'[w]]
    BY DEF Priv
  <2> HIDE DEF goal
  <2> QED BY <2>1, <2>2, <2>3
<1> QED BY <1>1, <1>2, <1>5 DEF Spmd!Run

LEMMA BodyScalar ==
  ASSUME IInv, NEW skip \in SUBSET kernel.guarded, Body(skip)
  PROVE  ScalarAgreesWithSlots'
<1> USE DEF IInv
<1>1. /\ region \in Regions /\ kernel \in Kernels /\ iv \in WorkItems
      /\ region # Exit
      /\ UNCHANGED <<kernel, region, arg>>
  BY NamesAssumption DEF TypeOK, PlaceOK, Body, PR
<1>2. Pending' = Pending \ {iv}
  BY BodyPending
<1>3. SUFFICES ASSUME NEW v \in Registers(kernel) \cap kernel.uniform,
                      NEW w \in WorkItems,
                      Buffered(kernel, v),
                      v \in kernel.def[region] => w \notin Pending \ {iv}
               PROVE  ctx'[v][FlatIdx(w)] = reg'[v]
  BY <1>1, <1>2 DEF ScalarAgreesWithSlots
<1>4. v \in Vars /\ FlatIdx(iv) \in Slots /\ FlatIdx(w) \in Slots
      /\ ctx[v] \in [Slots -> Values]
  BY <1>1, FlatIdxExact DEF TypeOK, Registers
<1>5. CASE v \notin kernel.def[region]
  <2>1. ctx'[v] = ctx[v] /\ reg'[v] = reg[v]
    BY <1>4, <1>5, BodyKeeps
  <2> QED BY <1>3, <1>5, <2>1 DEF ScalarAgreesWithSlots
<1>6. CASE v \in kernel.def[region]
  <2> DEFINE value == ValueOf(kernel.src[region][v], iv, Priv[iv], arg)
  <2>1. v \notin skip
    BY <1>1, KernelForm DEF IsSSA, Registers
  <2>2. /\ ctx'[v] = [ctx[v] EXCEPT ![FlatIdx(iv)] = value]
        /\ reg'[v] = value
    BY <1>3, <1>6, <2>1, BodyValues
  <2>3. CASE w = iv
    BY <1>4, <2>2, <2>3
  <2>4. CASE w # iv
    <3>1. w \notin Pending
      BY <1>3, <1>6, <2>4
    <3>2. Held(w, v) = value
      BY <1>3, <1>6, <3>1, DoneAgrees
    <3>3. FlatIdx(w) # FlatIdx(iv)
      BY <1>1, <2>4, SlotsDistinct
    <3> HIDE DEF value
    <3> QED BY <1>3, <1>4, <2>2, <3>2, <3>3 DEF Held
  <2> QED BY <2>3, <2>4
<1> QED BY <1>5, <1>6
-----------------------------------------------------------------------------
(***************************************************************************)
(* A bare region runs once for all work-items.                             *)
(***************************************************************************)
LEMMA SingleSource ==
  ASSUME IInv, AllKernelsStayTogether, at = "single",
         NEW v \in kernel.def[region], NEW w \in WorkItems
  PROVE  LET s == kernel.src[region][v]
         IN  ValueOf(s, iv, reg, arg) = ValueOf(s, w, Priv[w], arg)
<1> USE DEF IInv
<1> DEFINE s == kernel.src[region][v]
<1>1. /\ region \in Regions \ PR(kernel) /\ kernel \in Kernels
      /\ region # Exit
  BY NamesAssumption DEF TypeOK, PlaceOK
<1>2. AllocasStayTogether(kernel)
  BY <1>1 DEF AllKernelsStayTogether
<1>3. /\ s # Lid
      /\ s = Arg \/ (s \in kernel.uniform /\ s \in Reads(kernel, region))
  BY <1>1, BareSources
<1>4. CASE s = Arg
  BY <1>3, <1>4 DEF ValueOf
<1>5. CASE s # Arg /\ s \in kernel.uniform /\ s \in Reads(kernel, region)
  <2>1. s \in Vars
    BY <1>5 DEF Reads
  <2>2. ~Dead(w, s)
    BY <1>1, <1>5, NotDead DEF Dead
  <2>3. Priv[w][s] = Held(w, s)
    BY <2>1, <2>2, PrivAt
  <2>4. Held(w, s) = reg[s]
    <3>1. CASE Buffered(kernel, s)
      <4>1. s \in Registers(kernel)
        BY <1>1, <1>2, <1>5, <3>1, BareAccesses
      <4>2. s \notin kernel.def[region]
        BY <1>1, <1>5, <4>1, ReadsAreForeign
      <4> QED BY <1>5, <3>1, <4>1, <4>2 DEF ScalarAgreesWithSlots, Held
    <3> QED BY <3>1 DEF Held
  <2> QED BY <1>3, <1>5, <2>3, <2>4 DEF ValueOf
<1> QED BY <1>3, <1>4, <1>5

LEMMA SingleRuns ==
  ASSUME IInv, AllKernelsStayTogether,
         NEW skip \in SUBSET kernel.guarded, Single(skip)
  PROVE  Spmd!Run(WorkItems, skip) /\ ScalarAgreesWithSlots'
<1> USE DEF IInv
<1>1. /\ region \in Regions \ PR(kernel) /\ kernel \in Kernels
      /\ region # Exit
      /\ at = "single" /\ at' = "barrier"
      /\ UNCHANGED <<kernel, region, arg, ctx>>
  BY NamesAssumption DEF TypeOK, PlaceOK, Single
<1>2. AllocasStayTogether(kernel)
  BY <1>1 DEF AllKernelsStayTogether
<1>3. Pending = WorkItems /\ Pending' = {}
  BY <1>1 DEF Pending
<1>4. \A v \in Vars :
        reg'[v] = IF v \in kernel.def[region] \ skip
                  THEN ValueOf(kernel.src[region][v], iv, reg, arg)
                  ELSE reg[v]
  BY DEF Single, RunRegion
<1> DEFINE goal(w, v) ==
             IF v \in kernel.def[region] \ skip
             THEN ValueOf(kernel.src[region][v], w, Priv[w], arg)
             ELSE Priv[w][v]
<1>5. ASSUME NEW w \in WorkItems, NEW v \in Vars
      PROVE  Priv'[w][v] = goal(w, v)
  <2>1. Priv'[w][v] = IF Buffered(kernel, v) THEN ctx[v][FlatIdx(w)]
                                             ELSE reg'[v]
    BY <1>1, <1>3, PrivAt DEF Dead, Held
  <2>2. CASE v \in kernel.def[region] \ skip
    <3>1. ~Buffered(kernel, v)
      BY <1>1, <1>2, <2>2, BareAccesses
    <3>2. reg'[v] = ValueOf(kernel.src[region][v], iv, reg, arg)
      BY <1>4, <2>2
    <3>3. ValueOf(kernel.src[region][v], iv, reg, arg)
            = ValueOf(kernel.src[region][v], w, Priv[w], arg)
      BY <1>1, <2>2, SingleSource
    <3> QED BY <2>1, <2>2, <3>1, <3>2, <3>3
  <2>3. CASE v \notin kernel.def[region] \ skip
    <3>1. ~Dead(w, v)
      BY <1>1, <2>3, NotDead DEF Dead
    <3>2. Priv[w][v] = Held(w, v)
      BY <3>1, PrivAt
    <3> QED BY <1>4, <2>1, <2>3, <3>2 DEF Held
  <2> QED BY <2>2, <2>3
<1>6. Priv' = [w \in WorkItems |->
                 IF w \in WorkItems
                 THEN Spmd!RunRegion(kernel, region, w, Priv[w], arg, skip)
                 ELSE Priv[w]]
  <2>1. \A w \in WorkItems :
          Spmd!RunRegion(kernel, region, w, Priv[w], arg, skip)
            = [v \in Vars |-> goal(w, v)]
    BY DEF Spmd!RunRegion, Spmd!ValueOf, ValueOf
  <2>2. \A w \in WorkItems : Priv'[w] = [v \in Vars |-> goal(w, v)]
    <3> SUFFICES ASSUME NEW w \in WorkItems
                 PROVE  Priv'[w] = [v \in Vars |-> goal(w, v)]
      OBVIOUS
    <3> HIDE DEF goal
    <3>1. Priv'[w] = [v \in Vars |-> Priv'[w][v]]
      BY DEF Priv
    <3> QED BY <1>5, <3>1
  <2>3. Priv' = [w \in WorkItems |-> Priv'[w]]
    BY DEF Priv
  <2> HIDE DEF goal
  <2> QED BY <2>1, <2>2, <2>3
<1>7. Spmd!Run(WorkItems, skip)
  BY <1>1, <1>3, <1>6 DEF Spmd!Run
<1>8. ScalarAgreesWithSlots'
  <2> SUFFICES ASSUME NEW v \in Registers(kernel) \cap kernel.uniform,
                      NEW w \in WorkItems, Buffered(kernel, v)
               PROVE  ctx[v][FlatIdx(w)] = reg'[v]
    BY <1>1 DEF ScalarAgreesWithSlots
  <2>1. v \in Vars /\ v \notin kernel.def[region]
    BY <1>1, <1>2, BareAccesses DEF Registers
  <2> QED BY <1>4, <2>1 DEF ScalarAgreesWithSlots
<1> QED BY <1>7, <1>8
-----------------------------------------------------------------------------
(***************************************************************************)
(* The erased barrier, and the start.                                      *)
(***************************************************************************)
LEMMA StartPending ==
  ASSUME TypeOK', dim' = 2, at' = Start(kernel', region')
  PROVE  Pending' = IF region' = Exit THEN {} ELSE WorkItems
<1>1. CASE region' = Exit
  BY <1>1 DEF Start, Pending
<1>2. CASE at' = "single" /\ region' # Exit
  BY <1>2 DEF Pending
<1>3. CASE at' = "preheader" /\ region' # Exit
  <2>1. \A w \in WorkItems : SameFrom(iv', w, 3)
    BY DEF SameFrom, Dim
  <2>2. Pending' = {w \in WorkItems : SameFrom(iv', w, 3)
                                      \/ BeforeFrom(iv', w, 3)}
    BY <1>3 DEF Pending
  <2> QED BY <1>3, <2>1, <2>2
<1> QED BY <1>1, <1>2, <1>3 DEF Start

LEMMA BarrierCrossed ==
  ASSUME IInv, TypeOK', NEW r \in Regions \cup {Exit}, Barrier(r)
  PROVE  Spmd!Barrier(r) /\ ScalarAgreesWithSlots'
<1> USE DEF IInv
<1>1. /\ region \in Regions /\ region # Exit /\ kernel \in Kernels
      /\ at = "barrier" /\ region' = r /\ arg' \in ArgVals
      /\ r \in kernel.next[region]
      /\ UNCHANGED <<kernel, reg, ctx>>
  BY DEF TypeOK, Barrier
<1>2. Pending = {} /\ Pending' = IF r = Exit THEN {} ELSE WorkItems
  <2>1. Pending = {}
    BY <1>1 DEF Pending
  <2> QED BY <1>1, <2>1, StartPending DEF Barrier
<1>3. ASSUME NEW w \in WorkItems
      PROVE  Priv'[w] = Spmd!Forget(r, Priv[w])
  <2>1. Priv'[w] = [v \in Vars |-> Priv'[w][v]]
    BY DEF Priv
  <2>2. ASSUME NEW v \in Vars
        PROVE  Priv'[w][v] =
                 IF r # Exit /\ v \in Spmd!Registers(kernel)
                             /\ v \in kernel.def[r]
                 THEN None ELSE Priv[w][v]
    <3>1. Priv[w][v] = Held(w, v)
      BY <1>2, PrivAt DEF Dead
    <3>2. Held(w, v)' = Held(w, v)
      BY <1>1 DEF Held
    <3>3. Dead(w, v)' <=> r # Exit /\ v \in Spmd!Registers(kernel)
                          /\ v \in kernel.def[r]
      BY <1>1, <1>2 DEF Dead, Registers, Spmd!Registers
    <3> QED BY <3>1, <3>2, <3>3, PrivAt
  <2> QED BY <2>1, <2>2 DEF Spmd!Forget
<1>4. Priv' = [w \in WorkItems |-> Spmd!Forget(r, Priv[w])]
  <2>1. Priv' = [w \in WorkItems |-> Priv'[w]]
    BY DEF Priv
  <2> QED BY <1>3, <2>1
<1>5. Spmd!Barrier(r)
  BY <1>1, <1>2, <1>4 DEF Spmd!Barrier
<1>6. ScalarAgreesWithSlots'
  BY <1>1, <1>2 DEF ScalarAgreesWithSlots
<1> QED BY <1>5, <1>6

LEMMA InitMaps ==
  ASSUME Init
  PROVE  Spmd!Init /\ ScalarAgreesWithSlots
<1>1. TypeOK /\ PlaceOK
  BY InitTypeOK
<1>2. region # Exit /\ kernel \in Kernels
  BY <1>1, KernelFields, NamesAssumption DEF Init, TypeOK
<1>3. Pending = WorkItems
  <2>1. CASE at = "single"
    BY <2>1 DEF Pending
  <2>2. CASE at = "preheader"
    <3>1. \A w \in WorkItems : SameFrom(iv, w, 3)
      BY DEF SameFrom, Dim
    <3> QED BY <2>2, <3>1 DEF Pending, Init
  <2> QED BY <1>2, <2>1, <2>2 DEF Init, Start
<1>4. ASSUME NEW w \in WorkItems, NEW v \in Vars
      PROVE  ctx[v][FlatIdx(w)] = None /\ reg[v] = None
  BY FlatIdxExact DEF Init
<1>5. Priv = [w \in WorkItems |-> [v \in Vars |-> None]]
  <2>1. \A w \in WorkItems, v \in Vars : Priv[w][v] = None
    BY <1>4, PrivAt DEF Held
  <2> QED BY <2>1, PrivForm
<1>6. Spmd!Init
  BY <1>3, <1>5 DEF Init, Spmd!Init
<1>7. ScalarAgreesWithSlots
  BY <1>4 DEF ScalarAgreesWithSlots, Registers
<1> QED BY <1>6, <1>7
-----------------------------------------------------------------------------
(***************************************************************************)
(* What the group agrees on stays agreed on, whichever work-items run next *)
(* and whatever stores they leave out.                                     *)
(***************************************************************************)

\* What work-item w holds in v once it has run the region.
After(w, v) ==
  IF v \in kernel.def[region]
  THEN ValueOf(kernel.src[region][v], w, Priv[w], arg)
  ELSE Priv[w][v]

LEMMA PendingAgree ==
  ASSUME TypeOK, GroupAgrees, region # Exit, NEW v \in kernel.uniform,
         NEW w0 \in WorkItems, NEW w1 \in WorkItems, w1 \in Pending
  PROVE  /\ w0 \in Pending => After(w0, v) = After(w1, v)
         /\ w0 \notin Pending => Priv[w0][v] = After(w1, v)
<1>1. kernel \in Kernels /\ region \in Regions
  BY DEF TypeOK
<1>2. ASSUME w0 \in Pending PROVE After(w0, v) = After(w1, v)
  <2>1. \A u \in kernel.uniform : Priv[w0][u] = Priv[w1][u]
    BY <1>2 DEF GroupAgrees
  <2>2. CASE v \in kernel.def[region]
    <3> DEFINE s == kernel.src[region][v]
    <3>1. s = Arg \/ s \in kernel.uniform
      BY <1>1, <2>2, KernelForm DEF IsSoundlyUniform, IsUniformSource
    <3>2. s # Lid
      BY <1>1, <3>1, KernelFields, NamesAssumption
    <3>3. ValueOf(s, w0, Priv[w0], arg) = ValueOf(s, w1, Priv[w1], arg)
      BY <2>1, <3>1, <3>2 DEF ValueOf
    <3> QED BY <2>2, <3>3 DEF After
  <2>3. CASE v \notin kernel.def[region]
    BY <2>1, <2>3 DEF After
  <2> QED BY <2>2, <2>3
<1>3. ASSUME w0 \notin Pending PROVE Priv[w0][v] = After(w1, v)
  BY <1>3 DEF GroupAgrees, After
<1> QED BY <1>2, <1>3

LEMMA RunAgrees ==
  ASSUME TypeOK, GroupAgrees,
         NEW S, NEW skip \in SUBSET kernel.guarded, Spmd!Run(S, skip)
  PROVE  GroupAgrees'
<1>1. /\ kernel \in Kernels /\ region \in Regions /\ region # Exit
      /\ S \subseteq Pending /\ Pending' = Pending \ S
      /\ UNCHANGED <<kernel, region, arg>>
  BY DEF TypeOK, Spmd!Run
<1>2. ASSUME NEW w \in WorkItems, NEW v \in kernel.uniform
      PROVE  Priv'[w][v] = IF w \in S THEN After(w, v) ELSE Priv[w][v]
  <2>1. v \in Vars /\ v \notin skip
    BY <1>1, KernelFields, KernelForm DEF IsSoundlyUniform
  <2>2. Priv'[w] = IF w \in S
                   THEN Spmd!RunRegion(kernel, region, w, Priv[w], arg, skip)
                   ELSE Priv[w]
    BY DEF Spmd!Run
  <2> QED BY <2>1, <2>2 DEF Spmd!RunRegion, Spmd!ValueOf, ValueOf, After
<1>3. \A w \in WorkItems : w \notin S => Priv'[w] = Priv[w]
  BY DEF Spmd!Run
<1>4. SUFFICES ASSUME NEW v \in kernel.uniform,
                      NEW w0 \in WorkItems, NEW w1 \in WorkItems
               PROVE  /\ (w0 \in Pending' <=> w1 \in Pending')
                           => Priv'[w0][v] = Priv'[w1][v]
                      /\ w0 \notin Pending' /\ w1 \in Pending' =>
                           Priv'[w0][v] =
                             IF v \in kernel.def[region]
                             THEN ValueOf(kernel.src[region][v], w1, Priv'[w1], arg)
                             ELSE Priv'[w1][v]
  BY <1>1 DEF GroupAgrees
<1>5. ASSUME w0 \in Pending' <=> w1 \in Pending'
      PROVE  Priv'[w0][v] = Priv'[w1][v]
  <2>1. (w0 \in Pending <=> w1 \in Pending) => Priv[w0][v] = Priv[w1][v]
    BY DEF GroupAgrees
  <2> QED BY <1>1, <1>2, <1>5, <2>1, PendingAgree
<1>6. ASSUME w0 \notin Pending', w1 \in Pending'
      PROVE  Priv'[w0][v] = IF v \in kernel.def[region]
                            THEN ValueOf(kernel.src[region][v], w1, Priv'[w1], arg)
                            ELSE Priv'[w1][v]
  <2>1. Priv'[w1] = Priv[w1]
    BY <1>1, <1>3, <1>6
  <2>2. Priv'[w0][v] = After(w1, v)
    BY <1>1, <1>2, <1>6, PendingAgree
  <2> QED BY <2>1, <2>2 DEF After
<1> QED BY <1>5, <1>6

LEMMA BarrierAgrees ==
  ASSUME TypeOK, GroupAgrees, NEW r \in Regions \cup {Exit}, Spmd!Barrier(r)
  PROVE  GroupAgrees'
<1>1. /\ kernel \in Kernels /\ kernel' = kernel
      /\ Pending = {} /\ Pending' = IF r = Exit THEN {} ELSE WorkItems
      /\ region' = r
  BY DEF TypeOK, Spmd!Barrier
<1>2. \A v \in kernel.uniform : \A w0, w1 \in WorkItems :
        Priv[w0][v] = Priv[w1][v]
  BY <1>1 DEF GroupAgrees
<1>3. \A v \in kernel.uniform : v \in Vars
  BY <1>1, KernelFields
<1>4. \A w \in WorkItems : Priv'[w] = Spmd!Forget(r, Priv[w])
  BY DEF Spmd!Barrier
<1>5. ASSUME NEW v \in kernel.uniform, NEW w0 \in WorkItems, NEW w1 \in WorkItems
      PROVE  Priv'[w0][v] = Priv'[w1][v]
  <2>1. \A w \in WorkItems :
          Priv'[w][v] = IF r # Exit /\ v \in Spmd!Registers(kernel)
                                    /\ v \in kernel.def[r]
                        THEN None ELSE Priv[w][v]
    BY <1>3, <1>4 DEF Spmd!Forget
  <2> QED BY <1>2, <2>1
<1>6. ~(region' # Exit /\ \E w0, w1 \in WorkItems :
          w0 \notin Pending' /\ w1 \in Pending')
  BY <1>1
<1> QED BY <1>1, <1>5, <1>6 DEF GroupAgrees

LEMMA InitAgrees ==
  ASSUME Init
  PROVE  GroupAgrees
<1>1. Pending = WorkItems /\ Priv = [w \in WorkItems |-> [v \in Vars |-> None]]
  BY InitMaps DEF Spmd!Init
<1>2. \A v \in kernel.uniform : v \in Vars
  BY KernelFields DEF Init
<1> QED BY <1>1, <1>2 DEF GroupAgrees
-----------------------------------------------------------------------------
(***************************************************************************)
(* The two together.                                                       *)
(***************************************************************************)
LEMMA UnchangedAgrees ==
  GroupAgrees /\ UNCHANGED Spmd!vars => GroupAgrees'
BY DEF GroupAgrees, Spmd!vars

LEMMA StepMaps ==
  ASSUME AllKernelsStayTogether, IInv, [Next]_vars
  PROVE  IInv' /\ [Spmd!Next]_(Spmd!vars)
<1> USE DEF IInv
<1>1. TypeOK' /\ PlaceOK'
  BY NextTypeOK
<1>2. CASE Preheader \/ Latch
  <2>1. Pending' = Pending /\ UNCHANGED <<kernel, region, arg, reg, ctx>>
    BY <1>2, PreheaderPending, LatchPending DEF Preheader, Latch
  <2>2. UNCHANGED Spmd!vars /\ ScalarAgreesWithSlots'
    BY <2>1, SilentSteps
  <2> QED BY <1>1, <2>2, UnchangedAgrees
<1>3. ASSUME NEW skip \in SUBSET kernel.guarded, Body(skip)
      PROVE  IInv' /\ Spmd!Next
  <2>1. Spmd!Run({iv}, skip) /\ ScalarAgreesWithSlots'
    BY <1>3, BodyRuns, BodyScalar
  <2>2. GroupAgrees'
    BY <2>1, RunAgrees
  <2> QED BY <1>1, <2>1, <2>2 DEF Spmd!Next, TypeOK
<1>4. ASSUME NEW skip \in SUBSET kernel.guarded, Single(skip)
      PROVE  IInv' /\ Spmd!Next
  <2>1. Spmd!Run(WorkItems, skip) /\ ScalarAgreesWithSlots'
    BY <1>4, SingleRuns
  <2>2. GroupAgrees'
    BY <2>1, RunAgrees
  <2> QED BY <1>1, <2>1, <2>2 DEF Spmd!Next
<1>5. ASSUME NEW r \in Regions \cup {Exit}, Barrier(r)
      PROVE  IInv' /\ Spmd!Next
  <2>1. Spmd!Barrier(r) /\ ScalarAgreesWithSlots'
    BY <1>1, <1>5, BarrierCrossed
  <2>2. GroupAgrees'
    BY <2>1, BarrierAgrees
  <2> QED BY <1>1, <2>1, <2>2 DEF Spmd!Next
<1>6. CASE UNCHANGED vars
  <2>1. Pending' = Pending /\ UNCHANGED <<kernel, region, arg, reg, ctx>>
    BY <1>6 DEF vars, Pending
  <2>2. UNCHANGED Spmd!vars /\ ScalarAgreesWithSlots'
    BY <2>1, SilentSteps
  <2> QED BY <1>1, <2>2, UnchangedAgrees
<1> QED BY <1>2, <1>3, <1>4, <1>5, <1>6 DEF Next, Returned

\* The inductive invariant.
LEMMA Invariance ==
  ASSUME AllKernelsStayTogether
  PROVE  Spec => []IInv
<1>1. Init => IInv
  BY InitTypeOK, InitAgrees, InitMaps DEF IInv
<1>2. IInv /\ [Next]_vars => IInv'
  BY StepMaps
<1> QED BY <1>1, <1>2, PTL DEF Spec

\* Whatever kernel, group size and choice of bare regions: as long as no
\* bare region touches a buffered alloca (AllocasStayTogether), the loops
\* and context arrays run the kernel as OpenCL says, each work-item once per
\* region and on its own variables (buildDWLoopOverRegion,
\* deployRegionContext, performContextBuffering).
THEOREM Refinement ==
  ASSUME AllKernelsStayTogether
  PROVE  Spec => ImplementsSpmd
<1>1. Init => Spmd!Init
  BY InitMaps
<1>2. IInv /\ [Next]_vars => [Spmd!Next]_(Spmd!vars)
  BY StepMaps
<1>3. Spec => []IInv
  BY Invariance
<1> QED BY <1>1, <1>2, <1>3, PTL DEF Spec, ImplementsSpmd, Spmd!Spec

\* What the invariance analysis calls invariant is the same for the whole
\* group at every point of the loops (relied on by isRegionUniform).
THEOREM GroupAgreement ==
  ASSUME AllKernelsStayTogether
  PROVE  Spec => []GroupAgrees
<1>1. IInv => GroupAgrees
  BY DEF IInv
<1>2. Spec => []IInv
  BY Invariance
<1> QED BY <1>1, <1>2, PTL

\* A bare region may read the scalar of a buffered register: it is what
\* every written slot holds (performContextBuffering).
THEOREM ScalarAgreement ==
  ASSUME AllKernelsStayTogether
  PROVE  Spec => []ScalarAgreesWithSlots
<1>1. IInv => ScalarAgreesWithSlots
  BY DEF IInv
<1>2. Spec => []IInv
  BY Invariance
<1> QED BY <1>1, <1>2, PTL
=============================================================================
