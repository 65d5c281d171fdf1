---------------------------- MODULE WorkItemLoop ----------------------------
(***************************************************************************)
(* The work-group function the loop inserter (CondBarrier in               *)
(* LoopInserter.cpp) makes of a kernel, run by the one thread that         *)
(* executes a work-group.  Every region that needs it is wrapped in three  *)
(* do-while loops over get_local_id(2), (1) and (0); a variable that lives *)
(* across a barrier is kept in a context array with one slot per           *)
(* work-item; a region whose instructions are all uniform is left bare and *)
(* runs once for the whole group.                                          *)
(*                                                                         *)
(* The module states that this thread implements SpmdKernel.               *)
(***************************************************************************)
EXTENDS Kernel, Integers

CONSTANTS
  LocalSize,  \* LocalSize[d] = get_local_size(d)
  IntMod      \* the number of values of an i32: 2^32 in the code

Dim == 0 .. 2

ASSUME LocalSizeAssumption == LocalSize \in [Dim -> Nat \ {0}]

\* The work-group size, an i32, bounds the index of a context array.
ASSUME IntModAssumption ==
  /\ IntMod \in Nat \ {0}
  /\ LocalSize[0] * LocalSize[1] * LocalSize[2] < IntMod

WorkItems ==
  {w \in [Dim -> UNION {0 .. LocalSize[d] - 1 : d \in Dim}] :
     \A d \in Dim : w[d] < LocalSize[d]}

VARIABLES
  kernel, region, arg,  \* as in SpmdKernel
  at,    \* where the thread is in the region's loop nest
  dim,   \* the loop that "preheader" or "latch" belongs to
  iv,    \* the induction variables IV0, IV1, IV2
  reg,   \* the scalar of a variable: its register, or its alloca as it was
  ctx    \* ctx[v][i]: slot i of the context array of v

vars == <<kernel, region, arg, at, dim, iv, reg, ctx>>

Values == WorkItems \cup ArgVals \cup {None}

-----------------------------------------------------------------------------
(***************************************************************************)
(* Context arrays.                                                         *)
(***************************************************************************)
Wrap(n) == n % IntMod

\* The number of slots.
Flat3DSize == Wrap(Wrap(LocalSize[2] * LocalSize[1]) * LocalSize[0])

\* A slip: the row stride of the wrong dimension.
FlatIdxWrongStride(w) ==
  Wrap(Wrap(Wrap(Wrap(w[2] * LocalSize[0]) * LocalSize[1])
            + Wrap(w[1] * LocalSize[1])) + w[0])

\* The slot of work-item w.
FlatIdx(w) ==
  Wrap(Wrap(Wrap(Wrap(w[2] * LocalSize[0]) * LocalSize[1])
            + Wrap(w[1] * LocalSize[0])) + w[0])

Slots == 0 .. Flat3DSize - 1

(***************************************************************************)
(* What the pass decides about a kernel.                                   *)
(***************************************************************************)
\* Every instruction of the region is invariant.  A store is as invariant
\* as the value it stores, an alloca as the values stored to it.
IsRegionUniform(k, r) ==
  /\ r \notin k.varying
  /\ \A v \in k.def[r] : IsUniformSource(k, k.src[r][v])
  /\ \A v \in k.private \ k.uniform : k.home[v] # r

\* The regions that get a loop nest.
PR(k) == {r \in Regions : ~IsRegionUniform(k, r)}

\* A slip: registers of a looped region are not buffered.
BufferedAllocas(k, v) == k.home[v] \in PR(k) /\ v \in k.private

\* The variables that get a context array: the allocas of a looped region,
\* and its registers that another looped region reads.
Buffered(k, v) ==
  /\ k.home[v] \in PR(k)
  /\ \/ v \in k.private
     \/ \E r \in PR(k) \ {k.home[v]} : v \in Reads(k, r)

\* What the pass takes for granted: an alloca that got a context array is
\* not touched by a bare region, whose instructions keep using the old
\* alloca, and one that got none is not stored to by a looped region.
AllocasStayTogether(k) ==
  \A v \in k.private : \A r \in Regions :
    /\ k.home[v] \in PR(k) /\ v \in k.def[r] \cup Reads(k, r) => r \in PR(k)
    /\ k.home[v] \notin PR(k) /\ v \in k.def[r] => r \notin PR(k)

-----------------------------------------------------------------------------
TypeOK ==
  /\ kernel \in Kernels
  /\ region \in Regions \cup {Exit}
  /\ arg \in ArgVals
  /\ at \in {"preheader", "body", "latch", "single", "barrier"}
  /\ dim \in Dim
  /\ iv \in WorkItems
  /\ reg \in [Vars -> Values]
  /\ ctx \in [Vars -> [Slots -> Values]]

\* Where the code of a region starts.
Start(k, r) ==
  IF r = Exit THEN "barrier"
  ELSE IF r \in PR(k) THEN "preheader" ELSE "single"

Init ==
  /\ kernel \in Kernels
  /\ region = kernel.entry
  /\ arg \in ArgVals
  /\ at = Start(kernel, region)
  /\ dim = 2
  /\ iv = [d \in Dim |-> 0]
  /\ reg = [v \in Vars |-> None]
  /\ ctx = [v \in Vars |-> [i \in Slots |-> None]]

\* The header of loop d, left for the loop inside it or for the region.
EnterLoop(d, i) ==
  /\ iv' = [iv EXCEPT ![d] = i]
  /\ at' = IF d = 0 THEN "body" ELSE "preheader"
  /\ dim' = IF d = 0 THEN 0 ELSE d - 1

\* Slips: the increment lost, one turn too many.
NoIncrement(i) == Wrap(i)
OneTurnMore(inc, d) == inc <= LocalSize[d]

\* The latch adds one to IV and goes back to the header if the sum is below
\* the local size (an unsigned comparison).
Increment(i) == Wrap(i + 1)
GoesOn(inc, d) == inc < LocalSize[d]

Preheader ==
  /\ at = "preheader"
  /\ EnterLoop(dim, 0)
  /\ UNCHANGED <<kernel, region, arg, reg, ctx>>

\* Slips: a use left with the scalar, a store to the slot forgotten.
ScalarReload(v, slot) == reg[v]
NoContextStore(v, slot, value) == ctx[v]

\* Every use of a buffered variable has become a use of its slot, every
\* definition is followed by a store to it.
ContextReload(v, slot) == IF Buffered(kernel, v) THEN ctx[v][slot] ELSE reg[v]
ContextStore(v, slot, value) == [ctx[v] EXCEPT ![slot] = value]

\* The blocks of a looped region, run for the work-item iv.  A buffered
\* alloca is nothing but its slots, a buffered register is a scalar too.
Body(skip) ==
  LET slot   == FlatIdx(iv)
      env    == [v \in Vars |-> ContextReload(v, slot)]
      new    == RunRegion(kernel, region, iv, env, arg, skip)
      stored == kernel.def[region] \ skip
  IN
  /\ at = "body"
  /\ ctx' = [v \in Vars |-> IF v \in stored /\ Buffered(kernel, v)
                            THEN ContextStore(v, slot, new[v])
                            ELSE ctx[v]]
  /\ reg' = [v \in Vars |->
               IF v \in stored /\ ~(Buffered(kernel, v) /\ v \in kernel.private)
               THEN new[v] ELSE reg[v]]
  /\ at' = "latch"
  /\ dim' = 0
  /\ UNCHANGED <<kernel, region, arg, iv>>

\* The latch of a loop goes back to the header or on to the latch of the
\* loop around this one.
Latch ==
  LET inc == Increment(iv[dim])
  IN
  /\ at = "latch"
  /\ \/ /\ GoesOn(inc, dim)
        /\ EnterLoop(dim, inc)
     \/ /\ ~GoesOn(inc, dim)
        /\ at' = IF dim = 2 THEN "barrier" ELSE "latch"
        /\ dim' = IF dim = 2 THEN 2 ELSE dim + 1
        /\ UNCHANGED iv
  /\ UNCHANGED <<kernel, region, arg, reg, ctx>>

\* A bare region runs once, and its instructions are left as they were.
Single(skip) ==
  /\ at = "single"
  /\ reg' = RunRegion(kernel, region, iv, reg, arg, skip)
  /\ at' = "barrier"
  /\ UNCHANGED <<kernel, region, arg, dim, iv, ctx>>

\* The block of the erased barrier, between two regions.
Barrier(r) ==
  /\ at = "barrier"
  /\ region # Exit
  /\ r \in kernel.next[region]
  /\ region' = r
  /\ at' = Start(kernel, r)
  /\ dim' = 2
  /\ arg' \in ArgVals
  /\ UNCHANGED <<kernel, iv, reg, ctx>>

Returned ==
  /\ region = Exit
  /\ UNCHANGED vars

Next ==
  \/ Preheader
  \/ \E skip \in SUBSET kernel.guarded : Body(skip)
  \/ Latch
  \/ \E skip \in SUBSET kernel.guarded : Single(skip)
  \/ \E r \in Regions \cup {Exit} : Barrier(r)
  \/ Returned

Spec == Init /\ [][Next]_vars

\* The thread keeps running until the kernel returns.
FairSpec == Spec /\ WF_vars(Next)

-----------------------------------------------------------------------------
(***************************************************************************)
(* The refinement mapping.                                                 *)
(***************************************************************************)
\* a and b are the same, or a comes before b, in the loops from d outwards.
SameFrom(a, b, d) == \A e \in Dim : e >= d => a[e] = b[e]

BeforeFrom(a, b, d) ==
  \E e \in Dim : /\ e >= d
                 /\ a[e] < b[e]
                 /\ \A f \in Dim : f > e => a[f] = b[f]

\* The work-items the loops have not come to, read off the loops' state.
Pending ==
  CASE at = "preheader" ->
         {w \in WorkItems : SameFrom(iv, w, dim + 1)
                            \/ BeforeFrom(iv, w, dim + 1)}
    [] at = "body"    -> {w \in WorkItems : w = iv \/ BeforeFrom(iv, w, 0)}
    [] at = "latch"   -> {w \in WorkItems : BeforeFrom(iv, w, dim)}
    [] at = "single"  -> WorkItems
    [] at = "barrier" -> {}

\* A work-item's variables: its slots, or the scalar all share.  The
\* registers of this region are dead until the work-item has run it.
Priv ==
  [w \in WorkItems |-> [v \in Vars |->
     IF /\ region # Exit
        /\ v \in Registers(kernel) /\ v \in kernel.def[region]
        /\ w \in Pending
     THEN None
     ELSE IF Buffered(kernel, v) THEN ctx[v][FlatIdx(w)] ELSE reg[v]]]

Spmd == INSTANCE SpmdKernel WITH pending <- Pending, priv <- Priv

-----------------------------------------------------------------------------
\* The coarsened kernel is the kernel: each work-item runs each region once
\* per visit, on its own variables, and the group moves on together.
\* (buildDWLoopOverRegion, FlatIdx and the context arrays together.)
ImplementsSpmd == Spmd!Spec

\* The slot a looped region uses exists (getContextReplacementOf sizes the
\* array, the loops and FlatIdx choose the slot).
SlotInBounds == at = "body" => FlatIdx(iv) \in Slots

\* Work-items that have both run the region, or both not, hold the same
\* value in an invariant variable; one that has run it holds what it would
\* give the others (TripletInvarianceAnalysis::isUniform, relied on by
\* isRegionUniform).
GroupAgrees ==
  \A v \in kernel.uniform : \A w0, w1 \in WorkItems :
    /\ (w0 \in Pending <=> w1 \in Pending) => Priv[w0][v] = Priv[w1][v]
    /\ region # Exit /\ w0 \notin Pending /\ w1 \in Pending =>
         Priv[w0][v] = IF v \in kernel.def[region]
                       THEN ValueOf(kernel.src[region][v], w1, Priv[w1], arg)
                       ELSE Priv[w1][v]

\* A bare region reads the scalar of an invariant register of a looped
\* region, other looped regions read its slots: a work-item's slot, once
\* written, holds what the scalar holds (performContextBuffering leaves the
\* uses outside the looped regions alone).
ScalarAgreesWithSlots ==
  \A v \in Registers(kernel) \cap kernel.uniform : \A w \in WorkItems :
    /\ Buffered(kernel, v)
    /\ region # Exit /\ v \in kernel.def[region] => w \notin Pending
    => ctx[v][FlatIdx(w)] = reg[v]

\* The loops around a region end, and the barrier after it is reached.
RegionEnds == at # "barrier" ~> at = "barrier"
=============================================================================
