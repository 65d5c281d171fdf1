----------------------------- MODULE SpmdKernel -----------------------------
(***************************************************************************)
(* What an OpenCL work-group promises its programmer, and what the         *)
(* coarsening passes have to preserve: every work-item runs the current    *)
(* region once, in any order and on its own variables, and nobody enters   *)
(* the next region before all have reached the barrier.                    *)
(***************************************************************************)
EXTENDS Kernel

CONSTANT WorkItems  \* the ids of the work-items of one work-group

VARIABLES
  kernel,     \* the kernel that runs
  region,     \* the region the work-group is in, or Exit
  pending,    \* the work-items that have not yet run this region
  priv,       \* priv[w][v]: the value of v in work-item w
  arg         \* the group-wide value read in this region

vars == <<kernel, region, pending, priv, arg>>

Values == WorkItems \cup ArgVals \cup {None}

TypeOK ==
  /\ kernel \in Kernels
  /\ region \in Regions \cup {Exit}
  /\ pending \in SUBSET WorkItems
  /\ priv \in [WorkItems -> [Vars -> Values]]
  /\ arg \in ArgVals

Init ==
  /\ kernel \in Kernels
  /\ region = kernel.entry
  /\ pending = WorkItems
  /\ priv = [w \in WorkItems |-> [v \in Vars |-> None]]
  /\ arg \in ArgVals

\* The work-items in S run the region, all of them leaving out the same
\* stores; none of them has run it before.
Run(S, skip) ==
  /\ region # Exit
  /\ S \subseteq pending
  /\ priv' = [w \in WorkItems |->
                IF w \in S
                THEN RunRegion(kernel, region, w, priv[w], arg, skip)
                ELSE priv[w]]
  /\ pending' = pending \ S
  /\ UNCHANGED <<kernel, region, arg>>

\* On entry to a region the registers it defines are dead: SSA form gives
\* them a new value before any use.
Forget(r, p) ==
  [v \in Vars |-> IF r # Exit /\ v \in Registers(kernel) /\ v \in kernel.def[r]
                  THEN None ELSE p[v]]

\* The barrier: all have arrived, and all go on to the same region.
Barrier(r) ==
  /\ region # Exit
  /\ pending = {}
  /\ r \in kernel.next[region]
  /\ region' = r
  /\ pending' = IF r = Exit THEN {} ELSE WorkItems
  /\ priv' = [w \in WorkItems |-> Forget(r, priv[w])]
  /\ arg' \in ArgVals
  /\ UNCHANGED kernel

Next ==
  \/ \E skip \in SUBSET kernel.guarded :
       \/ \E w \in WorkItems : Run({w}, skip)
       \/ Run(WorkItems, skip)
  \/ \E r \in Regions \cup {Exit} : Barrier(r)

Spec == Init /\ [][Next]_vars
=============================================================================
