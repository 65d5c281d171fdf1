--------------------------- MODULE MCWorkItemLoop ---------------------------
(***************************************************************************)
(* Kernels and group sizes for checking WorkItemLoop.                      *)
(***************************************************************************)
EXTENDS WorkItemLoop, TLC

MCRegions == {"r1", "r2", "r3"}
MCVars == {"x", "y", "c", "z"}

Size232 == (0 :> 2) @@ (1 :> 3) @@ (2 :> 2)
Size212 == (0 :> 2) @@ (1 :> 1) @@ (2 :> 2)

\* A kernel from its parts: code[r] maps what region r assigns to its source.
MakeKernel(next, code, home, private, guarded, uniform, varying) ==
  [ entry   |-> "r1",
    next    |-> next,
    def     |-> [r \in MCRegions |-> DOMAIN code[r]],
    src     |-> [r \in MCRegions |-> code[r] @@ [v \in MCVars |-> Arg]],
    home    |-> home @@ [v \in MCVars |-> "r1"],
    private |-> private,
    guarded |-> guarded,
    uniform |-> uniform,
    varying |-> varying ]

Chain == [r1 |-> {"r2"}, r2 |-> {"r3"}, r3 |-> {Exit}]
Loop  == [r1 |-> {"r2"}, r2 |-> {"r3"}, r3 |-> {"r2", Exit}]

\* Three looped regions; x and y are handed on through slots.
Straight ==
  MakeKernel(Chain,
    [r1 |-> [x |-> Lid, c |-> Lid], r2 |-> [y |-> "x", c |-> Arg],
     r3 |-> [c |-> "y", z |-> "c"]],
    [y |-> "r2"], {"c", "z"}, {}, {}, {})

\* A barrier loop in which some work-items update c and the others do not.
Diverging ==
  MakeKernel(Loop,
    [r1 |-> [x |-> Lid, c |-> Arg], r2 |-> [y |-> "c", z |-> "x"],
     r3 |-> [c |-> "x", z |-> "y"]],
    [y |-> "r2"], {"c", "z"}, {"c"}, {}, {})

\* A bare region between looped ones reads and defines invariant registers.
BareInLoop ==
  MakeKernel(Loop,
    [r1 |-> [x |-> Arg, z |-> Lid], r2 |-> [y |-> "x"],
     r3 |-> [c |-> "y", z |-> "x"]],
    [y |-> "r2"], {"c", "z"}, {}, {"x", "y", "c"}, {"r1", "r3"})

\* An invariant alloca of a bare entry region, stored to by a bare latch
\* and read by a looped region.
BareEntry ==
  MakeKernel(Loop,
    [r1 |-> [c |-> Arg], r2 |-> [x |-> "c", z |-> Lid],
     r3 |-> [c |-> "x"]],
    [x |-> "r2", z |-> "r2"], {"c", "z"}, {}, {"c", "x", "y"}, {"r2"})

\* A flag, set from the work-item's id, is cleared by all at the end of the
\* first turn of a barrier loop: the region that clears it stays bare, the
\* flag's alloca is in a looped one.
BareStore ==
  MakeKernel(Loop,
    [r1 |-> [c |-> Lid], r2 |-> [z |-> "c"], r3 |-> [c |-> Arg]],
    <<>>, {"c", "z"}, {}, {}, {})

MCKernels == {Straight, BareInLoop, BareEntry}
MCDiverging == {Diverging}
MCSmall == MCKernels \cup MCDiverging
MCBareStore == {BareStore}

\* The kernels the implementation is claimed for do keep what the pass
\* takes for granted, and the one it is refuted for does not.
ASSUME KernelsFit ==
  /\ \A k \in MCKernels \cup MCDiverging : AllocasStayTogether(k)
  /\ ~AllocasStayTogether(BareStore)
=============================================================================
