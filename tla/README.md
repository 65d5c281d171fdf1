# VariOCL in TLA+

VariOCL is a set of LLVM passes that turn an OpenCL kernel, written for one
work-item, into a function that one CPU thread runs for a whole work-group.
Barriers cut the kernel into *parallel regions*; each region is wrapped in loops
over the local ids, and values that live from one region to the next move into
*context arrays* with a slot per work-item. No two work-items ever run at the
same time, so nothing here locks or sends: what is hard is that the program must
behave as if they did. Every pass is a rewriting step whose assumptions an
earlier pass has to establish, and a kernel of an unforeseen form makes one of
them silently wrong.

Beside the passes stand two analyses of an earlier pipeline, and three tools
that tell a runtime what kernels a module has and how to call them.

This directory holds a model of the pipeline, of those analyses and of the tools, the
configurations that check it with TLC, and machine-checked proofs about the generated
code, the isolation of barriers, the walk to a barrier's branch, both analyses, the
metadata reader and the generated calls.

## 1. Inventory

The live pipeline is the `opt` command of `drive_standlone_tests.sh:110`: LLVM's
mem2reg, mergereturn, globaldce, simplifycfg and loop-simplify, then the
repository's passes in the order of the table. They do not call one another (but
for analyses a pass requires); their only shared state is the function.

| Component | State it keeps | Operations | What makes it correct |
|---|---|---|---|
| `BreakConstantGEPs`, `inline_devicefn`, `split_bb_at_condbr`, `barrier_deleter`, `test_modifier` | none | one rewrite per instruction | not modelled: single local rewrites |
| `break_phi_to_alloca` | `UnbreakablePHIs`, the allocas it made | splits a block that decides about a barrier in front of its branch, and sinks what the branch does not hang on; replaces a PHI by stores in the predecessors and a load | a path reads what the PHI would have been; the set does not outlive a function; only the decision stays in front |
| `IsolateRegions` | the region tree (LLVM) | a dummy block in front of each region's exit and behind its entry | the control flow stays; dummy blocks are places for barriers |
| `control_dependence`, `ImplicitCdgBarriers` | control-dependence graph, its closure and the reverse of both | barriers at both ends of every block that a barrier's execution hangs on, and at its successors | a branch that decides about a barrier is in a region of its own |
| `ImplicitConditionalBarriers` | list of conditional barriers; position of a walk | walks up from a conditional barrier to its branch and puts a barrier there | the walk ends inside the function, at that branch |
| `LoopBarriers` | one loop at a time, inner first | barriers in preheader, exiting block and latch of a loop with barriers; a split in front of one without | no region crosses a loop's boundary |
| `ImplicitLoopBarriers` | one loop at a time | barriers in loops, as pocl has them | loaded by the script, not run |
| `BarrierTailReplication` | visited and processed blocks, dominator tree rebuilt on the way | copies what can be reached both from a barrier and around it | one barrier leads into each region, paths stay |
| `hive_off_barrier` | `BarrierSet`, a pointer set | splits blocks so that every barrier is alone | independent of the order of the set, nothing lost |
| `triplet_invariance_analysis` | a verdict per value: the dimensions of the local id it hangs on; colours that cut cycles | depth-first over operands, through memory at allocas; marks headers and latches of loops in advance | an invariant value is the same for the whole group; the recursion ends |
| `LoopInserter` (`CondBarrier`) | `ExitBlocks`, `VisitedBarriers`, `PRVector`, the context arrays by name | gathers regions, decides which need a loop, builds the loops, buffers values and allocas, erases barriers | the function does for the group what the kernel does for each work-item |
| `ControlDependence` | the blocks each block's execution hangs on | post-dominance, block against block | not run by the script; control dependence as its comment defines it |
| `ThreadInvariance`, `OpenClAl` | a verdict per value: local, group and global id, three axes, per vector lane; a work list of blocks | a visitor per class of instruction; queues the blocks of users whose verdict changed | not run by the script; verdicts final when the list is empty, whatever its order, and no dependence missed |
| `context_spill` | `Lsz`, `Flat3DSize`, a work list | gives every value that outlives its block, and every PHI, a slot per work-item | not run by the script; work-items may take turns between any two blocks |
| `kernel_info_reader` (`CL_KernelInfo`), `kernel_info` | lists that are flat over all kernels; global arrays | reads clang's metadata node by node; writes the lists into arrays | the runtime finds argument *i* of kernel *k* by counting |
| `kernel_link` | the functions it generates: `kernel_set_arguments`, `kernel_launch`, `dev_entry`, `kernel_fini`; per core and kernel a `tlb_function` | copies arguments out of a block the runtime packed; calls the kernel once per work-group | each core calls what it was asked for, with that dispatch's arguments |
| scripts, `Tests`, `CommonTests` | | run clang, opt, compare outputs | the shapes of kernels are used here |

How they interact: barriers placed by an early pass are all a later pass knows
of the earlier one's intention. `LoopInserter` takes for granted that every
barrier has a block of its own and one predecessor, that a region is entered from one
barrier and left to one, and that a region it leaves without loops shares no
storage with one it wraps. Each of these is an assertion or nothing at all in
the C++ code.

Where it is hard:

- **order**: sets of pointers and use lists are walked in the order of
  addresses or uses (`hive_off_barrier.cpp:103`, `LoopInserter.cpp:251`);
- **rewriting while walking**: the exit scan of the hive-off pass, tail replication
  and the loop builder work on the graph they are changing;
- **protocol between passes**: a missing barrier three passes earlier shows as a
  region with two entries, or as two work-item loops sharing a block;
- **interleaving**: the SPMD kernel lets work-items run in any order, the
  coarsened one fixes it; a value kept in one scalar instead of a slot is seen
  by the next work-item;
- **arithmetic**: three strides, i32 wrap-around and do-while loops built by hand;
- **fixed points**: verdicts are met, joined or replaced by visitors in an order
  that hangs on addresses, and a block is queued again only for some changes;
- **cores** run the generated calls at once on one pool, dispatch after dispatch.

`PROJECT.json` lists these hazards one by one, with the line where each bites
and the properties that cover it.

## 2. Modules

    Kernel ─── SpmdKernel                       Cfg ─── SpmdCfg
       │           │ refined by                  │          │ simulated by
       └── WorkItemLoop ── WorkItemLoop_proofs   ├ BarrierPlacement ┐
                │                                ├ BarrierTails ────┼─ Coarsening
           MCWorkItemLoop                        └ ParallelRegions ─┘      │
                                                      MCKernels ── MCCoarsening
    HiveOffBarrier ─┬─ MCHiveOffBarrier
                    └─ HiveOffBarrier_proofs      Cfg ── TripletInvariance ── MCTripletInvariance

    Cfg_proofs ─┬─ BarrierPlacement_proofs        (also extends BarrierPlacement)
                ├─ Invariance_proofs              (also extends TripletInvariance, InvarianceLattice)
                └─ PhiToMemory_proofs             (also extends PhiToMemory)

    Cfg ── SsaForm ── PhiToMemory ── MCPhiToMemory
    InvarianceLattice ── ThreadInvariance ── MCThreadInvariance
    KernelArgs ─┬─ KernelLaunches
                │      │ refined by
                └─ KernelLink ─┬─ KernelLink_proofs      KernelInfo ─┬─ KernelInfo_proofs
                               └─ MCKernelLink                       └─ MCKernelInfo

**Data side.** `Kernel` is a kernel as `LoopInserter` sees it once its regions
are known: which region assigns which variable from what. `SpmdKernel` is the
promise: work-items run the current region in any order, on their own
variables, and pass the barrier together. `WorkItemLoop` is the code that is
generated: three nested do-while loops with `IV0..IV2`, `FlatIdx` in wrapping
arithmetic, context arrays, bare regions, erased barriers. Its variables are those of
the generated function (`iv`: the induction variables; `reg`: scalars; `ctx`: the
arrays; `at`/`dim`: where in the nest the thread is), and its definitions `PR`,
`Buffered` and `IsRegionUniform` are the decisions of
`createParallelRegionLoops`, `performContextBuffering` and `isRegionUniform`.
The refinement mapping reads the set of work-items still to come off the loop
counters (`Pending`) and a work-item's variables off its slots (`Priv`).

**Control side.** `Cfg` is control-flow graphs and the analyses of LLVM the passes ask
for: dominance, post-dominance, frontiers, natural loops, regions, splitting.
`BarrierPlacement` has the passes from the split and sink of `mxpa_IPBreakPhi` to `loop-barriers`: `pass` is the one that
runs, `todo` what it has collected (controllers, regions, barriers, loops), and an action is one round of its loop or the
hand-over to the next pass. Regions and loops come inner ones first, as LLVM's managers have it. `BarrierTails` is the replication, `ParallelRegions` the
backward search for regions, and `Coarsening` puts them in the script's
order, cuts blocks at their barriers, wraps loops around the regions that vary,
and lets the thread run the result. `SpmdCfg` is what that thread must imitate:
work-items that walk the graph by themselves and wait for one another at
barriers.

`HiveOffBarrier` has the hive-off pass instruction by instruction, with the set
of barriers in any order; `Coarsening` uses the outcome, which that module shows to be
the same up to empty blocks.

`TripletInvariance` is `getOrCalculateTriplet` with its recursion as a stack: `tc`
is the cache `TC`, `grey` the colours, `next` the loop of `runOnFunction`. A
triplet is the set of dimensions that are `kNonInvariant`. An action is a step
between two nested calls, so every order of an alloca's use list is a
behaviour. Its reference, `Varies`, is the union over all that a value's data
comes from, which takes no account of order or cycles.

`SsaForm` is functions with PHIs, and what a block computes; `PhiToMemory` has
the two passes that move values to memory. `mxpa_BreakPhi` collects the PHIs
that branches hang on, takes one controller after another in any order and
sinks its instructions one by one, and breaks what PHIs are left
(`CollectUnbreakablePHIs`, `SinkController`, `MoveInst`, `FindBreakable`,
`BreakPhi2Alloca`); `context_spill` takes one value and then one PHI at a time from its work lists. Then the
result runs next to the function it was made from, along any path; the
work-items of a spilled function take turns block by block and find the
registers empty each time. Reloads carry the name of the value they stand for,
which is what the comparison is made by.

`InvarianceLattice` is the verdicts of `ThreadInvariance.cpp` with `meet` and `join`;
`ThreadInvariance` is the analysis: `variances` and `blockVariances` are its maps, `queue` the work list, `here` and `pos` the
place in the block being visited, and an action is one visit, with all it queues. Its reference is
`Dependents`: the values that hang on an id by data; by memory, whose content hangs on what is stored and on
the branches the stores are under; at a PHI, by the branches whose paths meet there; or, behind a
loop, by those that end it.

`KernelLink` is the generated functions, as the cores run them one argument at a
time; `KernelLaunches` is what the runtime asked for: per dispatch, so many work-groups, each with one call of
that kernel with that dispatch's arguments. `KernelArgs` holds what both sides know of the layout.
`KernelInfo` is the reader and the writer: an action per metadata node,
its lists as in `CL_KernelInfo`, and an abort where `at` would throw. `Arguments` and `Names` are what clang's metadata
can say; the bounds of a run are those of its set `Kernels`.

Definitions named as slips (`NoContextStore`, `ForwardControllers`, ...) stand beside
the definition they are a wrong version of; no specification uses them. They
are the mutants of `PROJECT.json`: each breaks the property it is listed with.

## 3. What is checked

| Run | Bounds | Shows |
|---|---|---|
| `loops` | group of 2 x 3 x 2, three kernels of 3 regions and 4 variables, 2 group-wide values | the generated loops and arrays implement `SpmdKernel`; `GroupAgrees`, `ScalarAgreesWithSlots`, `SlotInBounds`, types |
| `small_group` | 2 x 1 x 2, four kernels, fair | the same where each work-item may or may not take the branch that stores; the loops around a region end (`RegionEnds`) |
| `bare_store` | 2 x 1 x 2 | **refuted**: see section 6 |
| `hive_off` | all functions of one or two blocks, up to 3 instructions before a terminator | barriers end up isolated, in any order, with the same result, and the scan ends |
| `coarsening` | 19 kernels, group of 2 | the control flow the passes make is the work-group's; paths are preserved; the regions found cover the kernel once and can be wrapped; barriers stay within reach of the entry (`BarriersReachable`); loops keep their preheaders (`PreheadersExist`) and the walk to a branch finds predecessors (`NoNullPredecessor`); what is marked invariant unseen (`MarksAreTrue`) holds no variant code |
| `triplets` | all functions of 3 instructions behind 2 scalars (one of which calls may get the address of), an array and an id, each without marks and with one | the recursion is cut at allocas (`AllocasEnteredOnce`); verdicts of values that are not made of themselves are exact (`VerdictExact`) |
| `stepping_index` | one loop with a sum and a stepping index | **refuted**: see section 6 |
| `phi_to_memory` | 4 kernels of 3 to 6 blocks, values modulo 3, two work-items of a group of 2 x 3 x 2 for spilling | along every path each value is what it was (`ValuesPreserved`); PHIs that stay are in front of all loads (`PhisInFront`); nothing crosses a block of a spilled kernel but through a slot (`NothingEscapes`) |
| `thread_invariance` | 18 functions of up to 4 blocks | the list runs empty (`Terminates`); verdicts are then final (`Settled`), the ids a value hangs on are in its verdict (`CoversDependences`), and none is there for nothing (`VariantIsDependent`); verdicts only sink on the way (`VerdictsSink`) |
| `nested_branches` | one function | **refuted**: see section 6 |
| `kernel_link` | 2 cores, 2 kernels, a kernel number of neither, 2 blocks of 5 bytes, up to 2 work-groups a dispatch | the generated calls implement `KernelLaunches`; no read leaves the block |
| `kernel_info` | 1 or 2 kernels of up to 2 arguments, 6 sets of attributes | flat arrays give back each kernel's arguments and sizes (`ArgumentsRebuilt`, `SizesRebuilt`) |

Why the bounds are enough for what they are about:

- 2 x 3 x 2 has a middle size that differs from the others, so that a wrong stride collides
  or leaves the array; two ids per dimension suffice to take every branch of a
  latch. `IntMod` is 32, above the group size as `IntModAssumption` says; the proofs have every size.
- Two group-wide values tell a value read once from one read again. Three regions
  are the fewest with a bare region between looped ones in a barrier loop.
- Three instructions before a terminator give every pattern of barriers next to one another, to code and to
  either end of a block; a fourth only repeats one. Two blocks are
  needed since only the first is an entry and only some return.
- `BarrierRun` keeps at most two of several barriers in a row: passes only ask whether a
  block is *just* a barrier, starts, or ends with one.
- The hive-off pass leaves an empty block between two neighbouring barriers in
  one order and not in another; in `Coarsening` all such gaps are there or none.
- A group of two has a first and a last work-item, one running and one waiting. The three loops are one there.
- The kernels are structured programs, compiled to the graphs that the LLVM
  passes before leave, with PHIs left out and a branch computed at its block's end, as
  clang emits it. Among them are the shapes of `Tests/forifbarrier1.cl`, `ms51`, `natlop_2exits` and `kernel_26ab1acf...`,
  with barriers first and last in loops, loops with breaks and returns,
  conditional barriers in and outside loops, and divergent branches and loops
  without barriers. Its third case (a `continue` next to a divergent
  inner loop) holds too, but alone takes longer than all the others and is left out.

The properties were used the other way round, too: dropping the barriers one pass
adds and running again shows what each is for. Dummy blocks
and the barriers at a controller's end, and the closure of control dependence, are needed by
`EveryRegionWrappable`; the preheader and latch barriers and the split in front of barrier-free loops
by `SearchStartsAtBarriers`; the reverse dependence by `StepsAreSpmd`. No
kernel of the run needs the implicit conditional barriers, nor those at a
controller's successors.

- Three instructions are the fewest with a value stored to one scalar that
  is loaded from another, whose users include that load and a store: every cut of a
  cycle then happens (each disjunct of `AskUser` and both branches of `AskOperand`). The array is reached through
  pointers computed from it, as clang emits it, and a scalar that is used is stored to
  somewhere: for one that is only loaded the code reads `VT[0]` of an empty vector.

- Values modulo 3 with a function that tells arguments and their order apart are enough for a wrong one to show: a
  value read a turn late, from another place or from another work-item differs somewhere along the run. The kernels
  have a swap in a loop of one block, a branch that hangs on PHIs through others, a PHI nothing uses, a join that is a direct successor
  of the branch, and a loop in a loop whose PHIs feed each other. Spilled work-items meet only in a slot both
  use, so two of the group run at a time (the constraint `TwoRun`) and the others have not begun: in `Swap` four pairs, chosen so that a stride of `FlatIdx`
  with a size left out, or with the middle size in another's place or another in its, leaves the array or gives a pair one slot (the
  first and the third size are the same); in the
  other kernels, which have more states, one pair.
- The 18 functions have one diamond, loop, do-loop, or store each, with a uniform and a
  variant choice at each place where a verdict can come from; two interleaved ones add nothing, for the list
  knows only blocks. `CoversDependences` is not true of every function: the seven forms the run leaves out for
  that are listed in section 6, each with functions in `MCThreadInvariance` that break it. Of shuffles the run has a splat and a mask with
  an undefined lane; other masks break `VariantIsDependent` as well. A store under a branch that varies with an id stores a value that does, too.
- A scalar of 1 byte, one of 2 and a pointer of 4 make offsets differ from indices; the third
  dispatch on a core is like the second, which already finds an old structure.
- Two kernels suffice for an entry that lands at the wrong kernel; a kernel of two arguments next
  to one of none or one for a shift by the wrong count.

`PathsPreserved` compares with the kernel in which what decides about a barrier comes
first in its block (`ConditionsFirst`): that is the one reordering
`mxpa_IPBreakPhi` makes, and no pass may make another.

`SpmdCfg` allows any work-item to run ahead to the next barrier, one at a time where code
varies and together where it does not. `StepsAreSpmd` says that the first state of the thread's run and
every step of it map to such a start and step; it is stated over steps because the
passes that come first change the graph.

**Fairness.** `small_group` assumes `WF_vars(Next)` of the generated function: the
thread that runs it is not stopped. `thread_invariance` assumes the same of `Build`, a
sequential `while` loop: as long as the list is not empty the next visit happens. Nothing competes with either.
No fairness is assumed anywhere else.

**Deadlock** is checked in every run; a function that has returned stutters explicitly (`Returned`, `Done`).

## 4. What is proved

### The generated loops

`WorkItemLoop_proofs`, for every kernel, group size and number of bits:

| Theorem | Says |
|---|---|
| `SlotsDistinct` | `FlatIdx` is injective on work-items |
| `TypeCorrect` | types, and the thread is in a loop nest exactly in regions that have one |
| `SlotsInBounds` | a looped region only uses slots its arrays have |
| `Refinement` | the generated code implements `SpmdKernel` |
| `GroupAgreement` | the group agrees on every invariant variable, whatever ran before |
| `ScalarAgreement` | the scalar a bare region reads is what the slots hold |

They rest on assumptions, each named in the module that declares it:

- `NamesAssumption`: the names are distinct;
- `KernelsAssumption`: kernels are in SSA form and the invariance analysis is
  sound for them. That is LLVM's and the analysis' promise, taken here;
- `LocalSizeAssumption`, `IntModAssumption`: sizes are positive and the group size fits an i32;
- `AllKernelsStayTogether`, of the last three only: no bare region touches an alloca that got
  a context array. The code takes this for granted without checking; section 6.

The inductive invariant is

    IInv == TypeOK /\ PlaceOK /\ GroupAgrees /\ ScalarAgreesWithSlots

`ImplementsSpmd` is not provable step by step from types alone. A bare region runs its code once, on the scalars;
that is a step of the whole group only if all work-items would compute the same,
hence `GroupAgrees`, which also has to speak of the middle of a region, where some
work-items have run and others not: it relates one that has to what the other is
about to compute. A bare region may read a buffered register through its
scalar, hence `ScalarAgreesWithSlots`. A looped body needs neither, but that
no two work-items share a slot, which is `SlotsDistinct`: mixed-radix digits,
after `FlatIdxExact` has shown that nothing wraps. That the loops visit each
work-item once is the lemmas `PreheaderPending`, `LatchPending` and
`BodyPending`: control steps of the nest leave `Pending` alone, the body takes one
work-item out. `StepMaps` has one step per action and puts them together.

### The isolation of barriers

`HiveOffBarrier_proofs`, for every function and every order of `BarrierSet`:

| Theorem | Says |
|---|---|
| `HiveOffTypeCorrect` | a terminator at the end of each block and nowhere else; `BarrierSet` holds barriers of the function |
| `HiveOffIsolation` | in the end each barrier is alone in its block, and the entry and every exit are such blocks |
| `HiveOffEmptyLeads` | a block left empty leads, through empty blocks, to a barrier block |
| `HiveOffScanEnds` | the scan for exits cuts each exit once and no block it makes, so it ends |
| `HiveOffCanonical` | in the end all instructions are there, in the source's order, with the barriers the entry and the exits lacked and no others, and a block is cut exactly where two instructions must not stand together: the result is the same for every order, up to blocks that hold only an added branch |

Assumed (`FunctionsAssumption`): the blocks of the source are not empty, each has its only terminator at its end, and an
instruction's id says where it was, so that no two are the same. LLVM's verifier sees to that.

That the barriers no longer in `todo` are isolated is not inductive by itself: a
barrier that was processed must not be found a second time elsewhere, and nothing else that was
isolated may be cut again. So `IInv` also has

- `Distinct`: nothing but an added branch occurs twice. For the barrier added at an exit
  this needs `Placed` (an earlier one with its name would stand in front of the same return, and this block would have been left alone)
  and `Rets` (no two returns have one name);
- `Guarded`: the exits the scan has passed are barrier blocks; they end up so since
  a block behind its barrier is never cut;
- `LeadsToBarrier`: the third theorem, which needs that a barrier block is only ever cut in front
  (`CutsWell`).

`SplitPlaces` says where each instruction of a cut function was before, and the lemmas on cutting follow from
it; `EntryMade`, `ExitMade` and `BarrierMade` are the steps.

The scan appends blocks to the list it walks over. `CountInv` bounds the list by the exits still ahead of the scan. They
are counted by their distance from the *end* of the list (`Ahead`): a cut in front of the scan shifts
places, and leaves those distances alone.

For the last theorem the blocks are compared with the source all along, not cut by cut: `Reads` has five parts about two
relations between instructions, "somewhere in front of" (`Earlier`) and "right in front of, in one block" (`Follows`).
What is right in front of an instruction was so in the source, or is the barrier added for a return. That is what an
exit that is found guarded has in front of it: so every return ends with its barrier (`NothingMissing`), with
no count of which were added. And what is joined in the source stays joined, so that an exit whose
barrier the source has is never given a second one (`ReturnOf`). `ReadsSplit` and `ReadsCreate` are the two ways
blocks change; together with the isolation, `CutsCanonical` says where the cuts are.

### The placement passes

`Cfg_proofs`, for any finite graph, and `BarrierPlacement_proofs`, for kernels of any size:

| Theorem | Says |
|---|---|
| `ReachIsLeast` | `Reach` has what it starts from, is closed under the edges, and is the least such set |
| `NeverNull` | `implicit-cond-barriers` never takes a block without a predecessor |
| `AlwaysReachable` | no pass cuts a block with a barrier off the entry |
| `LoopsKeepPreheaders` | each loop has a preheader when `loop-barriers` asserts that it has |
| `PathsAlwaysPreserved` | an instruction is followed by what followed it in the source, but for the conditions `mxpa_IPBreakPhi` moves to the front |

The last four are of `PlacementSpec`, from `mxpa_IPBreakPhi` to the end of `loop-barriers`. Assumed of the kernels
(`GraphsAssumption`): they are functions LLVM would accept (`IsFunction`), nothing leads to the entry, which reaches every
block, every block leads to a return (`Connected`), and their loops are as `loop-simplify` leaves them
(`Simplified`). The script runs the passes that make kernels so, and between them and `mxpa_IPBreakPhi` only ones that
replace instructions or inline functions that have been through the same. Kernels with endless loops are
left out. Graphs need not be structured.

`Reach` is a recursive function over sets of nodes. That its equation has a solution at all, and only one, is
the first half of its proof (`GrowsUnique`): the sets only grow inside a finite one. Dominance, post-dominance and the closure of
control dependence are all made of it; `Behind...` are the facts about dominance (transitive, antisymmetric, dominators
of one block in a row) which a connected graph has.

The invariant (`PlacementInv`) has three parts.

- `GraphInv`: the function still has the three properties assumed of the kernel. The passes change a graph by `SplitInto`, which every split
  of a block is, and by `SplitPredecessors`. Both put a new block on edges (`Subdivided`), so that the old
  blocks reach, dominate and post-dominate one another as before (`SubdividedReach`, `SubdividedBehind`), and nothing comes apart
  (`RefinesConnected`). Loops are more work. When a preheader is split its second half
  becomes the preheader (`SplitIntoKeepsLoops`). A region's dummy in front of a loop's header becomes
  the preheader if the old one is in the region, and a latch otherwise; the dummy must not become a header itself, since then it
  would have predecessors both inside and outside its loop (`DummyBeforeKeepsLoops`).
- `TodoInv`: what is collected stays what it was collected as. Regions are found before the first one is
  isolated, and isolating one moves edges to the exits of others. Each must keep a predecessor of its exit inside
  (`Isolable`), or its dummy would be a block that nothing leads to and cut off. That holds because inner
  regions come first: with a common exit, what moves is either all inside the outer region or not at all (`InnerFirst`).
- `WalkInv`: `firstNonBackedgePredecessor` returns `NULL` if a block dominates all its predecessors, and the caller does not
  look. A block that is not the entry has a predecessor it does not dominate (`DomFacts`), so the walk has to stay off the entry. It does:
  it only goes through blocks that the barrier's block post-dominates, and a conditional barrier's block does not
  post-dominate the entry.

`createBarrier` changes no graph (`SameGraph`), through any number of rounds of a fold (`FoldInFront`).

`PathsPreserved` needs a second invariant on top, `FollowsInv`: the function is the kernel until the controllers are known; while they are
sunk it would be right if those still in `todo` came first in their blocks; from then on it is right. `Follows` is read off the edges of silent blocks (`Firsts`), and
each kind of change leaves it alone: a block cut in two anywhere (`FollowsCut`), an empty block on some of the edges to another
(`FollowsDummy`), and barriers put anywhere (`SameIds`, `FollowsSame`), since only what has an `id` is seen. Sinking what is above a branch is such a cut, of the
function in which the condition already comes first (`FollowsSink`). A run keeps the instructions of the kernel in the order of `Follows`, so
the theorem says that no pass adds, loses or reorders a path other than in that one way.

### The invariance analysis

`Invariance_proofs`, for functions of any length and use lists in any order:

| Theorem | Says |
|---|---|
| `TripletTypeCorrect` | verdicts and pending calls are about instructions of the function |
| `TripletRecursionCut` | no alloca is asked about while a call about it is pending |
| `TripletVerdictsExact` | a value that is not made of itself ends with exactly the dimensions its data varies in |

Assumed: `FunctionsAssumption` (operands are values of the function or outside it, a store has two) and `AddressAssumption`: what
goes into an alloca is not worked out from its address. The second one is needed. Only loads and stores look whether a value is
`GREY`; with `x = f(&x)` the store to `x` leads to the call, the call to `x`, and `x`, without a verdict, to its users
again. TLC finds that at once when the assumption is dropped. Section 6 has what the source says of it.

What has to be strengthened is what an alloca has above it on the stack. `StackOK` says that it is in every
set that has what is stored to the alloca and is closed under what values are made of; that replaces the
transitive closure, and an induction over the depth of the stack. `OneMoreCall` keeps it, and
`NotPending` uses it: a pending alloca that is asked about is `GREY`, so not by a load or
store; and an instruction above it that has its address would be part of what it is made of.

For the third theorem `XInv` keeps the books of the recursion. For every call but those in a cycle, what it has
seen, what its list still has and what the call above it is about add up to what its value varies in (`Sums`). A call is about
something the ones below it are made of (`Chain`), so what is found pending, and hence `GREY`, closes a cycle
(`CutInCycle`), and the verdict set there in advance only goes to values that are made of themselves. Verdicts
given so far are exact otherwise (`VerdictsExact`), and nothing is skipped (`AskedSoFar`). What lies *in* a cycle the theorem says nothing of:
that is where section 6 finds a wrong verdict.

### The generated calls

`KernelLink_proofs`, for any number of cores, kernels, arguments and work-groups, and arguments of any size:

| Theorem | Says |
|---|---|
| `LinkTypeCorrect` | types; offsets stay within the block |
| `LinkReadsInBlock` | `kernel_set_arguments` reads no byte behind the block |
| `LinkRefinement` | the generated functions implement `KernelLaunches` |

Assumed (`KernelArgs`): `KernelAssumption` (every kernel has a list of arguments), `LayoutAssumption` (the runtime packs
arguments one behind the other without padding, pointers in 4 bytes and scalars in their bits over 8; that is what `kernel_link.cpp` expects of a
runtime which is not in the repository) and `RuntimeAssumption` (what blocks and dispatches look like).

The inductive invariant is `TypeOK` and `CoreOK(c)` for every core: by where the core is,
how many of its arguments are already copied into *its* structure of *this* kernel,
that `args_offset` is where the next one lies, and that the arguments loaded for a call are the first ones of this dispatch.
The structures keep what earlier dispatches left, so nothing is said of a structure before its arguments are copied.
A step of one core leaves `CoreOK` of the others alone (`Frame`), which is where the pool's partition by core is used. Steps
map to a stutter but for the dispatch, the call, the launch of a kernel the module has not, and the end.

### Values in memory

`PhiToMemory_proofs`, for kernels of any size:

| Theorem | Says |
|---|---|
| `BrokenPhisInFront` | the PHIs `mxpa_BreakPhi` leaves are among those it found before it changed anything, and each is in front of its block |
| `SpilledNothingEscapes` | once `context_spill` is through, each use is behind a computation or a reload of its value in the same block, and no PHI is left |

Assumed (`FunctionsAssumption`): what LLVM's verifier asks, that every value is computed once, that PHIs are in front and
have an argument for each block that leads there, and that what is used is an argument of the kernel, computed earlier in the
block, or computed in another block. Dominance is not needed. The kernel is one without loads and stores of its own, as
everywhere in `PhiToMemory`, and TLC checks the assumption for the kernels of the run.

**Breaking.** `break_phi_to_alloca.cpp` finds what a branch hangs on twice, by two loops over two forms of the block, and between them other
controllers were sunk and their PHIs' stores put into this block. A PHI that only the first finds
sinks, which is harmless; one that only the second finds would be broken by `BreakPhi2Alloca` although it was left in its place, with its load among
the PHIs. `BreakInv` says that each block stays `Made` of its instructions in the kernel, each at most once, and of
loads and stores, with the kernel's branch at its end. Hence:

- `TransitiveUsesStable`: nothing comes to what the branch hangs on. A load uses nothing and a store has no name, so what
  was closed under uses stays closed. It rests on `Reach` being the least such set, which `Cfg_proofs` shows.
- `MadeOneEach`: a PHI that was erased is not there a second time, so a controller that was sunk has none but those that stay.
- `SinkPhiSinks`, `MoveSinks`: a step of the sinking keeps PHIs in front in all blocks, and adds none.
- `BreakPhiBreaks`: a load takes a PHI's place, perhaps among other PHIs; but not in a controller, whose PHIs all stay, and
  elsewhere all go in the end. `StaySinking` and `StayBreaking` say how far both are.

**Spilling.** The difficulty is that a demotion does not only remove uses. Spilling `x` puts a load in front of every user and at the end of every
block that hands `x` to a PHI, and a store of `x`, which is a use, behind `x`; spilling a PHI puts stores of *other* values
in front of the branches it comes from. Whether a value escapes is asked once, before any of this. So the invariant, `SpillInv`, speaks of all values at
all times: a value is `Local` if every use of it is behind a computation or reload of it in the block, and
every block that hands it to a PHI has one; while values are spilled, what `todo` names is still in the function and
all else is `Local`; from then on everything is, and the PHIs left are those in `todo`.

- `EscapedOrLocal`: what `isValueEscaped` does not find is `Local`.
- `DemoteRegLocal`: `x` becomes `Local`, and the others stay what they were. The new code has the old instructions in the
  same order, with loads and stores in between that use what is at hand and are never in front of a PHI (`Spread`, and `Extended` for functions).
  That is shown for the reloads by induction over the block (`ReloadedUpTo`) and for a load or store put anywhere (`InsertSpreads`).
- `DemotePhiLocal`: the stores find their values, since those are handed on and hence at the end of the block (`StoresGrow`);
  erasing the PHI takes only `x` away (`ErasedLocal`); the load in its place is in front of all that uses `x` (`ReloadForPhi`).
  A PHI may be handed to itself or to another PHI of its block.

The values themselves (`ValuesPreserved`) compare runs of two functions and are only model-checked.

### The kernels' metadata

`KernelInfo_proofs`, for any module, with any numbers of kernels, arguments and attributes:

| Theorem | Says |
|---|---|
| `KernelInfoTypeCorrect` | no list ever has more entries than there are kernels; codes are ones the runtime reads |
| `ArgumentsAlwaysRebuilt` | from the flat lists and `kernel_num_args` each kernel gets its own arguments' names, types and codes |
| `SizesAlwaysRebuilt` | each kernel gets the sizes its attributes give, and zeros if they give none |

Assumed (`ModulesAssumption`): a kernel's attributes have different names, and its nodes come in the order clang writes them.

The lists are filled one after another, kernel by kernel, and none says whose an entry is. The invariant gives the
whole content of each list from how far the reader has come in it: `Seen(n)` kernels for the list of the `n`-th
node, `Begun` for the names, `AttributesRead(k)` for the attributes of `k`. Its parts are `ControlOK`, `LengthsOK`
(the list of kernel `nk` is as long as `at(nk)` expects), `CodesOK` (nested lists), `FlatOK` (lists that are flat over all kernels, with `FlatIndex`
for where a kernel starts) and `SizesOK`, which goes attribute by attribute since the code writes to whatever entry is last.

### The lattice of verdicts

`Invariance_proofs`, for any number of axes and lanes:

| Theorem | Says |
|---|---|
| `MeetIsGreatestLowerBound` | of the order unknown, invariant, maybe non-invariant, non-invariant |
| `MeetIsSemilattice` | idempotent, commutative, associative: the order of operands is immaterial |
| `MeetVerdictSinks` | `operator&=` keeps the width and raises no lane, whatever the other verdict's width |

That is why visitors that meet may come in any order. Those that replace a verdict have no
such reason, and what the order of the list does to them is only model-checked (`Settled`).

### Only model-checked

- `RegionEnds` and `Terminates`: liveness.
- `Coarsening`: all but the four invariants above, and these four from `barriertails` on. `BarrierTails` is a recursion over the graph, and
  nothing can be proved in a module that reaches it.
- `ThreadInvariance`: `Settled`, `CoversDependences` and `VariantIsDependent` are not true of all functions (section 6), only of
  forms of functions, which the run enumerates. `VerdictsSink` and `TypeOK` are not proved: they need the widths, lanes and
  operands of instructions to fit, which the forms of the run do and no assumption states.
- `PhiToMemory`: `ValuesPreserved`, which compares runs of two functions: the simulation between them is yet to be
  stated.

## 5. What is not modelled

- Values, types and instructions beyond what section 2 names: GEPs, casts, vector code, debug info.
- Local-memory privatisation, the expansion of `get_global_id` and friends, and the moving of allocas to the entry block.
- The order in which `LoopInserter` redirects uses within a block, and the names under which it finds arrays.
- PHI nodes once `mxpa_IPBreakPhi` is through. It leaves those that the branch of a controller hangs on
  (`UnbreakablePHIs`). Tail replication gives them their new arguments (`UpdateReferences`, `CleanupPHIs`), which changes no edge; `LoopBarriers`
  puts a barrier behind those of a header (lines 83-91), where one is already, since a header is in the dominance
  frontiers of its loop and so guarded by `ImplicitCdgBarriers`; buffering skips them
  (`LoopInserter.cpp:1094-1096`), taking them for uniform, and `Buffered` knows no PHI registers.
- In `PhiToMemory`: loads and stores of the kernel's own, so that only values in registers are compared;
  invoke instructions, whose edge would be split; allocas as values that escape. The split of a controller is there without a
  block of its own, for the halves run one behind the other.
- In `ThreadInvariance`: constant expressions, calls of functions of the program, printing, and
  more than one function: the maps of the analysis are freed with it. Lanes are always constants. An atomic through a
  pointer that has no base, whose type the code asks for nonetheless (line 286): no function of the runs has one.
- In `KernelInfo` and `KernelLink`: the size of local memory, which is always written as 0; the search for template functions and types
  by name; bitcode output. Metadata in another order than clang's.
- In `TripletInvariance`: `get_local_id` of a dimension that is no constant, operands that are blocks
  (a branch or switch, lines 460-463), calls without arguments, and allocas that are made of their own address (`AddressAssumption`). `WorklistApproach` and
  `analyzeBBDivergence`, which nothing calls.
- Memory other than allocas: that a condition's load moves in front of a store or
  barrier of its block (`break_phi_to_alloca.cpp:115`) is visible as a reordering, its effect is not.
- Graphs that no structured program gives (`goto`, irreducible loops).
- `ImplicitLoopBarriers`, which the script loads and does not run; `BreakConstantGEPs`, `inline_devicefn`, `split_bb_at_condbr`,
  `barrier_deleter` and `test_modifier`: each replaces one instruction or call by another, on its own; and the test data.
- Of `OpenClAl`, what does not tell work-item functions from atomics: names, mangling, images.

## 6. Where the code falls short

**A uniform store to a buffered alloca is lost** (run `bare_store`). An alloca belongs to
the region of its `alloca` instruction. If that region is looped the alloca becomes an array, and uses in looped
regions are redirected; a use in a region left bare is skipped
(`LoopInserter.cpp:1243`). A region whose only instruction stores a constant is uniform, so it stays bare and keeps storing to the old
alloca, which nobody reads. The comment at line 401 says that a bare region is one for which the loop is *not necessary*; here it is.

**Invariant verdicts from provisional ones** (run `stepping_index`). A load that is
being worked out when the users of its alloca are walked is set to
`kInvariant` to cut the cycle (`triplet_invariance_analysis.cpp:265`). Later it gets its
verdict, but what was computed from it in between keeps its own. In

    sum = 0; index = lid; while (...) { sum += a + index; index += 16; }

with the allocas `mxpa_IPBreakPhi` makes, asking about `sum` leads to the load of
`index`, from there to the store of `index + 16`, and that is called invariant. The comment in the header
(line 35) says *work-item invariant*. Should a barrier leave the increment and
its store in a region of their own, the region gets no loop.

**Two more verdicts.** A store counts with its value, whatever branch it is under, and a call with its
arguments, an atomic too. Neither is in `TripletInvariance`, and the
soundness of verdicts is what `KernelsAssumption` takes for granted.

**Recursion through an address.** An alloca with a value stored to it that is worked out from its own address,
as in `x = f(&x)` or through a pointer computed from it, is entered again and again: only loads and stores are
coloured. An alloca whose address is stored asks about itself. The author wondered (`FIXME: Alloca's use can only be either LOAD or STORE or
GEPs, right?`, `triplet_invariance_analysis.cpp:283`). `AddressAssumption` leaves such functions out; by `TripletRecursionCut` no others recurse
through memory for ever.

**Break behind a barrier.** For a loop whose body has, in one block, a barrier followed by
the condition of a `break`, such as

    while (c1) { code; barrier; code; if (c2) break; code }

the block is among its own controllers and left out there (`X != Y`,
`ImplicitCdgBarriers.cpp:59`), and `LoopBarriers` adds no barrier to an
exiting block when there are several. What follows the barrier is then in the
regions of both successors and `EveryRegionWrappable` fails. No line of the
repository says that such kernels work, so there is no run for it; `coarsening` leaves this form out.

**Nested branches with one join** (run `nested_branches`). In

    if (lid) x = 1; else if (n) x = 2; else x = 3;

the PHI at the join has three incoming blocks. `getControlInvarianceForBlock` asks for an incoming block what
*that block* hangs on (`ThreadInvariance.cpp:363`): the two inner ones hang on `n`, and the first
branches to the join itself and dominates it, so it is not asked. The branch on `lid` is never looked at and `x` is called
invariant, though the analysis says of itself (line 1011) *identify to which local/global ids a value is dependent on*.

**Six more dependences that are missed**, as functions in `MCThreadInvariance` that can take the place of
`NestedFunctions` in `ThreadInvariance_nested.cfg`; `thread_invariance` has none of these forms:

- `ShuffleFunctions`: with a mask of plain numbers every lane of the result gets the verdict of the first operand's first
  lane (lines 391-395). That is right for a splat of it and wrong for `v.yx` or a merge of two vectors; what is called variant
  there need not be, either.
- `GuardedStoreFunctions`: a store lowers its alloca by its value and address (line 421), not by the branches or the loop it is
  under. In `if (lid) a[r] = n;` the array is called invariant, and so is what is read from it.
- `TripCountFunctions`: what a loop counts is called invariant behind it, though its end hangs on an id: the PHI of the
  header looks at no branch, for the header dominates the latch (line 363).
- `LateFunctions`: the verdict of a branch changes after the PHIs at its join were visited; only control-dependent
  blocks are queued (line 615).
- `PointerFunctions`: a store through one pointer and a load through another to the same array: the alloca is lowered, and
  not what was computed from it in the same block (line 608).
- `SlotFunctions`: a vector of ids is stored to an alloca of one lane and read back: lanes behind the first are lost (line 957).

**An atomic** is set to variant and then replaced by the meet of its operands (line 302). With a PHI of the same block
among its users the block queues itself at every visit and the analysis does not end.

**Comments that say something else.** `ThreadInvariance.h:66` has the constructor *set all variances to kMaybeVariant*,
the code sets them to `kUnknown` (a kind `kMaybeVariant` does not exist). The table above the join in `ThreadInvariance.cpp` (lines 65-76) has non-invariant for
*non-invariant or maybe*, the code maybe; `ControlDependence.cpp:52` has *does not strictly post dominate*, line 63
skips a block that post-dominates itself too, so that no loop controls itself; `kernel_info_reader.cpp:238` sums
*bytes*, line 249 alignments: an array counts as one element. None of them has a run: what hangs on them is
covered by the properties above, or nothing in the repository reads it.

**A load may overtake a store.** When a controller is split, all its branch does not hang on sinks below what it does
(`break_phi_to_alloca.cpp:115`). If the branch hangs on a load, a store in front of it to the same place comes
after it. The repository promises nothing of this, and `PhiToMemory` has no such loads.

**Less visible.** `HiveOffBarrier::runOnFunction` reports only the changes of
`ProcessBarrier`; `LoopBarriers.cpp:117` returns early and reports none;
`ImplicitCdgBarriers::runOnFunction` falls off its end. They only affect which analyses LLVM recomputes.

## 7. What could follow

Done: the generated code and its proof; the passes from `mxpa_IPBreakPhi` to the running thread, with and
without values; both invariance analyses; the tools around the kernels' metadata and the proof of their calls. Left, in
the order of what it would add:

1. `TripletInvariance` with branches and atomics: stores under a variant branch, and runs of two
   work-items as the reference. This discharges, or refutes, the analysis part of `KernelsAssumption`.
2. Memory of the kernel's own in `PhiToMemory`.
3. `continue` next to a divergent inner loop, `ImplicitLoopBarriers`.
4. Local-memory privatisation and the expansion of `get_global_id` in `LoopInserter`.
5. Theorems: that a spilled function computes what the kernel does (`ValuesPreserved`); that
   each barrier is expanded once in `ParallelRegions`.
