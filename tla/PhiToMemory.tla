---------------------------- MODULE PhiToMemory ----------------------------
(***************************************************************************)
(* Two passes that move values from registers to memory: break_phi_to_     *)
(* alloca.cpp replaces PHIs by an alloca each, and context_spill.cpp gives *)
(* every value that lives longer than its block a slot per work-item.      *)
(* Their result is run next to the function they started from, along any   *)
(* path: the work-items of a spilled function block by block in any order  *)
(* on the same registers.  A load has the name of the value it stands for. *)
(***************************************************************************)
EXTENDS SsaForm

CONSTANTS
  Functions,  \* the kernels
  LocalSize   \* the work-group's three sizes

(***************************************************************************)
(* What LLVM's verifier asks of a function: names of their own; PHIs in    *)
(* front, one argument for each block that leads there; what is used is an *)
(* argument, or computed earlier in the block or in another one.           *)
(***************************************************************************)
Computed(f, x) == \E i \in Instructions(f) : i.name = x

Named(f, b, p) ==
  LET i == f.code[b][p] IN
  /\ i.name \notin DOMAIN Given \cup {""}
  /\ i.slot = NoSlot
  /\ \A c \in Blocks(f) : \A q \in DOMAIN f.code[c] :
       f.code[c][q].name = i.name => c = b /\ q = p

PhiFormed(f, b, p) ==
  LET i == f.code[b][p] IN
  IsPhi(i) =>
    /\ \A q \in 1 .. p - 1 : IsPhi(f.code[b][q])
    /\ DOMAIN i.args = Pred(f)[b]
    /\ \A x \in Uses(i) : x \in DOMAIN Given \/ Computed(f, x)

UsesComputed(f, b, p) ==
  ~IsPhi(f.code[b][p]) => \A x \in Uses(f.code[b][p]) :
    \/ x \in DOMAIN Given
    \/ \E q \in 1 .. p - 1 : f.code[b][q].name = x
    \/ \E c \in Blocks(f) \ {b} : \E q \in DOMAIN f.code[c] : f.code[c][q].name = x

ASSUME FunctionsAssumption ==
  \A f \in Functions :
    /\ DOMAIN f = {"layout", "code", "succ"}
    /\ \A b \in Blocks(f) :
         /\ f.code[b] \in Seq(Range(f.code[b]))
         /\ f.code[b] # <<>> /\ ~IsPhi(Last(f.code[b]))
         /\ \A p \in DOMAIN f.code[b] :
              Named(f, b, p) /\ PhiFormed(f, b, p) /\ UsesComputed(f, b, p)

VARIABLES
  source, fn,        \* the kernel, and what has been made of it
  pass,              \* "mxpa_BreakPhi" or "context_spill"
  stage, todo,       \* where the pass is, and what this stage has still to do
  UnbreakablePHIs,
  InstToMove,        \* what has still to sink: its block and itself
  at,                \* at[w]: the block work-item w ran last, 0 at first
  ssa, regs,         \* ssa[w], regs[w]: the values in source and in fn
  mem                \* mem[slot]: per work-item

passVars == <<source, fn, pass, stage, todo, UnbreakablePHIs, InstToMove>>
vars == <<passVars, at, ssa, regs, mem>>

-----------------------------------------------------------------------------
(***************************************************************************)
(* break_phi_to_alloca.cpp.  A controller is split in front of its branch; *)
(* its two halves, which run one behind the other, stay one block here.    *)
(***************************************************************************)
BBsCtrl(f) ==
  LET pdf == PDF(f)
      barriers == {b \in Blocks(f) : HoldsBarrier(f, b)}
  IN {x \in Blocks(f) : \E y \in barriers \ {x} : x \in Reach(pdf, {y})}

\* TransitiveUsesByTI: what the branch hangs on within its block.
TransitiveUses(code) ==
  LET own == {code[p].name : p \in DOMAIN code} \ {""}
      uses == [x \in own |-> own \cap UNION {Uses(i) : i \in {j \in Range(code) : j.name = x}}]
  IN Reach(uses, {Last(code).name})

\* A slip: only the PHIs the condition is computed from directly.
UnbreakableDirect(f, b) ==
  LET code == f.code[b] IN
  {i.name : i \in {j \in Range(code) : IsPhi(j)}}
    \cap UNION {Uses(i) : i \in {j \in Range(code) : j.name \in Uses(Last(code))}}

Unbreakable(f, b) ==
  {i.name : i \in {j \in Range(f.code[b]) : IsPhi(j)}} \cap TransitiveUses(f.code[b])

\* A slip: the incoming values are stored in front of what computes them.
StoreIncomingInFront(f, phi, slot) ==
  [f EXCEPT !.code = [b \in DOMAIN @ |->
     IF b \in DOMAIN phi.args
       THEN InsertAt(@[b], FirstNonPhi(@[b]), Store(phi.args[b], slot)) ELSE @[b]]]

StoreIncoming(f, phi, slot) ==
  [f EXCEPT !.code = [b \in DOMAIN @ |->
     IF b \in DOMAIN phi.args THEN BeforeBranch(@[b], Store(phi.args[b], slot)) ELSE @[b]]]

\* BreakPhi2Alloca2: the load is at the end of the PHI's block.
SinkPhi(f, b, p) ==
  LET phi  == f.code[b][p]
      slot == <<"ex_phi", phi.name>>
  IN [StoreIncoming(f, phi, slot) EXCEPT
        !.code[b] = BeforeBranch(RemoveAt(@, p), Load(phi.name, slot))]

\* BreakPhi2Alloca: the load takes the PHI's place.
BreakPhi(f, x) ==
  LET b    == BlockOf(f, x)
      p    == CHOOSE p \in DOMAIN f.code[b] : IsOwn(f.code[b][p], x)
      phi  == f.code[b][p]
      slot == <<"ex_phi", x>>
  IN [StoreIncoming(f, phi, slot) EXCEPT !.code[b] = ReplaceAll(@, phi, Load(x, slot))]

\* The order of the function: its blocks, and the instructions of a block.
Above(f, x, y) ==
  LET b == BlockOf(f, x)  c == BlockOf(f, y) IN
  \/ b # c /\ \E n \in DOMAIN f.layout : \E m \in 1 .. n - 1 : f.layout[m] = b /\ f.layout[n] = c
  \/ b = c /\ \E p \in DOMAIN f.code[b] : \E q \in 1 .. p - 1 :
                IsOwn(f.code[b][q], x) /\ IsOwn(f.code[b][p], y)

CollectUnbreakablePHIs ==
  /\ stage = "collect"
  /\ todo' = BBsCtrl(fn)
  /\ UnbreakablePHIs' = UNION {Unbreakable(fn, b) : b \in BBsCtrl(fn)}
  /\ stage' = "sink"
  /\ UNCHANGED <<source, fn, pass, InstToMove, at, ssa, regs, mem>>

\* SplitAndSinkFromTo: all sinks that the branch does not hang on.  The
\* controllers come in the order of their addresses.
SinkController ==
  /\ stage = "sink"
  /\ InstToMove = {}
  /\ \E b \in todo :
       /\ InstToMove' = {<<b, i>> : i \in {j \in Range(fn.code[b]) :
                                             j.name \notin TransitiveUses(fn.code[b])}}
       /\ todo' = todo \ {b}
  /\ UNCHANGED <<source, fn, pass, stage, UnbreakablePHIs, at, ssa, regs, mem>>

\* The first one left sinks.
MoveInst ==
  /\ stage = "sink"
  /\ \E b \in Blocks(fn) : \E p \in DOMAIN fn.code[b] :
       LET i == fn.code[b][p] IN
       /\ <<b, i>> \in InstToMove
       /\ \A q \in 1 .. p - 1 : <<b, fn.code[b][q]>> \notin InstToMove
       /\ fn' = (IF IsPhi(i) THEN SinkPhi(fn, b, p)
                 ELSE [fn EXCEPT !.code[b] = BeforeBranch(RemoveAt(@, p), i)])
       /\ InstToMove' = InstToMove \ {<<b, i>>}
  /\ UNCHANGED <<source, pass, stage, todo, UnbreakablePHIs, at, ssa, regs, mem>>

FindBreakable ==
  /\ stage = "sink"
  /\ todo = {} /\ InstToMove = {}
  /\ todo' = {i.name : i \in {j \in Instructions(fn) : IsPhi(j)}} \ UnbreakablePHIs
  /\ stage' = "break"
  /\ UNCHANGED <<source, fn, pass, InstToMove, UnbreakablePHIs, at, ssa, regs, mem>>

BreakPhi2Alloca ==
  /\ stage = "break"
  /\ \E x \in todo :
       /\ \A y \in todo \ {x} : Above(fn, x, y)
       /\ fn' = BreakPhi(fn, x)
       /\ todo' = todo \ {x}
  /\ UNCHANGED <<source, pass, stage, InstToMove, UnbreakablePHIs, at, ssa, regs, mem>>

PhisBroken ==
  /\ stage = "break"
  /\ todo = {}
  /\ stage' = "done"
  /\ UNCHANGED <<source, fn, pass, todo, InstToMove, UnbreakablePHIs, at, ssa, regs, mem>>

-----------------------------------------------------------------------------
(***************************************************************************)
(* context_spill.cpp.                                                      *)
(***************************************************************************)
\* A slip: only what the next block uses is spilled.
EscapesToNext(f, x) ==
  LET b == BlockOf(f, x) IN
  \E n \in Range(f.succ[b]) \ {b} : \E i \in Range(f.code[n]) : x \in Uses(i)

isValueEscaped(f, x) ==
  \E n \in Blocks(f) : \E i \in Range(f.code[n]) :
    x \in Uses(i) /\ (n # BlockOf(f, x) \/ IsPhi(i))

\* A reload in front of every user.
Reloaded(code, x, slot) ==
  FlattenSeq([p \in DOMAIN code |->
    IF ~IsPhi(code[p]) /\ x \in Uses(code[p]) THEN <<Load(x, slot), code[p]>> ELSE <<code[p]>>])

\* Block m hands x to a PHI.
HandsOn(f, m, x) ==
  \E i \in Instructions(f) : IsPhi(i) /\ m \in DOMAIN i.args /\ i.args[m] = x

\* A PHI's reload is at the end of the block the value comes from; a store is
\* behind the value.
DemoteRegToStack(f, x) ==
  LET slot == <<"reg", x>>
      reloaded == [n \in Blocks(f) |->
        IF HandsOn(f, n, x) THEN BeforeBranch(Reloaded(f.code[n], x, slot), Load(x, slot))
        ELSE Reloaded(f.code[n], x, slot)]
      b == BlockOf(f, x)
      p == CHOOSE p \in DOMAIN reloaded[b] :
             reloaded[b][p].name = x /\ reloaded[b][p].slot = NoSlot
      behind == IF IsPhi(reloaded[b][p]) THEN FirstNonPhi(reloaded[b]) ELSE p + 1
  IN [f EXCEPT !.code = [reloaded EXCEPT ![b] = InsertAt(@, behind, Store(x, slot))]]

\* A PHI nothing uses is erased.
DemotePHIToStack(f, x) ==
  LET slot == <<"phi", x>>
      b    == BlockOf(f, x)
      p    == CHOOSE p \in DOMAIN f.code[b] : IsPhi(f.code[b][p]) /\ f.code[b][p].name = x
      g    == StoreIncoming(f, f.code[b][p], slot)
      rest == RemoveAt(g.code[b], p)
  IN IF \A i \in Instructions(f) : x \notin Uses(i)
       THEN [f EXCEPT !.code[b] = RemoveAt(@, p)]
       ELSE [g EXCEPT !.code[b] = InsertAt(rest, FirstNonPhi(rest), Load(x, slot))]

\* The work lists are filled from the front: the last value comes first.
Foremost(f, names) ==
  {x \in names : \A y \in names \ {x} : Above(f, y, x)}

FindEscaped ==
  /\ stage = "escaped"
  /\ todo' = {x \in Names(fn) : isValueEscaped(fn, x)}
  /\ stage' = "values"
  /\ UNCHANGED <<source, fn, pass, InstToMove, UnbreakablePHIs, at, ssa, regs, mem>>

SpillValue ==
  /\ stage = "values"
  /\ \E x \in Foremost(fn, todo) :
       /\ fn' = DemoteRegToStack(fn, x)
       /\ todo' = todo \ {x}
  /\ UNCHANGED <<source, pass, stage, InstToMove, UnbreakablePHIs, at, ssa, regs, mem>>

FindPhis ==
  /\ stage = "values"
  /\ todo = {}
  /\ todo' = {i.name : i \in {j \in Instructions(fn) : IsPhi(j)}}
  /\ stage' = "phis"
  /\ UNCHANGED <<source, fn, pass, InstToMove, UnbreakablePHIs, at, ssa, regs, mem>>

SpillPhi ==
  /\ stage = "phis"
  /\ \E x \in Foremost(fn, todo) :
       /\ fn' = DemotePHIToStack(fn, x)
       /\ todo' = todo \ {x}
  /\ UNCHANGED <<source, pass, stage, InstToMove, UnbreakablePHIs, at, ssa, regs, mem>>

Spilled ==
  /\ stage = "phis"
  /\ todo = {}
  /\ stage' = "done"
  /\ UNCHANGED <<source, fn, pass, todo, InstToMove, UnbreakablePHIs, at, ssa, regs, mem>>

-----------------------------------------------------------------------------
(***************************************************************************)
(* The work-items: those of a function with broken PHIs have registers and *)
(* allocas of their own, and one of them stands for all.                   *)
(***************************************************************************)
Lids == (0 .. LocalSize[1] - 1) \X (0 .. LocalSize[2] - 1) \X (0 .. LocalSize[3] - 1)

WorkItems == IF pass = "context_spill" THEN Lids ELSE {<<0, 0, 0>>}

Flat3DSize == LocalSize[3] * LocalSize[2] * LocalSize[1]

FlatIdx(lid) ==
  lid[3] * LocalSize[1] * LocalSize[2] + lid[2] * LocalSize[1] + lid[1]

Start ==
  /\ stage = "done"
  /\ stage' = "run"
  /\ at' = [w \in WorkItems |-> 0]
  /\ ssa' = [w \in WorkItems |-> Fresh(Names(source))]
  /\ regs' = [w \in WorkItems |-> Fresh(Names(source))]
  /\ mem' = [s \in Slots(fn) |-> [k \in 0 .. Flat3DSize - 1 |-> Undef]]
  /\ UNCHANGED <<source, fn, pass, todo, InstToMove, UnbreakablePHIs>>

\* Between two blocks of a work-item others may have used the registers.
RunBlock(w) ==
  /\ stage = "run"
  /\ \E n \in IF at[w] = 0 THEN {Entry(fn)} ELSE Range(fn.succ[at[w]]) :
       LET k == FlatIdx(w)
           left == IF pass = "context_spill" THEN Fresh(Names(source)) ELSE regs[w]
           s == Run(fn.code[n], at[w], left, [slot \in DOMAIN mem |-> mem[slot][k]])
       IN /\ at' = [at EXCEPT ![w] = n]
          /\ ssa' = [ssa EXCEPT ![w] = Run(source.code[n], at[w], @, <<>>).env]
          /\ regs' = [regs EXCEPT ![w] = s.env]
          /\ mem' = [slot \in DOMAIN mem |-> [mem[slot] EXCEPT ![k] = s.mem[slot]]]
  /\ UNCHANGED passVars

Returned ==
  /\ stage = "run"
  /\ \A w \in WorkItems : at[w] # 0 /\ IsReturn(fn, at[w])
  /\ UNCHANGED vars

Init ==
  /\ source \in Functions
  /\ fn = source
  /\ pass \in {"mxpa_BreakPhi", "context_spill"}
  /\ stage = (IF pass = "context_spill" THEN "escaped" ELSE "collect")
  /\ todo = {}
  /\ UnbreakablePHIs = {}
  /\ InstToMove = {}
  /\ at = <<>> /\ ssa = <<>> /\ regs = <<>> /\ mem = <<>>

Next ==
  \/ CollectUnbreakablePHIs \/ SinkController \/ MoveInst
  \/ FindBreakable \/ BreakPhi2Alloca \/ PhisBroken
  \/ FindEscaped \/ SpillValue \/ FindPhis \/ SpillPhi \/ Spilled
  \/ Start
  \/ \E w \in WorkItems : RunBlock(w)
  \/ Returned

Spec == Init /\ [][Next]_vars

-----------------------------------------------------------------------------
\* Whatever path a work-item takes, and whatever others run between two of
\* its blocks, every value of the block it ran is what it was in the kernel
\* the pass began with: no store comes too late, no load after a later store.
ValuesPreserved ==
  stage = "run" => \A w \in WorkItems : at[w] # 0 =>
    \A x \in {i.name : i \in Range(source.code[at[w]])} \cap Names(fn) :
      regs[w][x] = ssa[w][x]

\* break_phi_to_alloca.cpp finds what a branch hangs on twice, before and
\* after other blocks were changed: the PHIs that are left are those found
\* first, and none of them ended up behind the load of a broken one.
PhisInFront ==
  stage \in {"done", "run"} => \A b \in Blocks(fn) : \A p \in DOMAIN fn.code[b] :
    IsPhi(fn.code[b][p]) =>
      /\ fn.code[b][p].name \in UnbreakablePHIs
      /\ \A q \in 1 .. p : IsPhi(fn.code[b][q])

\* After context_spill.cpp no block uses a value of another one: all that
\* crosses a block goes through a slot of its work-item.
NothingEscapes ==
  stage \in {"done", "run"} /\ pass = "context_spill" =>
    \A b \in Blocks(fn) : \A p \in DOMAIN fn.code[b] :
      /\ ~IsPhi(fn.code[b][p])
      /\ \A x \in Uses(fn.code[b][p]) :
           x \in DOMAIN Given \/ \E q \in 1 .. p - 1 : fn.code[b][q].name = x
=============================================================================
