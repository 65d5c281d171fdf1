------------------------------- MODULE Kernel -------------------------------
(***************************************************************************)
(* A kernel as the loop inserter sees it.  Its barriers cut it into        *)
(* parallel regions; its data is cut down to the variables that live       *)
(* across a barrier.  A region assigns some of them, each from the         *)
(* work-item's local id, from a value the whole group shares, or from      *)
(* another variable; all right-hand sides are read at the region's start.  *)
(***************************************************************************)
EXTENDS Naturals

CONSTANTS
  Regions,    \* the parallel regions, named by the barrier they end at
  Vars,       \* the SSA registers and allocas that live across a barrier
  ArgVals,    \* what a group-wide value (argument, uniform load) may be
  Kernels,    \* the kernels considered
  Exit,       \* "the kernel has returned"
  Lid, Arg,   \* the two sources of a value that are not variables
  None        \* an undefined value

(***************************************************************************)
(* The fields of a kernel k:                                               *)
(*   entry, next  the control flow between regions; it is uniform, every   *)
(*                work-item takes the same successor                       *)
(*   def, src     the variables a region assigns, and from what            *)
(*   home         the region of a variable's defining instruction (for an  *)
(*                alloca, of the alloca itself)                            *)
(*   private      the allocas; the other variables are registers           *)
(*   guarded      the allocas stored under a branch inside a region        *)
(*   uniform      the variables the invariance analysis calls invariant    *)
(*   varying      the regions with a work-item variant instruction whose   *)
(*                result stays inside the region                           *)
(***************************************************************************)
KernelType ==
  [ entry   : Regions,
    next    : [Regions -> SUBSET (Regions \cup {Exit})],
    def     : [Regions -> SUBSET Vars],
    src     : [Regions -> [Vars -> Vars \cup {Lid, Arg}]],
    home    : [Vars -> Regions],
    private : SUBSET Vars,
    guarded : SUBSET Vars,
    uniform : SUBSET Vars,
    varying : SUBSET Regions ]

Registers(k) == Vars \ k.private

Reads(k, r) == {v \in Vars : \E u \in k.def[r] : k.src[r][u] = v}

IsUniformSource(k, s) == s = Arg \/ s \in k.uniform

\* SSA form: a register is assigned in one region, and what is modelled of
\* it is its uses in other regions.
IsSSA(k) ==
  /\ k.guarded \subseteq k.private
  /\ \A v \in Registers(k) :
       /\ \A r \in Regions : v \in k.def[r] => r = k.home[v]
       /\ v \notin Reads(k, k.home[v])
       /\ v \in k.def[k.home[v]] => \E r \in Regions : v \in Reads(k, r)

\* The analysis is sound: an invariant variable is only ever assigned
\* invariant values, by all work-items.  A register is as invariant as
\* its operand.
IsSoundlyUniform(k) ==
  /\ k.guarded \cap k.uniform = {}
  /\ \A r \in Regions : \A v \in k.def[r] :
       /\ v \in k.uniform => IsUniformSource(k, k.src[r][v])
       /\ v \in Registers(k) /\ IsUniformSource(k, k.src[r][v])
            => v \in k.uniform

ASSUME NamesAssumption ==
  /\ Exit \notin Regions
  /\ Lid \notin Vars /\ Arg \notin Vars /\ Lid # Arg

ASSUME KernelsAssumption ==
  /\ Kernels \subseteq KernelType
  /\ \A k \in Kernels : IsSSA(k) /\ IsSoundlyUniform(k)

\* The value of a source for a work-item with id w and variables p, where
\* the group reads a.
ValueOf(s, w, p, a) == IF s = Lid THEN w ELSE IF s = Arg THEN a ELSE p[s]

\* The variables after the work-item has run region r without the stores
\* in skip.
RunRegion(k, r, w, p, a, skip) ==
  [v \in Vars |-> IF v \in k.def[r] \ skip
                  THEN ValueOf(k.src[r][v], w, p, a)
                  ELSE p[v]]
=============================================================================
