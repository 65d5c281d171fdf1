------------------------------ MODULE SpmdCfg ------------------------------
(***************************************************************************)
(* The control flow of a work-group, as OpenCL has it: each work-item      *)
(* walks through the kernel by itself, waits at a barrier for the others,  *)
(* and all leave it the same way.  Barriers right behind each other count  *)
(* as one.                                                                 *)
(***************************************************************************)
EXTENDS Cfg

CONSTANT WorkItems

VARIABLES
  f,   \* the kernel, every barrier in a block of its own
  pos  \* pos[w]: the block work-item w is in

vars == <<f, pos>>

Init == pos = [w \in WorkItems |-> Entry(f)]

\* What work-items may do differently in block n.
Varies(n) == \E i \in DOMAIN f.code[n] : f.code[n][i].op = "code"

\* Some work-items that are at the same place take the same branch; where
\* they may differ, each goes by itself.
Move(S, t) ==
  /\ \E n \in Blocks(f) :
       /\ \A w \in S : pos[w] = n
       /\ Varies(n) => Cardinality(S) = 1
       /\ ~AtBarrier(f, n)
       /\ t \in Range(f.succ[n])
  /\ pos' = [w \in WorkItems |-> IF w \in S THEN Settle(f, t) ELSE pos[w]]
  /\ UNCHANGED f

\* All have reached the barrier, and leave it.
Cross(t) ==
  /\ \E n \in Blocks(f) :
       /\ \A w \in WorkItems : pos[w] = n
       /\ AtBarrier(f, n)
       /\ t \in Range(f.succ[n])
  /\ pos' = [w \in WorkItems |-> Settle(f, t)]
  /\ UNCHANGED f

Next == \E t \in Blocks(f) :
          \/ \E S \in SUBSET WorkItems \ {{}} : Move(S, t)
          \/ Cross(t)

Spec == Init /\ [][Next]_vars
=============================================================================
