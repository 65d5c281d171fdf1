--------------------------- MODULE KernelLaunches ---------------------------
(***************************************************************************)
(* What kernel_link.cpp promises the runtime: for every work-group of a    *)
(* dispatch the kernel that was asked for is called once, with the         *)
(* arguments that came with this dispatch.                                 *)
(***************************************************************************)
EXTENDS KernelArgs

VARIABLES
  request,  \* what a core was asked to run, or None
  groups,   \* the work-groups it has still to run
  called    \* the last call it made for this dispatch, or None

vars == <<request, groups, called>>

Init ==
  /\ request = [c \in Cores |-> None]
  /\ groups = [c \in Cores |-> 0]
  /\ called = [c \in Cores |-> None]

Dispatch(c, k, block, n) ==
  /\ request[c] = None
  /\ request' = [request EXCEPT ![c] = [kernel_idx |-> k, args |-> block]]
  /\ groups' = [groups EXCEPT ![c] = n]
  /\ UNCHANGED called

\* A kernel that is not of this module is not called.
RunGroup(c) ==
  /\ request[c] # None
  /\ groups[c] > 0
  /\ groups' = [groups EXCEPT ![c] = @ - 1]
  /\ LET k == request[c].kernel_idx IN
       IF k \in Kernel
         THEN called' = [called EXCEPT ![c] =
                [func |-> k,
                 args |-> [a \in Arg(k) |-> Unpack(request[c].args, k, a)]]]
         ELSE UNCHANGED called
  /\ UNCHANGED request

Finish(c) ==
  /\ request[c] # None
  /\ groups[c] = 0
  /\ request' = [request EXCEPT ![c] = None]
  /\ called' = [called EXCEPT ![c] = None]
  /\ UNCHANGED groups

Next ==
  \E c \in Cores :
    \/ \E k \in KernelIdx, block \in Blocks, n \in 1 .. MaxGroups :
         Dispatch(c, k, block, n)
    \/ RunGroup(c)
    \/ Finish(c)

Spec == Init /\ [][Next]_vars
=============================================================================
