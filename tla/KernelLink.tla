----------------------------- MODULE KernelLink -----------------------------
(***************************************************************************)
(* The functions kernel_link.cpp generates, run by the cores: what they    *)
(* make of the fields kernel_idx and param_ctx of a core's tlb_data.       *)
(* kernel_set_arguments copies the arguments into the core's own           *)
(* tlb_function, one structure per kernel; kernel_launch loads them again  *)
(* for every work-group and calls the kernel.                              *)
(***************************************************************************)
EXTENDS KernelArgs, Sequences

VARIABLES
  tlb,          \* tlb[c]: kernel_idx and the bytes of param_ctx
  groups,       \* the work-groups of this dispatch still to be launched
  pool,         \* tlb_func_pool_new: per core and kernel, the fields
  pc,           \* where the core is in the generated functions
  ai,           \* the argument that is next
  args_offset,  \* where it is in param_ctx
  call_args,    \* the arguments loaded so far for the call
  called        \* the last call the core made for this dispatch, or None

vars == <<tlb, groups, pool, pc, ai, args_offset, call_args, called>>

TypeOK ==
  /\ tlb \in [Cores -> [kernel_idx : KernelIdx, args : Blocks] \cup {None}]
  /\ groups \in [Cores -> 0 .. MaxGroups]
  /\ DOMAIN pool = Cores
  /\ \A c \in Cores :
       /\ DOMAIN pool[c] = Kernel
       /\ \A k \in Kernel : DOMAIN pool[c][k] = Field(k)
  /\ pc \in [Cores -> {"idle", "entry", "set", "ready", "launch"}]
  /\ ai \in [Cores -> Nat]
  /\ args_offset \in [Cores -> 0 .. ArgsSize]
  /\ DOMAIN call_args = Cores
  /\ DOMAIN called = Cores

Init ==
  /\ tlb = [c \in Cores |-> None]
  /\ groups = [c \in Cores |-> 0]
  /\ pool = [c \in Cores |-> [k \in Kernel |-> [f \in Field(k) |-> None]]]
  /\ pc = [c \in Cores |-> "idle"]
  /\ ai = [c \in Cores |-> 0]
  /\ args_offset = [c \in Cores |-> 0]
  /\ call_args = [c \in Cores |-> <<>>]
  /\ called = [c \in Cores |-> None]

\* A slip: one tlb_function for all cores.
SharedFunc(c) == CHOOSE d \in Cores : TRUE

\* The tlb_function of a core: dev_entry takes the one with the core's number.
TlbFunc(c) == c

\* Two slips: every argument is taken for an int; bits are taken for bytes.
AlwaysAnInt(k, a) == 4
BitsForBytes(k, a) ==
  IF ArgType[k][a].pointer THEN 4 ELSE ArgType[k][a].bits

\* By how much kernel_set_arguments moves on behind an argument.
OffsetStep(k, a) ==
  IF ArgType[k][a].pointer THEN 4 ELSE ArgType[k][a].bits \div 8

-----------------------------------------------------------------------------
\* The runtime fills in tlb_data and dev_entry calls kernel_set_arguments.
Dispatch(c, k, block, n) ==
  /\ pc[c] = "idle"
  /\ tlb' = [tlb EXCEPT ![c] = [kernel_idx |-> k, args |-> block]]
  /\ groups' = [groups EXCEPT ![c] = n]
  /\ pc' = [pc EXCEPT ![c] = "entry"]
  /\ UNCHANGED <<pool, ai, args_offset, call_args, called>>

\* The entry of kernel_set_arguments and its switch: a case begins with the
\* function, sw.default goes straight to the end.
EnterSetArguments(c) ==
  LET k == tlb[c].kernel_idx IN
  /\ pc[c] = "entry"
  /\ args_offset' = [args_offset EXCEPT ![c] = 0]
  /\ ai' = [ai EXCEPT ![c] = 0]
  /\ IF k \in Kernel
       THEN /\ pool' = [pool EXCEPT ![TlbFunc(c)][k][FuncField(k)] = k]
            /\ pc' = [pc EXCEPT ![c] = "set"]
       ELSE /\ pc' = [pc EXCEPT ![c] = "ready"]
            /\ UNCHANGED pool
  /\ UNCHANGED <<tlb, groups, call_args, called>>

\* One argument is copied: a pointer as an int, all else by memcpy.
SetArgument(c) ==
  LET k == tlb[c].kernel_idx
      value == ReadBytes(tlb[c].args, args_offset[c], ArgSize(k, ai[c]))
  IN
  /\ pc[c] = "set"
  /\ ai[c] < NumArgs[k]
  /\ pool' = [pool EXCEPT ![TlbFunc(c)][k][ai[c]] = value]
  /\ args_offset' = [args_offset EXCEPT ![c] = @ + OffsetStep(k, ai[c])]
  /\ ai' = [ai EXCEPT ![c] = @ + 1]
  /\ UNCHANGED <<tlb, groups, pc, call_args, called>>

\* sw.epilog; args_offset is a local and gone with the function.
SetDone(c) ==
  /\ pc[c] = "set"
  /\ ai[c] = NumArgs[tlb[c].kernel_idx]
  /\ pc' = [pc EXCEPT ![c] = "ready"]
  /\ ai' = [ai EXCEPT ![c] = 0]
  /\ args_offset' = [args_offset EXCEPT ![c] = 0]
  /\ UNCHANGED <<tlb, groups, pool, call_args, called>>

-----------------------------------------------------------------------------
\* kernel_launch begins for a work-group.
EnterLaunch(c) ==
  /\ pc[c] = "ready"
  /\ groups[c] > 0
  /\ tlb[c].kernel_idx \in Kernel
  /\ pc' = [pc EXCEPT ![c] = "launch"]
  /\ ai' = [ai EXCEPT ![c] = 0]
  /\ call_args' = [call_args EXCEPT ![c] = <<>>]
  /\ UNCHANGED <<tlb, groups, pool, args_offset, called>>

\* Its switch has no case for the kernel.
LaunchNothing(c) ==
  /\ pc[c] = "ready"
  /\ groups[c] > 0
  /\ tlb[c].kernel_idx \notin Kernel
  /\ groups' = [groups EXCEPT ![c] = @ - 1]
  /\ UNCHANGED <<tlb, pool, pc, ai, args_offset, call_args, called>>

LoadArgument(c) ==
  LET k == tlb[c].kernel_idx IN
  /\ pc[c] = "launch"
  /\ ai[c] < NumArgs[k]
  /\ call_args' = [call_args EXCEPT ![c] = Append(@, pool[TlbFunc(c)][k][ai[c]])]
  /\ ai' = [ai EXCEPT ![c] = @ + 1]
  /\ UNCHANGED <<tlb, groups, pool, pc, args_offset, called>>

\* Field num_args is loaded like the arguments, and called with them.
CallKernel(c) ==
  LET k == tlb[c].kernel_idx IN
  /\ pc[c] = "launch"
  /\ ai[c] = NumArgs[k]
  /\ called' = [called EXCEPT ![c] =
       [func |-> pool[TlbFunc(c)][k][ai[c]],
        args |-> [a \in Arg(k) |-> call_args[c][a + 1]]]]
  /\ groups' = [groups EXCEPT ![c] = @ - 1]
  /\ pc' = [pc EXCEPT ![c] = "ready"]
  /\ ai' = [ai EXCEPT ![c] = 0]
  /\ call_args' = [call_args EXCEPT ![c] = <<>>]
  /\ UNCHANGED <<tlb, pool, args_offset>>

\* kernel_fini, which does nothing in any case, and the end of dev_entry: what
\* tlb_data holds is of no use any more.
Fini(c) ==
  /\ pc[c] = "ready"
  /\ groups[c] = 0
  /\ pc' = [pc EXCEPT ![c] = "idle"]
  /\ tlb' = [tlb EXCEPT ![c] = None]
  /\ called' = [called EXCEPT ![c] = None]
  /\ UNCHANGED <<groups, pool, ai, args_offset, call_args>>

Next ==
  \E c \in Cores :
    \/ \E k \in KernelIdx, block \in Blocks, n \in 1 .. MaxGroups :
         Dispatch(c, k, block, n)
    \/ EnterSetArguments(c)
    \/ SetArgument(c)
    \/ SetDone(c)
    \/ EnterLaunch(c)
    \/ LaunchNothing(c)
    \/ LoadArgument(c)
    \/ CallKernel(c)
    \/ Fini(c)

Spec == Init /\ [][Next]_vars

-----------------------------------------------------------------------------
\* A core's tlb_data is its request.
Launches == INSTANCE KernelLaunches WITH request <- tlb

\* The generated functions keep the promise: whatever other cores do in
\* between, every work-group gets one call of the kernel that was asked for,
\* with the arguments of this dispatch and not those of an earlier one.
ImplementsLaunches == Launches!Spec

\* No argument is read from beyond the block the runtime packed.
ReadsStayInBlock ==
  \A c \in Cores : pc[c] = "set" /\ ai[c] < NumArgs[tlb[c].kernel_idx] =>
    args_offset[c] + ArgSize(tlb[c].kernel_idx, ai[c]) <= ArgsSize
=============================================================================
