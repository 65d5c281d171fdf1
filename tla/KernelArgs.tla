----------------------------- MODULE KernelArgs -----------------------------
(***************************************************************************)
(* The kernels of a module and how their arguments lie in a block of       *)
(* bytes: what kernel_link.cpp generates code from, and what the runtime   *)
(* that starts a kernel has to agree to.                                   *)
(***************************************************************************)
EXTENDS Integers

CONSTANTS
  NumKernels,  \* kernels are numbered as in the metadata "opencl.kernels"
  NumArgs,     \* NumArgs[k]: the number of arguments of kernel k
  ArgType,     \* ArgType[k][a]: is argument a of kernel k a pointer; its bits
  ArgOffset,   \* where the runtime puts the argument, in bytes
  ArgsSize,    \* the size of the block of arguments
  Byte,        \* what a byte holds
  Blocks,      \* the blocks of arguments the runtime comes with
  Cores,       \* the threads that run work-groups
  MaxGroups,   \* bound: work-groups a core gets with one dispatch
  None

Kernel == 0 .. NumKernels - 1
Arg(k) == 0 .. NumArgs[k] - 1

\* The field behind the arguments of a kernel's structure: its function.
FuncField(k) == NumArgs[k]
Field(k) == 0 .. NumArgs[k]

ASSUME KernelAssumption ==
  /\ NumKernels \in Nat
  /\ NumArgs \in [Kernel -> Nat]
  /\ \A k \in Kernel : ArgType[k] \in [Arg(k) -> [pointer : BOOLEAN, bits : Nat]]

\* The size of an argument in bytes, a pointer having 32 bits.
ArgSize(k, a) ==
  IF ArgType[k][a].pointer THEN 4 ELSE ArgType[k][a].bits \div 8

\* The runtime packs the arguments one behind the other, without padding.
ASSUME LayoutAssumption ==
  /\ ArgsSize \in Nat
  /\ ArgOffset \in [Kernel -> [0 .. ArgsSize -> 0 .. ArgsSize]]
  /\ \A k \in Kernel :
       /\ NumArgs[k] <= ArgsSize
       /\ ArgOffset[k][0] = 0
       /\ \A a \in Arg(k) : ArgOffset[k][a + 1] = ArgOffset[k][a] + ArgSize(k, a)

ASSUME RuntimeAssumption ==
  /\ Blocks \subseteq [0 .. ArgsSize - 1 -> Byte]
  /\ MaxGroups \in Nat
  /\ None \notin [kernel_idx : 0 .. NumKernels, args : Blocks]

\* The bytes of a value of the given size.
ReadBytes(block, offset, size) == [j \in 0 .. size - 1 |-> block[offset + j]]

\* What the runtime put in as argument a of kernel k.
Unpack(block, k, a) == ReadBytes(block, ArgOffset[k][a], ArgSize(k, a))

\* A kernel_idx the runtime may come with; that of another module has no case.
KernelIdx == 0 .. NumKernels
=============================================================================
