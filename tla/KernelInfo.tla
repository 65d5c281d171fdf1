----------------------------- MODULE KernelInfo -----------------------------
(***************************************************************************)
(* What is known of the kernels of a module: CL_KernelInfo reads it off    *)
(* the metadata, one node at a time, into lists that are flat over all     *)
(* kernels; infowrite puts the lists into global arrays, where the runtime *)
(* finds argument i of kernel k by counting.                               *)
(***************************************************************************)
EXTENDS Integers, Sequences, SequencesExt

CONSTANTS
  Names,   \* of kernels, their arguments and types
  Modules  \* the modules that may come: sequences of kernels

VARIABLES
  module,   \* the kernels of the module
  nk, md,   \* the kernel and the metadata node that are read next
  info,     \* the lists of CL_KernelInfo
  pc,       \* "kernel", "metadata", "write", "written" or "aborted"
  globals   \* the arrays infowrite leaves behind

vars == <<module, nk, md, info, pc, globals>>

Qualifiers == {"const", "restrict", "volatile"}
Attributes == {"vec_type_hint", "work_group_size_hint", "reqd_work_group_size"}

Arguments == [ space : 0 .. 3, access : {"none", "read_only", "write_only", "read_write"},
               type : Names, quals : SUBSET Qualifiers, name : Names ]

Kernels == [ name : Names, args : Seq(Arguments),
             attributes : Seq([name : Attributes, operands : Nat \X Nat \X Nat]),
             variables : Seq([addr : BOOLEAN, align : Nat]) ]

\* No attribute is given twice.
ASSUME ModulesAssumption ==
  \A m \in Modules :
    /\ m \in Seq(Kernels)
    /\ \A k \in DOMAIN m : \A i, j \in DOMAIN m[k].attributes :
         m[k].attributes[i].name = m[k].attributes[j].name => i = j

-----------------------------------------------------------------------------
(***************************************************************************)
(* What clang leaves: five nodes with an operand per argument, then one    *)
(* for every attribute.                                                    *)
(***************************************************************************)
ArgNode(name, kernel, field) ==
  [name |-> name, operands |-> [i \in DOMAIN kernel.args |-> kernel.args[i][field]]]

Nodes(kernel) ==
  << ArgNode("kernel_arg_addr_space", kernel, "space"),
     ArgNode("kernel_arg_access_qual", kernel, "access"),
     ArgNode("kernel_arg_type", kernel, "type"),
     ArgNode("kernel_arg_type_qual", kernel, "quals"),
     ArgNode("kernel_arg_name", kernel, "name") >>
  \o kernel.attributes

-----------------------------------------------------------------------------
Lists ==
  {"kernel_names", "kernel_num_args", "attr_names", "wkgp_size_hints",
   "reqd_wkgp_sizes", "priv_mem_sizes", "local_mem_sizes", "kernel_dims",
   "addr_qualifier", "access_qualifier", "arg_type_names", "arg_type_qual",
   "arg_names"}

PerKernel == Lists \ {"arg_type_names", "arg_type_qual", "arg_names"}

Init ==
  /\ module \in Modules
  /\ nk = 1 /\ md = 1
  /\ info = [l \in Lists |-> <<>>]
  /\ pc = "kernel"
  /\ globals = <<>>

\* Indexed by the address space of the operand.
SOCL_ADDR_QUAL == <<"0", "3", "2", "1">>

AccessCode(access) ==
  CASE access = "read_only" -> "3"
    [] access = "write_only" -> "2"
    [] access = "read_write" -> "1"
    [] OTHER -> "0"

\* Two slips: two qualifiers with the same bit, and bits counted from one.
TypeQualClash(quals) ==
  (IF "const" \in quals THEN 1 ELSE 0) + (IF quals \cap {"restrict", "volatile"} # {} THEN 2 ELSE 0)

TypeQualFromOne(quals) ==
  (IF "const" \in quals THEN 2 ELSE 0) + (IF "restrict" \in quals THEN 4 ELSE 0)
    + (IF "volatile" \in quals THEN 8 ELSE 0)

TypeQual(quals) ==
  (IF "const" \in quals THEN 1 ELSE 0) + (IF "restrict" \in quals THEN 2 ELSE 0)
    + (IF "volatile" \in quals THEN 4 ELSE 0)

\* The operands of a node, as many as kernel_num_args says.
Operands(node) == SubSeq(node.operands, 1, info.kernel_num_args[nk])

\* The zeros and the empty string stand for attributes the kernel has not.
BeginKernel ==
  /\ pc = "kernel"
  /\ nk <= Len(module)
  /\ info' = [info EXCEPT
       !["kernel_names"] = Append(@, module[nk].name),
       !["wkgp_size_hints"] = Append(@, <<0, 0, 0>>),
       !["reqd_wkgp_sizes"] = Append(@, <<0, 0, 0>>),
       !["attr_names"] = Append(@, "")]
  /\ md' = 1
  /\ pc' = "metadata"
  /\ UNCHANGED <<module, nk, globals>>

\* The number of arguments is known from this node on.
ReadAddrSpace(node) ==
  /\ node.name = "kernel_arg_addr_space"
  /\ info' = [info EXCEPT
       !["kernel_num_args"] = Append(@, Len(node.operands)),
       !["addr_qualifier"] =
          Append(@, [i \in DOMAIN node.operands |-> SOCL_ADDR_QUAL[node.operands[i] + 1]])]

ReadAccessQual(node) ==
  /\ node.name = "kernel_arg_access_qual"
  /\ info' = [info EXCEPT !["access_qualifier"] =
       Append(@, [i \in DOMAIN Operands(node) |-> AccessCode(node.operands[i])])]

ReadArgType(node) ==
  /\ node.name = "kernel_arg_type"
  /\ info' = [info EXCEPT !["arg_type_names"] = @ \o Operands(node)]

ReadTypeQual(node) ==
  /\ node.name = "kernel_arg_type_qual"
  /\ info' = [info EXCEPT !["arg_type_qual"] =
       @ \o [i \in DOMAIN Operands(node) |-> TypeQual(node.operands[i])]]

ReadArgName(node) ==
  /\ node.name = "kernel_arg_name"
  /\ info' = [info EXCEPT !["arg_names"] = @ \o Operands(node)]

\* A slip: the attribute goes to the module's first kernel.
FirstOne(list) == 1

\* list.back()
Back(list) == Len(list)

\* The name of the attribute takes the place of one read before.
ReadAttribute(node) ==
  LET named == [info EXCEPT !["attr_names"][Back(info["attr_names"])] = node.name] IN
     \/ node.name = "vec_type_hint" /\ info' = named
     \/ /\ node.name = "work_group_size_hint"
        /\ info' = [named EXCEPT
             !["wkgp_size_hints"][Back(info["wkgp_size_hints"])] = node.operands]
     \/ /\ node.name = "reqd_work_group_size"
        /\ info' = [named EXCEPT
             !["reqd_wkgp_sizes"][Back(info["reqd_wkgp_sizes"])] = node.operands]

ReadNode ==
  /\ pc = "metadata"
  /\ md <= Len(Nodes(module[nk]))
  /\ LET node == Nodes(module[nk])[md] IN
       \/ ReadAddrSpace(node) \/ ReadAccessQual(node) \/ ReadArgType(node)
       \/ ReadTypeQual(node) \/ ReadArgName(node) \/ ReadAttribute(node)
  /\ md' = md + 1
  /\ UNCHANGED <<module, nk, pc, globals>>

Sum(numbers) == FoldLeft(LAMBDA x, y : x + y, 0, numbers)

\* Parameters have an alloca, too, whose name ends with .addr.
PrivSize(kernel) ==
  LET declared == SelectSeq(kernel.variables, LAMBDA v : ~v.addr)
  IN Sum([i \in DOMAIN declared |-> declared[i].align])

EndKernel ==
  /\ pc = "metadata"
  /\ md > Len(Nodes(module[nk]))
  /\ info' = [info EXCEPT
       !["local_mem_sizes"] = Append(@, 0),
       !["priv_mem_sizes"] = Append(@, PrivSize(module[nk])),
       !["kernel_dims"] = Append(@, 3)]
  /\ nk' = nk + 1
  /\ pc' = IF nk < Len(module) THEN "kernel" ELSE "write"
  /\ UNCHANGED <<module, md, globals>>

\* An array without elements cannot be written: the setup functions assert.
WriteGlobals ==
  /\ pc = "write"
  /\ IF \E l \in Lists : info[l] = <<>>
       THEN pc' = "aborted" /\ UNCHANGED globals
       ELSE pc' = "written" /\ globals' = info
  /\ UNCHANGED <<module, nk, md, info>>

Ended == pc \in {"written", "aborted"} /\ UNCHANGED vars

Next == BeginKernel \/ ReadNode \/ EndKernel \/ WriteGlobals \/ Ended

Spec == Init /\ [][Next]_vars

-----------------------------------------------------------------------------
\* Where the arguments of each kernel begin in a flat list.
FlatIndex(numArgs) ==
  LET at[k \in 1 .. Len(numArgs) + 1] ==
        IF k = 1 THEN 0 ELSE at[k - 1] + numArgs[k - 1]
  IN at

\* The part of a flat list that is kernel k's, as get_arg_names_2D and the
\* counters of kernel_link.cpp find it.
ArgsOf(lists, l, k) ==
  [i \in 1 .. lists["kernel_num_args"][k] |->
     lists[l][FlatIndex(lists["kernel_num_args"])[k] + i]]

TypeOK ==
  /\ module \in Modules
  /\ nk \in 1 .. Len(module) + 1
  /\ md \in Nat \ {0}
  /\ DOMAIN info = Lists
  /\ \A l \in PerKernel : Len(info[l]) <= Len(module)
  /\ Range(info["arg_type_qual"]) \subseteq 0 .. 7
  /\ pc \in {"kernel", "metadata", "write", "written", "aborted"}

\* Whatever kernels a module has, the arrays tell of each argument what its
\* kernel's metadata says: its type, its name, and - by the codes - address
\* space, access and qualifiers.
ArgumentsRebuilt ==
  pc = "written" => \A k \in 1 .. Len(module) :
    LET args == module[k].args IN
    /\ globals["kernel_num_args"][k] = Len(args)
    /\ ArgsOf(globals, "arg_names", k) = [i \in DOMAIN args |-> args[i].name]
    /\ ArgsOf(globals, "arg_type_names", k) = [i \in DOMAIN args |-> args[i].type]
    /\ \A i, j \in DOMAIN args :
         /\ ArgsOf(globals, "arg_type_qual", k)[i] = ArgsOf(globals, "arg_type_qual", k)[j]
              => args[i].quals = args[j].quals
         /\ globals["addr_qualifier"][k][i] = globals["addr_qualifier"][k][j]
              => args[i].space = args[j].space
         /\ globals["access_qualifier"][k][i] = globals["access_qualifier"][k][j]
              => args[i].access = args[j].access

\* size is what attribute a of the kernel says; zeros if it has not got it.
Says(kernel, a, size) ==
  LET nodes == kernel.attributes IN
  /\ \A j \in DOMAIN nodes : nodes[j].name = a => size = nodes[j].operands
  /\ (\A j \in DOMAIN nodes : nodes[j].name # a) => size = <<0, 0, 0>>

\* Every kernel gets the work-group sizes of its own attributes, and zeros if
\* it has none, though a kernel is not told apart when they are read.
SizesRebuilt ==
  pc = "written" => \A k \in 1 .. Len(module) :
    /\ Says(module[k], "work_group_size_hint", globals["wkgp_size_hints"][k])
    /\ Says(module[k], "reqd_work_group_size", globals["reqd_wkgp_sizes"][k])
    /\ (globals["attr_names"][k] = "") <=> (module[k].attributes = << >>)
=============================================================================
