---------------------------- MODULE MCKernelInfo ----------------------------
(***************************************************************************)
(* Modules of one or two kernels, each with up to two arguments and any of *)
(* the attributes.                                                         *)
(***************************************************************************)
EXTENDS KernelInfo

MCNames ==
  {"k", "in", "n", "out", "tile", "lut", "int", "int*", "float*", "image2d_t"}

MCArgs ==
  { <<>>,
    << [space |-> 1, access |-> "none", type |-> "int*", quals |-> {"const", "volatile"}, name |-> "in"] >>,
    << [space |-> 0, access |-> "none", type |-> "int", quals |-> {}, name |-> "n"],
       [space |-> 1, access |-> "write_only", type |-> "image2d_t", quals |-> {"restrict"}, name |-> "out"] >>,
    << [space |-> 3, access |-> "none", type |-> "float*", quals |-> {"restrict"}, name |-> "tile"],
       [space |-> 2, access |-> "read_only", type |-> "float*", quals |-> {"volatile"}, name |-> "lut"] >> }

VecTypeHint == [name |-> "vec_type_hint", operands |-> <<8, 4, 1>>]
SizeHint(x, y, z) == [name |-> "work_group_size_hint", operands |-> <<x, y, z>>]
ReqdSize(x, y, z) == [name |-> "reqd_work_group_size", operands |-> <<x, y, z>>]

AttributeLists ==
  { << >>, <<VecTypeHint>>, <<SizeHint(8, 4, 1)>>, <<VecTypeHint, SizeHint(8, 4, 1)>>,
    <<ReqdSize(16, 1, 1)>>, <<SizeHint(2, 2, 2), ReqdSize(4, 2, 1)>> }

Locals == << [addr |-> TRUE, align |-> 4], [addr |-> FALSE, align |-> 8] >>

MCKernels ==
  {[name |-> "k", args |-> a, attributes |-> t, variables |-> Locals] :
     a \in MCArgs, t \in AttributeLists}

MCModules == {<<k>> : k \in MCKernels} \cup (MCKernels \X MCKernels)
=============================================================================
