-------------------------- MODULE KernelInfo_proofs --------------------------
(***************************************************************************)
(* What the runtime reads of a kernel's arguments and attributes is what   *)
(* the kernel's metadata says, for any module.  The lists are appended to  *)
(* without a look at the kernel; that every entry is where its kernel      *)
(* looks for it hangs on how far the reader has come in each list.         *)
(***************************************************************************)
EXTENDS KernelInfo, SequenceTheorems, WellFoundedInduction, TLAPS

NumArgs(m) == [k \in DOMAIN m |-> Len(m[k].args)]
First(m) == FlatIndex(NumArgs(m))

\* What the lists should tell of the arguments of a module's kernels.
Types(m) == [k \in DOMAIN m |-> [i \in DOMAIN m[k].args |-> m[k].args[i].type]]
ArgNames(m) == [k \in DOMAIN m |-> [i \in DOMAIN m[k].args |-> m[k].args[i].name]]
TypeQuals(m) ==
  [k \in DOMAIN m |-> [i \in DOMAIN m[k].args |-> TypeQual(m[k].args[i].quals)]]
SpaceCodes(m) == [k \in DOMAIN m |->
  [i \in DOMAIN m[k].args |-> SOCL_ADDR_QUAL[m[k].args[i].space + 1]]]
AccessCodes(m) ==
  [k \in DOMAIN m |-> [i \in DOMAIN m[k].args |-> AccessCode(m[k].args[i].access)]]

\* The kernels that were begun; those whose n-th node was read; and how many
\* attributes of kernel k were.
Begun == IF pc = "metadata" THEN nk ELSE nk - 1
Seen(n) == IF pc = "metadata" /\ md > n THEN nk ELSE nk - 1

AttributesRead(k) ==
  IF pc = "metadata" /\ k = nk THEN IF md > 6 THEN md - 6 ELSE 0
  ELSE Len(module[k].attributes)

\* The list is val[1] \o ... \o val[n], a val[k] being of m's kernel k.
Flat(m, list, S, val, n) ==
  /\ list \in Seq(S)
  /\ Len(list) = First(m)[n + 1]
  /\ \A k \in 1 .. n : \A i \in DOMAIN m[k].args : list[First(m)[k] + i] = val[k][i]

SaysUpTo(nodes, n, a, size) ==
  /\ \A j \in 1 .. n : nodes[j].name = a => size = nodes[j].operands
  /\ (\A j \in 1 .. n : nodes[j].name # a) => size = <<0, 0, 0>>

ControlOK ==
  /\ module \in Modules
  /\ nk \in 1 .. Len(module) + 1
  /\ md \in Nat \ {0}
  /\ pc \in {"kernel", "metadata", "write", "written", "aborted"}
  /\ pc = "metadata" => /\ nk <= Len(module)
                        /\ md <= Len(Nodes(module[nk])) + 1
  /\ pc \in {"write", "written", "aborted"} => nk = Len(module) + 1
  /\ pc = "written" => globals = info
  /\ DOMAIN info = Lists

LengthsOK ==
  /\ info["kernel_names"] \in Seq(Names) /\ Len(info["kernel_names"]) = Begun
  /\ info["local_mem_sizes"] \in Seq({0}) /\ Len(info["local_mem_sizes"]) = nk - 1
  /\ info["kernel_dims"] \in Seq({3}) /\ Len(info["kernel_dims"]) = nk - 1
  /\ info["priv_mem_sizes"] \in Seq({PrivSize(module[k]) : k \in DOMAIN module})
  /\ Len(info["priv_mem_sizes"]) = nk - 1

CodesOK ==
  /\ info["kernel_num_args"] = [k \in 1 .. Seen(1) |-> NumArgs(module)[k]]
  /\ info["addr_qualifier"] = [k \in 1 .. Seen(1) |-> SpaceCodes(module)[k]]
  /\ info["access_qualifier"] = [k \in 1 .. Seen(2) |-> AccessCodes(module)[k]]

FlatOK ==
  /\ Flat(module, info["arg_type_names"], Names, Types(module), Seen(3))
  /\ Flat(module, info["arg_type_qual"], 0 .. 7, TypeQuals(module), Seen(4))
  /\ Flat(module, info["arg_names"], Names, ArgNames(module), Seen(5))

Sizes == Nat \X Nat \X Nat
AttributeNames == {""} \cup Attributes

SizesOK ==
  /\ info["attr_names"] \in Seq(AttributeNames) /\ Len(info["attr_names"]) = Begun
  /\ info["wkgp_size_hints"] \in Seq(Sizes) /\ Len(info["wkgp_size_hints"]) = Begun
  /\ info["reqd_wkgp_sizes"] \in Seq(Sizes) /\ Len(info["reqd_wkgp_sizes"]) = Begun
  /\ \A k \in 1 .. Begun :
       /\ SaysUpTo(module[k].attributes, AttributesRead(k), "work_group_size_hint",
                   info["wkgp_size_hints"][k])
       /\ SaysUpTo(module[k].attributes, AttributesRead(k), "reqd_work_group_size",
                   info["reqd_wkgp_sizes"][k])
       /\ (info["attr_names"][k] = "" <=> AttributesRead(k) = 0)

IInv == ControlOK /\ LengthsOK /\ CodesOK /\ FlatOK /\ SizesOK

-----------------------------------------------------------------------------
(***************************************************************************)
(* FlatIndex adds up the numbers of arguments.                             *)
(***************************************************************************)
LEMMA SetInduction ==
  ASSUME NEW K, 0 \in K, \A k \in Nat : k \in K => k + 1 \in K
  PROVE  Nat \subseteq K
<1> DEFINE Less == OpToRel(<, Nat)
           wrong == Nat \ K
<1>1. SUFFICES ASSUME wrong # {} PROVE FALSE
  OBVIOUS
<1>2. IsWellFoundedOn(Less, Nat)
  BY NatLessThanWellFounded
<1>3. wrong \subseteq Nat
  OBVIOUS
<1>4. \A j, k \in Nat : j < k => <<j, k>> \in Less
  BY DEF OpToRel
<1> HIDE DEF Less
<1>5. PICK k \in wrong : \A j \in wrong : <<j, k>> \notin Less
  <2> HIDE DEF wrong
  <2> QED BY <1>1, <1>2, <1>3, WFMin, Zenon
<1>6. k \in Nat /\ k # 0 /\ k - 1 \in Nat /\ k - 1 < k /\ (k - 1) + 1 = k
  OBVIOUS
<1>7. k - 1 \in K
  BY <1>4, <1>5, <1>6
<1> QED BY <1>5, <1>6, <1>7

\* at solves FlatIndex's equation for the first n numbers.
Indexes(s, at, n) ==
  at = [k \in 1 .. n + 1 |-> IF k = 1 THEN 0 ELSE at[k - 1] + s[k - 1]]

LEMMA IndexesExist ==
  ASSUME NEW s, NEW n \in Nat
  PROVE  \E at : Indexes(s, at, n)
<1> DEFINE K == {m \in Nat : \E at : Indexes(s, at, m)}
<1>1. 0 \in K
  <2> DEFINE at == [k \in 1 .. 1 |-> 0]
  <2>1. Indexes(s, at, 0)
    BY DEF Indexes
  <2> QED BY <2>1
<1>2. ASSUME NEW m \in Nat, NEW h, Indexes(s, h, m)
      PROVE  \E at : Indexes(s, at, m + 1)
  <2> DEFINE at == [k \in 1 .. (m + 1) + 1 |->
                      IF k = m + 2 THEN h[m + 1] + s[m + 1] ELSE h[k]]
  <2>1. ASSUME NEW k \in 1 .. (m + 1) + 1
        PROVE  at[k] = IF k = 1 THEN 0 ELSE at[k - 1] + s[k - 1]
    <3>1. CASE k = m + 2
      <4>1. k # 1 /\ k - 1 = m + 1 /\ m + 1 \in 1 .. (m + 1) + 1 /\ m + 1 # m + 2
        BY <3>1
      <4> QED BY <3>1, <4>1
    <3>2. CASE k # m + 2
      <4>1. k \in 1 .. m + 1 /\ at[k] = h[k] /\ (k # 1 => at[k - 1] = h[k - 1])
        BY <3>2
      <4>2. h[k] = IF k = 1 THEN 0 ELSE h[k - 1] + s[k - 1]
        BY <1>2, <4>1, Zenon DEF Indexes
      <4> QED BY <4>1, <4>2
    <3> QED BY <3>1, <3>2
  <2>2. at = [k \in 1 .. (m + 1) + 1 |-> at[k]]
    OBVIOUS
  <2> HIDE DEF at
  <2>3. Indexes(s, at, m + 1)
    BY <2>1, <2>2, Zenon DEF Indexes
  <2> QED BY <2>3
<1>3. Nat \subseteq K
  <2>1. \A m \in Nat : m \in K => m + 1 \in K
    BY <1>2
  <2> HIDE DEF K
  <2> QED BY <1>1, <2>1, SetInduction
<1> QED BY <1>3

\* Kernel k's arguments begin behind all those of the kernels before it.
LEMMA FlatIndexFacts ==
  ASSUME NEW s \in Seq(Nat)
  PROVE  /\ FlatIndex(s)[1] = 0
         /\ \A k \in 1 .. Len(s) + 1 : FlatIndex(s)[k] \in Nat
         /\ \A k \in 1 .. Len(s) : FlatIndex(s)[k + 1] = FlatIndex(s)[k] + s[k]
         /\ \A j, k \in 1 .. Len(s) + 1 : j <= k => FlatIndex(s)[j] <= FlatIndex(s)[k]
<1> DEFINE at == FlatIndex(s)
<1>1. Len(s) \in Nat /\ \A k \in 1 .. Len(s) : s[k] \in Nat
  BY LenProperties, ElementOfSeq
<1>2. Indexes(s, at, Len(s))
  <2>1. PICK h : Indexes(s, h, Len(s))
    BY <1>1, IndexesExist
  <2>2. at = CHOOSE g : Indexes(s, g, Len(s))
    BY Zenon DEF FlatIndex, Indexes
  <2> QED BY <2>1, <2>2, Zenon
<1>3. ASSUME NEW k \in 1 .. Len(s) + 1
      PROVE  at[k] = IF k = 1 THEN 0 ELSE at[k - 1] + s[k - 1]
  BY <1>2, Zenon DEF Indexes
<1> HIDE DEF at
<1>4. at[1] = 0
  BY <1>1, <1>3
<1>5. ASSUME NEW k \in 1 .. Len(s) PROVE at[k + 1] = at[k] + s[k]
  <2>1. k + 1 \in 1 .. Len(s) + 1 /\ k + 1 # 1 /\ (k + 1) - 1 = k
    BY <1>1
  <2> QED BY <2>1, <1>3
<1> DEFINE K == {m \in Nat : m <= Len(s) =>
                   /\ at[m + 1] \in Nat
                   /\ \A j \in 1 .. m + 1 : at[j] \in Nat /\ at[j] <= at[m + 1]}
<1>6. 0 \in K
  <2>1. \A j \in 1 .. 1 : j = 1
    OBVIOUS
  <2> QED BY <1>4, <2>1
<1>7. ASSUME NEW m \in Nat, m \in K PROVE m + 1 \in K
  <2>1. SUFFICES ASSUME m + 1 <= Len(s)
                 PROVE  /\ at[(m + 1) + 1] \in Nat
                        /\ \A j \in 1 .. (m + 1) + 1 :
                             at[j] \in Nat /\ at[j] <= at[(m + 1) + 1]
    OBVIOUS
  <2>2. /\ at[m + 1] \in Nat
        /\ \A j \in 1 .. m + 1 : at[j] \in Nat /\ at[j] <= at[m + 1]
        /\ m + 1 \in 1 .. Len(s)
    BY <1>1, <1>7, <2>1
  <2>3. at[(m + 1) + 1] = at[m + 1] + s[m + 1] /\ s[m + 1] \in Nat
    BY <1>1, <1>5, <2>2
  <2>4. ASSUME NEW j \in 1 .. (m + 1) + 1
        PROVE  at[j] \in Nat /\ at[j] <= at[(m + 1) + 1]
    <3>1. CASE j = (m + 1) + 1
      BY <2>2, <2>3, <3>1
    <3>2. CASE j # (m + 1) + 1
      <4>1. j \in 1 .. m + 1
        BY <3>2
      <4>2. at[j] \in Nat /\ at[j] <= at[m + 1]
        BY <2>2, <4>1
      <4> QED BY <2>2, <2>3, <4>2
    <3> QED BY <3>1, <3>2
  <2> QED BY <2>2, <2>3, <2>4
<1>8. Nat \subseteq K
  <2> HIDE DEF K
  <2> QED BY <1>6, <1>7, SetInduction
<1>9. ASSUME NEW k \in 1 .. Len(s) + 1
      PROVE  at[k] \in Nat /\ \A j \in 1 .. k : at[j] <= at[k]
  <2>1. k - 1 \in Nat /\ k - 1 <= Len(s) /\ (k - 1) + 1 = k
    BY <1>1
  <2>2. k - 1 \in K
    BY <2>1, <1>8
  <2> QED BY <2>1, <2>2
<1> QED BY <1>1, <1>4, <1>5, <1>9 DEF at

-----------------------------------------------------------------------------
(***************************************************************************)
(* Modules, nodes and lists.                                               *)
(***************************************************************************)
LEMMA ModuleFacts ==
  ASSUME NEW m \in Modules
  PROVE  /\ Len(m) \in Nat /\ DOMAIN m = 1 .. Len(m)
         /\ \A k \in 1 .. Len(m) : m[k] \in Kernels
         /\ NumArgs(m) \in Seq(Nat) /\ Len(NumArgs(m)) = Len(m)
         /\ \A k \in 1 .. Len(m) : NumArgs(m)[k] = Len(m[k].args)
<1>1. m \in Seq(Kernels)
  BY ModulesAssumption
<1>2. Len(m) \in Nat /\ DOMAIN m = 1 .. Len(m) /\ \A k \in 1 .. Len(m) : m[k] \in Kernels
  BY <1>1, LenProperties, ElementOfSeq
<1>3. ASSUME NEW k \in 1 .. Len(m) PROVE Len(m[k].args) \in Nat
  <2>1. m[k].args \in Seq(Arguments)
    BY <1>2 DEF Kernels
  <2> QED BY <2>1, LenProperties
<1>4. NumArgs(m) \in [1 .. Len(m) -> Nat]
  BY <1>2, <1>3 DEF NumArgs
<1> QED BY <1>2, <1>4 DEF NumArgs

LEMMA KernelFacts ==
  ASSUME NEW kernel \in Kernels
  PROVE  /\ kernel.args \in Seq(Arguments) /\ Len(kernel.args) \in Nat
         /\ DOMAIN kernel.args = 1 .. Len(kernel.args)
         /\ \A i \in DOMAIN kernel.args : kernel.args[i] \in Arguments
         /\ Len(kernel.attributes) \in Nat
         /\ DOMAIN kernel.attributes = 1 .. Len(kernel.attributes)
         /\ \A j \in 1 .. Len(kernel.attributes) :
              /\ kernel.attributes[j].name \in Attributes
              /\ kernel.attributes[j].operands \in Sizes
<1>1. /\ kernel.args \in Seq(Arguments)
      /\ kernel.attributes \in Seq([name : Attributes, operands : Sizes])
  BY DEF Kernels, Sizes
<1>2. \A i \in DOMAIN kernel.args : kernel.args[i] \in Arguments
  BY <1>1, ElementOfSeq, LenProperties
<1>3. \A j \in 1 .. Len(kernel.attributes) :
        kernel.attributes[j] \in [name : Attributes, operands : Sizes]
  BY <1>1, ElementOfSeq
<1> QED BY <1>1, <1>2, <1>3, LenProperties

\* The n-th node: five that are of the arguments, then the attributes.
LEMMA NodesFacts ==
  ASSUME NEW kernel \in Kernels
  PROVE  /\ Len(Nodes(kernel)) = 5 + Len(kernel.attributes)
         /\ Nodes(kernel)[1] = ArgNode("kernel_arg_addr_space", kernel, "space")
         /\ Nodes(kernel)[2] = ArgNode("kernel_arg_access_qual", kernel, "access")
         /\ Nodes(kernel)[3] = ArgNode("kernel_arg_type", kernel, "type")
         /\ Nodes(kernel)[4] = ArgNode("kernel_arg_type_qual", kernel, "quals")
         /\ Nodes(kernel)[5] = ArgNode("kernel_arg_name", kernel, "name")
         /\ \A n \in 6 .. Len(Nodes(kernel)) : Nodes(kernel)[n] = kernel.attributes[n - 5]
<1> DEFINE a1 == ArgNode("kernel_arg_addr_space", kernel, "space")
           a2 == ArgNode("kernel_arg_access_qual", kernel, "access")
           a3 == ArgNode("kernel_arg_type", kernel, "type")
           a4 == ArgNode("kernel_arg_type_qual", kernel, "quals")
           a5 == ArgNode("kernel_arg_name", kernel, "name")
           five == <<a1, a2, a3, a4, a5>>
           S == {a1, a2, a3, a4, a5} \cup [name : Attributes, operands : Sizes]
<1>1. Nodes(kernel) = five \o kernel.attributes
  BY DEF Nodes
<1> HIDE DEF a1, a2, a3, a4, a5
<1>2. five \in Seq(S) /\ kernel.attributes \in Seq(S) /\ Len(kernel.attributes) \in Nat
  <2>1. kernel.attributes \in Seq([name : Attributes, operands : Sizes])
    BY DEF Kernels, Sizes
  <2>2. a1 \in S /\ a2 \in S /\ a3 \in S /\ a4 \in S /\ a5 \in S
        /\ [name : Attributes, operands : Sizes] \subseteq S
    OBVIOUS
  <2> DEFINE A == [name : Attributes, operands : Sizes]
  <2> HIDE DEF S
  <2>3. five \in Seq(S)
    BY <2>2
  <2>4. kernel.attributes \in Seq(S)
    <3>1. kernel.attributes \in Seq(A) /\ A \subseteq S
      BY <2>1, <2>2
    <3> HIDE DEF A
    <3> QED BY <3>1
  <2>5. Len(kernel.attributes) \in Nat
    BY <2>1, LenProperties
  <2> QED BY <2>3, <2>4, <2>5
<1>3. Len(five) = 5 /\ five[1] = a1 /\ five[2] = a2 /\ five[3] = a3 /\ five[4] = a4 /\ five[5] = a5
  OBVIOUS
<1> HIDE DEF five, S
<1>4. /\ Len(five \o kernel.attributes) = 5 + Len(kernel.attributes)
      /\ \A n \in 1 .. 5 : (five \o kernel.attributes)[n] = five[n]
      /\ \A n \in 6 .. 5 + Len(kernel.attributes) :
           (five \o kernel.attributes)[n] = kernel.attributes[n - 5]
  <2>1. /\ Len(five \o kernel.attributes) = Len(five) + Len(kernel.attributes)
        /\ \A n \in 1 .. Len(five) + Len(kernel.attributes) :
             (five \o kernel.attributes)[n] =
               IF n <= Len(five) THEN five[n] ELSE kernel.attributes[n - Len(five)]
    BY <1>2, ConcatProperties
  <2> QED BY <1>2, <1>3, <2>1
<1> QED BY <1>1, <1>3, <1>4 DEF a1, a2, a3, a4, a5

LEMMA PrefixGrows ==
  ASSUME NEW v, NEW n \in Nat
  PROVE  /\ Len([k \in 1 .. n |-> v[k]]) = n
         /\ Append([k \in 1 .. n |-> v[k]], v[n + 1]) = [k \in 1 .. n + 1 |-> v[k]]
<1> DEFINE S == {v[k] : k \in 1 .. n + 1}
           s == [k \in 1 .. n |-> v[k]]
<1>1. s \in Seq(S) /\ Len(s) = n /\ v[n + 1] \in S
  OBVIOUS
<1> QED BY <1>1

\* A kernel's arguments go behind those of the kernels before it.
LEMMA FlatGrows ==
  ASSUME NEW m \in Modules, NEW list, NEW S, NEW val, NEW n \in 0 .. Len(m) - 1,
         Flat(m, list, S, val, n),
         val[n + 1] \in Seq(S), Len(val[n + 1]) = Len(m[n + 1].args)
  PROVE  Flat(m, list \o val[n + 1], S, val, n + 1)
<1> DEFINE at == First(m)
           v == val[n + 1]
           r == list \o v
<1>1. Len(m) \in Nat /\ n + 1 \in 1 .. Len(m) /\ (n + 1) + 1 \in 1 .. Len(m) + 1
  BY ModuleFacts
<1>2. /\ at[n + 1] \in Nat /\ at[(n + 1) + 1] = at[n + 1] + NumArgs(m)[n + 1]
      /\ \A k \in 1 .. n : /\ at[k] \in Nat /\ at[k + 1] = at[k] + NumArgs(m)[k]
                           /\ at[k + 1] <= at[n + 1]
  <2> DEFINE s == NumArgs(m)
  <2>1. s \in Seq(Nat) /\ Len(s) = Len(m)
    BY ModuleFacts
  <2>2. at = FlatIndex(s)
    BY DEF First
  <2> HIDE DEF at, s
  <2>3. /\ \A k \in 1 .. Len(m) + 1 : at[k] \in Nat
        /\ \A k \in 1 .. Len(m) : at[k + 1] = at[k] + s[k]
        /\ \A j, k \in 1 .. Len(m) + 1 : j <= k => at[j] <= at[k]
    BY <2>1, <2>2, FlatIndexFacts
  <2>4. \A k \in 1 .. n : /\ k \in 1 .. Len(m) /\ k \in 1 .. Len(m) + 1
                          /\ k + 1 \in 1 .. Len(m) + 1 /\ k + 1 <= n + 1
    BY <1>1
  <2>5. n + 1 \in 1 .. Len(m) + 1
    BY <1>1
  <2>6. \A k \in 1 .. n : /\ at[k] \in Nat /\ at[k + 1] = at[k] + s[k]
                          /\ at[k + 1] <= at[n + 1]
    BY <2>3, <2>4, <2>5
  <2> QED BY <1>1, <2>3, <2>5, <2>6 DEF s
<1>3. \A k \in 1 .. n + 1 : /\ NumArgs(m)[k] = Len(m[k].args)
                            /\ Len(m[k].args) \in Nat
                            /\ DOMAIN m[k].args = 1 .. Len(m[k].args)
  BY <1>1, ModuleFacts, KernelFacts
<1> HIDE DEF at
<1>4. list \in Seq(S) /\ Len(list) = at[n + 1]
      /\ \A k \in 1 .. n : \A i \in DOMAIN m[k].args : list[at[k] + i] = val[k][i]
  BY DEF Flat, at
<1> HIDE DEF v
<1>5. v \in Seq(S) /\ Len(v) = Len(m[n + 1].args)
  BY DEF v
<1>6. /\ r \in Seq(S) /\ Len(r) = Len(list) + Len(v)
      /\ \A q \in 1 .. Len(list) : r[q] = list[q]
      /\ \A q \in Len(list) + 1 .. Len(list) + Len(v) : r[q] = v[q - Len(list)]
  <2>1. /\ r \in Seq(S) /\ Len(r) = Len(list) + Len(v)
        /\ \A q \in 1 .. Len(list) + Len(v) :
             r[q] = IF q <= Len(list) THEN list[q] ELSE v[q - Len(list)]
    <3>1. list \in Seq(S) /\ v \in Seq(S)
      BY <1>4, <1>5
    <3> QED BY ONLY <3>1, ConcatProperties
  <2>2. Len(list) \in Nat /\ Len(v) \in Nat
    BY <1>4, <1>5, LenProperties
  <2> HIDE DEF r
  <2> QED BY <2>1, <2>2
<1> HIDE DEF r
<1>7. Len(r) = at[(n + 1) + 1]
  <2>1. NumArgs(m)[n + 1] = Len(m[n + 1].args)
    BY <1>1, <1>3
  <2> QED BY <1>2, <1>4, <1>5, <1>6, <2>1
<1>8. ASSUME NEW k \in 1 .. n + 1, NEW i \in DOMAIN m[k].args
      PROVE  r[at[k] + i] = val[k][i]
  <2>1. CASE k = n + 1
    <3>1. i \in 1 .. Len(v) /\ Len(v) \in Nat
      BY <1>3, <1>5, <2>1
    <3>2. at[k] + i \in Len(list) + 1 .. Len(list) + Len(v) /\ (at[k] + i) - Len(list) = i
      BY <1>2, <1>4, <2>1, <3>1
    <3> QED BY <1>6, <2>1, <3>2 DEF v
  <2>2. CASE k # n + 1
    <3>1. k \in 1 .. n
      BY <2>2
    <3>2. i \in 1 .. Len(m[k].args) /\ Len(m[k].args) \in Nat
      BY <1>3
    <3>3. at[k] + i \in 1 .. Len(list)
      <4>1. /\ at[k] \in Nat /\ at[n + 1] \in Nat /\ Len(list) = at[n + 1]
            /\ at[k] + Len(m[k].args) <= at[n + 1]
        BY <1>2, <1>3, <1>4, <3>1
      <4>2. \A x, y, z \in Nat : \A j \in 1 .. y : x + y <= z => x + j \in 1 .. z
        OBVIOUS
      <4> QED BY ONLY <3>2, <4>1, <4>2
    <3> QED BY <1>4, <1>6, <3>1, <3>3
  <2> QED BY <2>1, <2>2
<1> QED BY <1>6, <1>7, <1>8 DEF Flat, at, r, v

\* The names tell the nodes apart.
LEMMA WhichNode ==
  ASSUME NEW kernel \in Kernels, NEW n \in 1 .. Len(Nodes(kernel))
  PROVE  /\ Nodes(kernel)[n].name = "kernel_arg_addr_space" <=> n = 1
         /\ Nodes(kernel)[n].name = "kernel_arg_access_qual" <=> n = 2
         /\ Nodes(kernel)[n].name = "kernel_arg_type" <=> n = 3
         /\ Nodes(kernel)[n].name = "kernel_arg_type_qual" <=> n = 4
         /\ Nodes(kernel)[n].name = "kernel_arg_name" <=> n = 5
         /\ Nodes(kernel)[n].name \in Attributes <=> n >= 6
<1> DEFINE name == Nodes(kernel)[n].name
<1>1. /\ Nodes(kernel)[1].name = "kernel_arg_addr_space"
      /\ Nodes(kernel)[2].name = "kernel_arg_access_qual"
      /\ Nodes(kernel)[3].name = "kernel_arg_type"
      /\ Nodes(kernel)[4].name = "kernel_arg_type_qual"
      /\ Nodes(kernel)[5].name = "kernel_arg_name"
  <2>1. ASSUME NEW a, NEW field PROVE ArgNode(a, kernel, field).name = a
    BY DEF ArgNode
  <2> QED BY <2>1, NodesFacts
<1>2. n >= 6 => name \in Attributes
  <2>1. SUFFICES ASSUME n >= 6 PROVE name \in Attributes
    OBVIOUS
  <2>2. /\ n \in 6 .. Len(Nodes(kernel)) /\ Len(kernel.attributes) \in Nat
        /\ Len(Nodes(kernel)) = 5 + Len(kernel.attributes)
    BY <2>1, NodesFacts, KernelFacts
  <2>3. Nodes(kernel)[n] = kernel.attributes[n - 5] /\ n - 5 \in 1 .. Len(kernel.attributes)
    BY <2>2, NodesFacts
  <2> QED BY <2>3, KernelFacts
<1>3. n \in {1, 2, 3, 4, 5} \/ n >= 6
  BY NodesFacts, KernelFacts
<1> QED BY <1>1, <1>2, <1>3 DEF Attributes

LEMMA Appended ==
  ASSUME NEW S, NEW s \in Seq(S), NEW x \in S, NEW t, t = Append(s, x),
         NEW n \in Nat, Len(s) = n - 1
  PROVE  /\ t \in Seq(S) /\ Len(t) = n /\ t[n] = x
         /\ \A k \in 1 .. n - 1 : t[k] = s[k]
<1>1. Len(s) \in Nat /\ n = Len(s) + 1
  BY LenProperties
<1> QED BY <1>1

LEMMA Replaced ==
  ASSUME NEW S, NEW s \in Seq(S), NEW n \in Nat \ {0}, Len(s) = n, NEW x \in S,
         NEW t, t = [s EXCEPT ![n] = x]
  PROVE  /\ t \in Seq(S) /\ Len(t) = n /\ t[n] = x
         /\ \A k \in 1 .. n : k # n => t[k] = s[k]
<1>1. s \in [1 .. n -> S] /\ n \in 1 .. n
  BY LenProperties
<1>2. t \in [1 .. n -> S]
  BY <1>1
<1> QED BY <1>1, <1>2

\* The next attribute says what the others do not.
LEMMA SaysGrows ==
  ASSUME NEW nodes, NEW n \in Nat, NEW a, NEW size, SaysUpTo(nodes, n, a, size),
         \A j \in 1 .. n : nodes[j].name # nodes[n + 1].name
  PROVE  SaysUpTo(nodes, n + 1, a,
                  IF nodes[n + 1].name = a THEN nodes[n + 1].operands ELSE size)
<1>1. /\ \A j \in 1 .. n + 1 : j \in 1 .. n \/ j = n + 1
      /\ \A j \in 1 .. n : j \in 1 .. n + 1
      /\ n + 1 \in 1 .. n + 1
  OBVIOUS
<1>2. CASE nodes[n + 1].name = a
  BY <1>1, <1>2 DEF SaysUpTo
<1>3. CASE nodes[n + 1].name # a
  <2>1. \A j \in 1 .. n + 1 : nodes[j].name = a => j \in 1 .. n
    BY <1>1, <1>3
  <2> QED BY <1>1, <1>3, <2>1 DEF SaysUpTo
<1> QED BY <1>2, <1>3

-----------------------------------------------------------------------------
(***************************************************************************)
(* Every step keeps the lists in step with the nodes.                      *)
(***************************************************************************)
LEMMA InitIInv == Init => IInv
<1> SUFFICES ASSUME Init PROVE IInv
  OBVIOUS
<1>1. /\ module \in Modules /\ nk = 1 /\ md = 1 /\ pc = "kernel"
      /\ info = [l \in Lists |-> << >>]
  BY DEF Init
<1>2. Begun = 0 /\ \A n : Seen(n) = 0
  BY <1>1 DEF Begun, Seen
<1>3. Len(module) \in Nat /\ First(module)[1] = 0
  BY <1>1, ModuleFacts, FlatIndexFacts DEF First
<1>4. ControlOK
  BY <1>1, <1>3 DEF ControlOK
<1>5. \A l \in Lists : info[l] = << >>
  BY <1>1
<1>6. LengthsOK
  BY <1>1, <1>2, <1>5 DEF LengthsOK, Lists
<1>7. CodesOK
  <2>1. \A v : [k \in 1 .. 0 |-> v[k]] = << >>
    OBVIOUS
  <2> QED BY <1>2, <1>5, <2>1 DEF CodesOK, Lists
<1>8. FlatOK
  <2>1. ASSUME NEW S, NEW val PROVE Flat(module, << >>, S, val, 0)
    BY <1>3 DEF Flat
  <2> QED BY <1>2, <1>5, <2>1 DEF FlatOK, Lists
<1>9. SizesOK
  <2>1. /\ info["attr_names"] = << >> /\ info["wkgp_size_hints"] = << >>
        /\ info["reqd_wkgp_sizes"] = << >>
    BY <1>5 DEF Lists
  <2>2. \A S : << >> \in Seq(S)
    OBVIOUS
  <2>3. Len(<< >>) = 0 /\ 1 .. 0 = {}
    OBVIOUS
  <2> QED BY <1>2, <2>1, <2>2, <2>3 DEF SizesOK
<1> QED BY <1>4, <1>6, <1>7, <1>8, <1>9 DEF IInv

LEMMA BeginIInv == IInv /\ BeginKernel => IInv'
<1> SUFFICES ASSUME IInv, BeginKernel PROVE IInv'
  OBVIOUS
<1>1. /\ module \in Modules /\ module' = module /\ nk' = nk /\ md' = 1
      /\ pc = "kernel" /\ pc' = "metadata" /\ nk <= Len(module)
      /\ DOMAIN info = Lists /\ nk \in 1 .. Len(module) + 1
  BY DEF IInv, ControlOK, BeginKernel
<1>2. nk \in 1 .. Len(module) /\ module[nk] \in Kernels /\ nk \in Nat
  BY <1>1, ModuleFacts
<1>3. /\ Begun = nk - 1 /\ Begun' = nk
      /\ Seen(1)' = Seen(1) /\ Seen(2)' = Seen(2) /\ Seen(3)' = Seen(3)
      /\ Seen(4)' = Seen(4) /\ Seen(5)' = Seen(5)
  BY <1>1 DEF Begun, Seen
<1>4. /\ DOMAIN info' = Lists
      /\ info'["kernel_names"] = Append(info["kernel_names"], module[nk].name)
      /\ info'["wkgp_size_hints"] = Append(info["wkgp_size_hints"], <<0, 0, 0>>)
      /\ info'["reqd_wkgp_sizes"] = Append(info["reqd_wkgp_sizes"], <<0, 0, 0>>)
      /\ info'["attr_names"] = Append(info["attr_names"], "")
      /\ \A l \in Lists \ {"kernel_names", "wkgp_size_hints", "reqd_wkgp_sizes", "attr_names"} :
           info'[l] = info[l]
  BY <1>1 DEF BeginKernel, Lists
<1>5. ControlOK'
  <2>1. 1 <= Len(Nodes(module[nk])) + 1
    BY <1>2, NodesFacts, KernelFacts
  <2>2. md' \in Nat \ {0} /\ md' <= Len(Nodes(module[nk])) + 1
    BY <1>1, <2>1
  <2> QED BY <1>1, <1>2, <1>4, <2>2 DEF ControlOK
<1>6. LengthsOK'
  <2>1. module[nk].name \in Names
    BY <1>2 DEF Kernels
  <2>2. info["kernel_names"] \in Seq(Names) /\ Len(info["kernel_names"]) = nk - 1
    BY <1>3 DEF IInv, LengthsOK
  <2>3. info'["kernel_names"] \in Seq(Names) /\ Len(info'["kernel_names"]) = nk
    <3>1. info'["kernel_names"] = Append(info["kernel_names"], module[nk].name)
      BY <1>4
    <3> QED BY ONLY <1>2, <2>1, <2>2, <3>1, Appended
  <2>4. \A l \in {"local_mem_sizes", "kernel_dims", "priv_mem_sizes"} : info'[l] = info[l]
    BY <1>4 DEF Lists
  <2> QED BY <1>1, <1>3, <2>3, <2>4 DEF IInv, LengthsOK
<1>7. CodesOK'
  BY <1>1, <1>3, <1>4 DEF IInv, CodesOK, Lists
<1>8. FlatOK'
  BY <1>1, <1>3, <1>4 DEF IInv, FlatOK, Lists
<1>9. SizesOK'
  <2>1. /\ info["attr_names"] \in Seq(AttributeNames) /\ Len(info["attr_names"]) = nk - 1
        /\ info["wkgp_size_hints"] \in Seq(Sizes) /\ Len(info["wkgp_size_hints"]) = nk - 1
        /\ info["reqd_wkgp_sizes"] \in Seq(Sizes) /\ Len(info["reqd_wkgp_sizes"]) = nk - 1
    BY <1>3 DEF IInv, SizesOK
  <2>2. <<0, 0, 0>> \in Sizes /\ "" \in AttributeNames
    BY DEF Sizes, AttributeNames
  <2>3. /\ info'["attr_names"] \in Seq(AttributeNames) /\ Len(info'["attr_names"]) = nk
        /\ info'["wkgp_size_hints"] \in Seq(Sizes) /\ Len(info'["wkgp_size_hints"]) = nk
        /\ info'["reqd_wkgp_sizes"] \in Seq(Sizes) /\ Len(info'["reqd_wkgp_sizes"]) = nk
        /\ info'["attr_names"][nk] = ""
        /\ info'["wkgp_size_hints"][nk] = <<0, 0, 0>>
        /\ info'["reqd_wkgp_sizes"][nk] = <<0, 0, 0>>
        /\ \A k \in 1 .. nk - 1 :
             /\ info'["wkgp_size_hints"][k] = info["wkgp_size_hints"][k]
             /\ info'["reqd_wkgp_sizes"][k] = info["reqd_wkgp_sizes"][k]
             /\ info'["attr_names"][k] = info["attr_names"][k]
    <3> DEFINE zeros == <<0, 0, 0>>
               none == ""
    <3>2. LET t == info'["attr_names"] IN
            /\ t \in Seq(AttributeNames) /\ Len(t) = nk /\ t[nk] = none
            /\ \A k \in 1 .. nk - 1 : t[k] = info["attr_names"][k]
      <4>1. info'["attr_names"] = Append(info["attr_names"], none)
        BY <1>4
      <4>2. info["attr_names"] \in Seq(AttributeNames) /\ Len(info["attr_names"]) = nk - 1 /\ none \in AttributeNames
        BY <2>1, <2>2
      <4> HIDE DEF zeros, none
      <4> QED BY ONLY <1>2, <4>1, <4>2, Appended
    <3>3. LET t == info'["wkgp_size_hints"] IN
            /\ t \in Seq(Sizes) /\ Len(t) = nk /\ t[nk] = zeros
            /\ \A k \in 1 .. nk - 1 : t[k] = info["wkgp_size_hints"][k]
      <4>1. info'["wkgp_size_hints"] = Append(info["wkgp_size_hints"], zeros)
        BY <1>4
      <4>2. info["wkgp_size_hints"] \in Seq(Sizes) /\ Len(info["wkgp_size_hints"]) = nk - 1 /\ zeros \in Sizes
        BY <2>1, <2>2
      <4> HIDE DEF zeros, none
      <4> QED BY ONLY <1>2, <4>1, <4>2, Appended
    <3>4. LET t == info'["reqd_wkgp_sizes"] IN
            /\ t \in Seq(Sizes) /\ Len(t) = nk /\ t[nk] = zeros
            /\ \A k \in 1 .. nk - 1 : t[k] = info["reqd_wkgp_sizes"][k]
      <4>1. info'["reqd_wkgp_sizes"] = Append(info["reqd_wkgp_sizes"], zeros)
        BY <1>4
      <4>2. info["reqd_wkgp_sizes"] \in Seq(Sizes) /\ Len(info["reqd_wkgp_sizes"]) = nk - 1 /\ zeros \in Sizes
        BY <2>1, <2>2
      <4> HIDE DEF zeros, none
      <4> QED BY ONLY <1>2, <4>1, <4>2, Appended
    <3> QED BY <3>2, <3>3, <3>4
  <2>4. ASSUME NEW k \in 1 .. nk
        PROVE  /\ SaysUpTo(module[k].attributes, AttributesRead(k)', "work_group_size_hint",
                           info'["wkgp_size_hints"][k])
               /\ SaysUpTo(module[k].attributes, AttributesRead(k)', "reqd_work_group_size",
                           info'["reqd_wkgp_sizes"][k])
               /\ (info'["attr_names"][k] = "" <=> AttributesRead(k)' = 0)
    <3>1. CASE k = nk
      <4>1. AttributesRead(k)' = 0
        BY <1>1, <3>1 DEF AttributesRead
      <4>2. \A nodes, a : SaysUpTo(nodes, 0, a, <<0, 0, 0>>)
        BY DEF SaysUpTo
      <4> QED BY <2>3, <3>1, <4>1, <4>2
    <3>2. CASE k # nk
      <4>1. k \in 1 .. nk - 1 /\ k \in 1 .. Begun
        BY <1>1, <1>3, <3>2
      <4>2. AttributesRead(k)' = AttributesRead(k)
        BY <1>1, <3>2 DEF AttributesRead
      <4>3. /\ info'["wkgp_size_hints"][k] = info["wkgp_size_hints"][k]
            /\ info'["reqd_wkgp_sizes"][k] = info["reqd_wkgp_sizes"][k]
            /\ info'["attr_names"][k] = info["attr_names"][k]
        BY <2>3, <4>1
      <4> QED BY <4>1, <4>2, <4>3 DEF IInv, SizesOK
    <3> QED BY <3>1, <3>2
  <2> QED BY <1>1, <1>3, <2>3, <2>4 DEF SizesOK
<1> QED BY <1>5, <1>6, <1>7, <1>8, <1>9 DEF IInv

\* What a step of the reader leaves alone, and how far it has come after it.
LEMMA ReadFacts ==
  ASSUME IInv, ReadNode
  PROVE  /\ module \in Modules /\ module' = module /\ nk' = nk /\ md' = md + 1
         /\ pc = "metadata" /\ pc' = "metadata" /\ globals' = globals
         /\ nk \in 1 .. Len(module) /\ nk \in Nat /\ module[nk] \in Kernels
         /\ md \in 1 .. Len(Nodes(module[nk])) /\ md \in Nat
         /\ DOMAIN info = Lists /\ Begun = nk /\ Begun' = nk
         /\ \A n \in 1 .. 5 : /\ n # md => Seen(n)' = Seen(n)
                              /\ n < md => Seen(n) = nk
                              /\ n = md => Seen(n) = nk - 1 /\ Seen(n)' = nk
         /\ \A k \in 1 .. nk :
              AttributesRead(k)' = IF k = nk /\ md >= 6 THEN AttributesRead(k) + 1
                                                        ELSE AttributesRead(k)
         /\ md >= 6 => AttributesRead(nk) = md - 6
<1>1. /\ module \in Modules /\ module' = module /\ nk' = nk /\ md' = md + 1
      /\ pc = "metadata" /\ pc' = "metadata" /\ globals' = globals
      /\ nk \in 1 .. Len(module) + 1 /\ nk <= Len(module)
      /\ md \in Nat \ {0} /\ md <= Len(Nodes(module[nk])) /\ DOMAIN info = Lists
  BY DEF IInv, ControlOK, ReadNode
<1>2. nk \in 1 .. Len(module) /\ nk \in Nat /\ module[nk] \in Kernels
  BY <1>1, ModuleFacts
<1>3. md \in 1 .. Len(Nodes(module[nk])) /\ md \in Nat
  BY <1>1, <1>2, NodesFacts, KernelFacts
<1>4. Begun = nk /\ Begun' = nk
  BY <1>1 DEF Begun
<1>5. ASSUME NEW n \in 1 .. 5
      PROVE  /\ n # md => Seen(n)' = Seen(n)
             /\ n < md => Seen(n) = nk
             /\ n = md => Seen(n) = nk - 1 /\ Seen(n)' = nk
  <2>1. Seen(n) = (IF md > n THEN nk ELSE nk - 1) /\ Seen(n)' = IF md + 1 > n THEN nk ELSE nk - 1
    BY <1>1 DEF Seen
  <2> QED BY <2>1, <1>2, <1>3
<1>6. ASSUME NEW k \in 1 .. nk
      PROVE  AttributesRead(k)' = IF k = nk /\ md >= 6 THEN AttributesRead(k) + 1
                                                       ELSE AttributesRead(k)
  <2>1. CASE k = nk
    <3>1. /\ AttributesRead(k) = (IF md > 6 THEN md - 6 ELSE 0)
          /\ AttributesRead(k)' = IF md + 1 > 6 THEN (md + 1) - 6 ELSE 0
      BY <1>1, <2>1 DEF AttributesRead
    <3> QED BY <1>3, <2>1, <3>1
  <2>2. CASE k # nk
    BY <1>1, <2>2 DEF AttributesRead
  <2> QED BY <2>1, <2>2
<1>7. md >= 6 => AttributesRead(nk) = md - 6
  <2>1. AttributesRead(nk) = IF md > 6 THEN md - 6 ELSE 0
    BY <1>1 DEF AttributesRead
  <2> QED BY <1>3, <2>1
<1> QED BY <1>1, <1>2, <1>3, <1>4, <1>5, <1>6, <1>7

\* Which of the six a node goes to.
LEMMA WhichRead ==
  ASSUME IInv, ReadNode
  PROVE  LET node == Nodes(module[nk])[md] IN
         /\ md = 1 => ReadAddrSpace(node)
         /\ md = 2 => ReadAccessQual(node)
         /\ md = 3 => ReadArgType(node)
         /\ md = 4 => ReadTypeQual(node)
         /\ md = 5 => ReadArgName(node)
         /\ md >= 6 => ReadAttribute(node)
<1> DEFINE node == Nodes(module[nk])[md]
<1>1. /\ md \in Nat
      /\ node.name = "kernel_arg_addr_space" <=> md = 1
      /\ node.name = "kernel_arg_access_qual" <=> md = 2
      /\ node.name = "kernel_arg_type" <=> md = 3
      /\ node.name = "kernel_arg_type_qual" <=> md = 4
      /\ node.name = "kernel_arg_name" <=> md = 5
      /\ node.name \in Attributes <=> md >= 6
  BY ReadFacts, WhichNode
<1>2. \/ ReadAddrSpace(node) \/ ReadAccessQual(node) \/ ReadArgType(node)
      \/ ReadTypeQual(node) \/ ReadArgName(node) \/ ReadAttribute(node)
  BY DEF ReadNode
<1> HIDE DEF node
<1>3. /\ ReadAddrSpace(node) => md = 1
      /\ ReadAccessQual(node) => md = 2
      /\ ReadArgType(node) => md = 3
      /\ ReadTypeQual(node) => md = 4
      /\ ReadArgName(node) => md = 5
  BY <1>1 DEF ReadAddrSpace, ReadAccessQual, ReadArgType, ReadTypeQual, ReadArgName
<1>4. ReadAttribute(node) => node.name \in Attributes
  BY DEF ReadAttribute, Attributes
<1>5. ReadAttribute(node) => md >= 6
  BY <1>1, <1>4
<1>6. \/ ReadAddrSpace(node) /\ md = 1
      \/ ReadAccessQual(node) /\ md = 2
      \/ ReadArgType(node) /\ md = 3
      \/ ReadTypeQual(node) /\ md = 4
      \/ ReadArgName(node) /\ md = 5
      \/ ReadAttribute(node) /\ md >= 6
  BY <1>2, <1>3, <1>5
<1>7. /\ md = 1 => ReadAddrSpace(node)
      /\ md = 2 => ReadAccessQual(node)
      /\ md = 3 => ReadArgType(node)
      /\ md = 4 => ReadTypeQual(node)
      /\ md = 5 => ReadArgName(node)
      /\ md >= 6 => ReadAttribute(node)
  BY <1>1, <1>6
<1> QED BY <1>7 DEF node

\* The nodes of the arguments have an operand for each.
LEMMA OperandsFacts ==
  ASSUME IInv, ReadNode, NEW field, NEW a, 1 < md,
         Nodes(module[nk])[md] = ArgNode(a, module[nk], field)
  PROVE  LET node == Nodes(module[nk])[md] IN
         /\ node.operands = [i \in DOMAIN module[nk].args |-> module[nk].args[i][field]]
         /\ Operands(node) = node.operands
<1> DEFINE node == Nodes(module[nk])[md]
           args == module[nk].args
           s == [i \in DOMAIN args |-> args[i][field]]
           S == {args[i][field] : i \in DOMAIN args}
<1>1. /\ node.operands = s
      /\ DOMAIN args = 1 .. Len(args) /\ Len(args) \in Nat
  BY ReadFacts, KernelFacts DEF ArgNode
<1>2. info["kernel_num_args"][nk] = Len(args)
  <2>1. Seen(1) = nk /\ nk \in 1 .. nk /\ nk \in 1 .. Len(module)
    BY ReadFacts
  <2>2. info["kernel_num_args"] = [k \in 1 .. Seen(1) |-> NumArgs(module)[k]]
    BY DEF IInv, CodesOK
  <2>3. NumArgs(module)[nk] = Len(args)
    BY <2>1, ReadFacts, ModuleFacts
  <2> QED BY <2>1, <2>2, <2>3
<1>3. s \in Seq(S) /\ Len(s) = Len(args)
  BY <1>1
<1>4. SubSeq(s, 1, Len(s)) = s
  <2> HIDE DEF s, S
  <2> QED BY <1>3
<1> HIDE DEF s
<1>5. Operands(node) = s
  BY <1>1, <1>2, <1>3, <1>4 DEF Operands
<1> QED BY <1>1, <1>5 DEF s

\* What each of them leaves in the lists.
LEMMA ReadAddrSpaceFacts ==
  ASSUME IInv, ReadNode, md = 1
  PROVE  /\ DOMAIN info' = Lists
         /\ info'["kernel_num_args"] = [k \in 1 .. nk |-> NumArgs(module)[k]]
         /\ info'["addr_qualifier"] = [k \in 1 .. nk |-> SpaceCodes(module)[k]]
         /\ \A l \in Lists \ {"kernel_num_args", "addr_qualifier"} : info'[l] = info[l]
<1> DEFINE args == module[nk].args
           node == Nodes(module[nk])[md]
<1>1. /\ nk \in 1 .. Len(module) /\ nk \in Nat /\ nk - 1 \in Nat /\ DOMAIN info = Lists
      /\ Seen(1) = nk - 1 /\ module[nk] \in Kernels /\ module \in Modules
      /\ DOMAIN args = 1 .. Len(args) /\ Len(args) \in Nat /\ nk \in DOMAIN module
  BY ReadFacts, KernelFacts, ModuleFacts
<1>2. node.operands = [i \in DOMAIN args |-> args[i]["space"]]
  <2>1. node = ArgNode("kernel_arg_addr_space", module[nk], "space")
    BY <1>1, NodesFacts
  <2> QED BY <2>1 DEF ArgNode
<1>3. ReadAddrSpace(node)
  BY WhichRead
<1> HIDE DEF node
<1>4. /\ DOMAIN info' = Lists
      /\ info'["kernel_num_args"] = Append(info["kernel_num_args"], Len(node.operands))
      /\ info'["addr_qualifier"] = Append(info["addr_qualifier"],
            [i \in DOMAIN node.operands |-> SOCL_ADDR_QUAL[node.operands[i] + 1]])
      /\ \A l \in Lists \ {"kernel_num_args", "addr_qualifier"} : info'[l] = info[l]
  BY <1>1, <1>3 DEF ReadAddrSpace, Lists
<1>5. /\ info["kernel_num_args"] = [k \in 1 .. nk - 1 |-> NumArgs(module)[k]]
      /\ info["addr_qualifier"] = [k \in 1 .. nk - 1 |-> SpaceCodes(module)[k]]
  BY <1>1 DEF IInv, CodesOK
<1>6. Len(node.operands) = NumArgs(module)[nk]
  BY <1>1, <1>2 DEF NumArgs
<1>7. [i \in DOMAIN node.operands |-> SOCL_ADDR_QUAL[node.operands[i] + 1]]
        = SpaceCodes(module)[nk]
  <2>1. SpaceCodes(module)[nk] = [i \in DOMAIN args |-> SOCL_ADDR_QUAL[args[i].space + 1]]
    BY <1>1 DEF SpaceCodes
  <2> QED BY <1>2, <2>1
<1>8. \A v : Append([k \in 1 .. nk - 1 |-> v[k]], v[nk]) = [k \in 1 .. nk |-> v[k]]
  <2>1. (nk - 1) + 1 = nk
    BY <1>1
  <2> QED BY <1>1, <2>1, PrefixGrows
<1>9. info'["kernel_num_args"] = [k \in 1 .. nk |-> NumArgs(module)[k]]
  BY ONLY <1>4, <1>5, <1>6, <1>8
<1>10. info'["addr_qualifier"] = [k \in 1 .. nk |-> SpaceCodes(module)[k]]
  <2> DEFINE code == [i \in DOMAIN node.operands |-> SOCL_ADDR_QUAL[node.operands[i] + 1]]
             codes == SpaceCodes(module)
  <2>1. /\ info'["addr_qualifier"] = Append(info["addr_qualifier"], code)
        /\ info["addr_qualifier"] = [k \in 1 .. nk - 1 |-> codes[k]]
    BY ONLY <1>4, <1>5
  <2>2. code = codes[nk]
    BY ONLY <1>7
  <2> HIDE DEF code, codes
  <2>3. info'["addr_qualifier"] = [k \in 1 .. nk |-> codes[k]]
    BY ONLY <1>8, <2>1, <2>2
  <2> QED BY <2>3 DEF codes
<1> QED BY <1>4, <1>9, <1>10

LEMMA ReadAccessQualFacts ==
  ASSUME IInv, ReadNode, md = 2
  PROVE  /\ DOMAIN info' = Lists
         /\ info'["access_qualifier"] = [k \in 1 .. nk |-> AccessCodes(module)[k]]
         /\ \A l \in Lists \ {"access_qualifier"} : info'[l] = info[l]
<1> DEFINE args == module[nk].args
           node == Nodes(module[nk])[md]
<1>1. /\ nk \in 1 .. Len(module) /\ nk \in Nat /\ nk - 1 \in Nat /\ DOMAIN info = Lists
      /\ Seen(2) = nk - 1 /\ module[nk] \in Kernels /\ module \in Modules
      /\ nk \in DOMAIN module
  BY ReadFacts, ModuleFacts
<1>2. /\ node.operands = [i \in DOMAIN args |-> args[i]["access"]]
      /\ Operands(node) = node.operands
  <2>1. node = ArgNode("kernel_arg_access_qual", module[nk], "access")
    BY <1>1, NodesFacts
  <2> QED BY <2>1, OperandsFacts
<1>3. ReadAccessQual(node)
  BY WhichRead
<1> HIDE DEF node
<1>4. /\ DOMAIN info' = Lists
      /\ info'["access_qualifier"] = Append(info["access_qualifier"],
            [i \in DOMAIN Operands(node) |-> AccessCode(node.operands[i])])
      /\ \A l \in Lists \ {"access_qualifier"} : info'[l] = info[l]
  BY <1>1, <1>3 DEF ReadAccessQual, Lists
<1>5. info["access_qualifier"] = [k \in 1 .. nk - 1 |-> AccessCodes(module)[k]]
  BY <1>1 DEF IInv, CodesOK
<1>6. [i \in DOMAIN Operands(node) |-> AccessCode(node.operands[i])] = AccessCodes(module)[nk]
  <2>1. AccessCodes(module)[nk] = [i \in DOMAIN args |-> AccessCode(args[i].access)]
    BY <1>1 DEF AccessCodes
  <2>2. Operands(node) = [i \in DOMAIN args |-> args[i].access]
        /\ node.operands = [i \in DOMAIN args |-> args[i].access]
    BY <1>2
  <2> QED BY <2>1, <2>2
<1>7. \A v : Append([k \in 1 .. nk - 1 |-> v[k]], v[nk]) = [k \in 1 .. nk |-> v[k]]
  <2>1. (nk - 1) + 1 = nk
    BY <1>1
  <2> QED BY <1>1, <2>1, PrefixGrows
<1>8. info'["access_qualifier"] = [k \in 1 .. nk |-> AccessCodes(module)[k]]
  BY ONLY <1>4, <1>5, <1>6, <1>7
<1> QED BY <1>4, <1>8

LEMMA ReadArgTypeFacts ==
  ASSUME IInv, ReadNode, md = 3
  PROVE  /\ DOMAIN info' = Lists
         /\ Flat(module, info'["arg_type_names"], Names, Types(module), nk)
         /\ \A l \in Lists \ {"arg_type_names"} : info'[l] = info[l]
<1> DEFINE args == module[nk].args
           node == Nodes(module[nk])[md]
           value == Types(module)[nk]
<1>1. /\ nk \in 1 .. Len(module) /\ nk \in Nat /\ nk - 1 \in 0 .. Len(module) - 1
      /\ DOMAIN info = Lists /\ Seen(3) = nk - 1 /\ module[nk] \in Kernels
      /\ module \in Modules /\ nk \in DOMAIN module /\ (nk - 1) + 1 = nk
      /\ DOMAIN args = 1 .. Len(args) /\ Len(args) \in Nat
      /\ \A i \in DOMAIN args : args[i] \in Arguments
  <2>1. /\ nk \in 1 .. Len(module) /\ nk \in Nat /\ DOMAIN info = Lists
        /\ module[nk] \in Kernels /\ module \in Modules
    BY ReadFacts
  <2>2. Seen(3) = nk - 1
    BY ReadFacts
  <2>3. Len(module) \in Nat /\ DOMAIN module = 1 .. Len(module)
    BY <2>1, ModuleFacts
  <2>4. /\ DOMAIN args = 1 .. Len(args) /\ Len(args) \in Nat
        /\ \A i \in DOMAIN args : args[i] \in Arguments
    BY <2>1, KernelFacts
  <2>5. nk - 1 \in 0 .. Len(module) - 1 /\ (nk - 1) + 1 = nk /\ nk \in DOMAIN module
    BY <2>1, <2>3
  <2> QED BY <2>1, <2>2, <2>4, <2>5
<1>2. Operands(node) = [i \in DOMAIN args |-> args[i]["type"]]
  <2>1. node = ArgNode("kernel_arg_type", module[nk], "type")
    BY <1>1, NodesFacts
  <2> QED BY <2>1, OperandsFacts
<1>3. ReadArgType(node)
  BY WhichRead
<1> HIDE DEF node
<1>4. /\ DOMAIN info' = Lists
      /\ info'["arg_type_names"] = info["arg_type_names"] \o Operands(node)
      /\ \A l \in Lists \ {"arg_type_names"} : info'[l] = info[l]
  BY <1>1, <1>3 DEF ReadArgType, Lists
<1>5. Flat(module, info["arg_type_names"], Names, Types(module), nk - 1)
  BY <1>1 DEF IInv, FlatOK
<1>6. value = [i \in DOMAIN args |-> args[i].type]
  BY <1>1 DEF Types
<1>7. Operands(node) = value /\ value \in Seq(Names) /\ Len(value) = Len(args)
  <2>1. \A i \in DOMAIN args : args[i].type \in Names
    BY <1>1 DEF Arguments
  <2> QED BY <1>1, <1>2, <1>6, <2>1
<1>8. Flat(module, info["arg_type_names"] \o value, Names, Types(module), nk)
  <2> DEFINE n == nk - 1
             old == info["arg_type_names"]
             val == Types(module)
  <2>1. /\ n \in 0 .. Len(module) - 1 /\ Flat(module, old, Names, val, n) /\ n + 1 = nk
        /\ val[n + 1] \in Seq(Names) /\ Len(val[n + 1]) = Len(module[n + 1].args)
    BY <1>1, <1>5, <1>7
  <2> HIDE DEF n, old, val
  <2>2. Flat(module, old \o val[n + 1], Names, val, n + 1)
    BY <1>1, <2>1, FlatGrows
  <2> QED BY <2>1, <2>2 DEF old, val
<1> QED BY <1>4, <1>7, <1>8
LEMMA ReadTypeQualFacts ==
  ASSUME IInv, ReadNode, md = 4
  PROVE  /\ DOMAIN info' = Lists
         /\ Flat(module, info'["arg_type_qual"], 0 .. 7, TypeQuals(module), nk)
         /\ \A l \in Lists \ {"arg_type_qual"} : info'[l] = info[l]
<1> DEFINE args == module[nk].args
           node == Nodes(module[nk])[md]
           value == TypeQuals(module)[nk]
<1>1. /\ nk \in 1 .. Len(module) /\ nk \in Nat /\ nk - 1 \in 0 .. Len(module) - 1
      /\ DOMAIN info = Lists /\ Seen(4) = nk - 1 /\ module[nk] \in Kernels
      /\ module \in Modules /\ nk \in DOMAIN module /\ (nk - 1) + 1 = nk
      /\ DOMAIN args = 1 .. Len(args) /\ Len(args) \in Nat
      /\ \A i \in DOMAIN args : args[i] \in Arguments
  <2>1. /\ nk \in 1 .. Len(module) /\ nk \in Nat /\ DOMAIN info = Lists
        /\ module[nk] \in Kernels /\ module \in Modules
    BY ReadFacts
  <2>2. Seen(4) = nk - 1
    BY ReadFacts
  <2>3. Len(module) \in Nat /\ DOMAIN module = 1 .. Len(module)
    BY <2>1, ModuleFacts
  <2>4. /\ DOMAIN args = 1 .. Len(args) /\ Len(args) \in Nat
        /\ \A i \in DOMAIN args : args[i] \in Arguments
    BY <2>1, KernelFacts
  <2>5. nk - 1 \in 0 .. Len(module) - 1 /\ (nk - 1) + 1 = nk /\ nk \in DOMAIN module
    BY <2>1, <2>3
  <2> QED BY <2>1, <2>2, <2>4, <2>5
<1>2. /\ node.operands = [i \in DOMAIN args |-> args[i]["quals"]]
      /\ Operands(node) = node.operands
  <2>1. node = ArgNode("kernel_arg_type_qual", module[nk], "quals")
    BY <1>1, NodesFacts
  <2> QED BY <2>1, OperandsFacts
<1>3. ReadTypeQual(node)
  BY WhichRead
<1> HIDE DEF node
<1>4. /\ DOMAIN info' = Lists
      /\ info'["arg_type_qual"] = info["arg_type_qual"]
            \o [i \in DOMAIN Operands(node) |-> TypeQual(node.operands[i])]
      /\ \A l \in Lists \ {"arg_type_qual"} : info'[l] = info[l]
  BY <1>1, <1>3 DEF ReadTypeQual, Lists
<1>5. Flat(module, info["arg_type_qual"], 0 .. 7, TypeQuals(module), nk - 1)
  BY <1>1 DEF IInv, FlatOK
<1>6. value = [i \in DOMAIN args |-> TypeQual(args[i].quals)]
  BY <1>1 DEF TypeQuals
<1>7. /\ [i \in DOMAIN Operands(node) |-> TypeQual(node.operands[i])] = value
      /\ value \in Seq(0 .. 7) /\ Len(value) = Len(args)
  <2>1. ASSUME NEW quals PROVE TypeQual(quals) \in 0 .. 7
    BY DEF TypeQual
  <2>2. [i \in DOMAIN Operands(node) |-> TypeQual(node.operands[i])] = value
    BY <1>2, <1>6
  <2>3. value \in Seq(0 .. 7) /\ Len(value) = Len(args)
    <3> DEFINE q(i) == TypeQual(args[i].quals)
    <3>1. \A i : q(i) \in 0 .. 7
      BY <2>1
    <3>2. value = [i \in 1 .. Len(args) |-> q(i)]
      BY <1>1, <1>6
    <3> HIDE DEF q, value
    <3> QED BY <1>1, <3>1, <3>2
  <2> QED BY <2>2, <2>3
<1>8. Flat(module, info["arg_type_qual"] \o value, 0 .. 7, TypeQuals(module), nk)
  <2> DEFINE n == nk - 1
             old == info["arg_type_qual"]
             val == TypeQuals(module)
  <2>1. /\ n \in 0 .. Len(module) - 1 /\ Flat(module, old, 0 .. 7, val, n) /\ n + 1 = nk
        /\ val[n + 1] \in Seq(0 .. 7) /\ Len(val[n + 1]) = Len(module[n + 1].args)
    BY <1>1, <1>5, <1>7
  <2> HIDE DEF n, old, val
  <2>2. Flat(module, old \o val[n + 1], 0 .. 7, val, n + 1)
    BY <1>1, <2>1, FlatGrows
  <2> QED BY <2>1, <2>2 DEF old, val
<1> QED BY <1>4, <1>7, <1>8
LEMMA ReadArgNameFacts ==
  ASSUME IInv, ReadNode, md = 5
  PROVE  /\ DOMAIN info' = Lists
         /\ Flat(module, info'["arg_names"], Names, ArgNames(module), nk)
         /\ \A l \in Lists \ {"arg_names"} : info'[l] = info[l]
<1> DEFINE args == module[nk].args
           node == Nodes(module[nk])[md]
           value == ArgNames(module)[nk]
<1>1. /\ nk \in 1 .. Len(module) /\ nk \in Nat /\ nk - 1 \in 0 .. Len(module) - 1
      /\ DOMAIN info = Lists /\ Seen(5) = nk - 1 /\ module[nk] \in Kernels
      /\ module \in Modules /\ nk \in DOMAIN module /\ (nk - 1) + 1 = nk
      /\ DOMAIN args = 1 .. Len(args) /\ Len(args) \in Nat
      /\ \A i \in DOMAIN args : args[i] \in Arguments
  <2>1. /\ nk \in 1 .. Len(module) /\ nk \in Nat /\ DOMAIN info = Lists
        /\ module[nk] \in Kernels /\ module \in Modules
    BY ReadFacts
  <2>2. Seen(5) = nk - 1
    BY ReadFacts
  <2>3. Len(module) \in Nat /\ DOMAIN module = 1 .. Len(module)
    BY <2>1, ModuleFacts
  <2>4. /\ DOMAIN args = 1 .. Len(args) /\ Len(args) \in Nat
        /\ \A i \in DOMAIN args : args[i] \in Arguments
    BY <2>1, KernelFacts
  <2>5. nk - 1 \in 0 .. Len(module) - 1 /\ (nk - 1) + 1 = nk /\ nk \in DOMAIN module
    BY <2>1, <2>3
  <2> QED BY <2>1, <2>2, <2>4, <2>5
<1>2. Operands(node) = [i \in DOMAIN args |-> args[i]["name"]]
  <2>1. node = ArgNode("kernel_arg_name", module[nk], "name")
    BY <1>1, NodesFacts
  <2> QED BY <2>1, OperandsFacts
<1>3. ReadArgName(node)
  BY WhichRead
<1> HIDE DEF node
<1>4. /\ DOMAIN info' = Lists
      /\ info'["arg_names"] = info["arg_names"] \o Operands(node)
      /\ \A l \in Lists \ {"arg_names"} : info'[l] = info[l]
  BY <1>1, <1>3 DEF ReadArgName, Lists
<1>5. Flat(module, info["arg_names"], Names, ArgNames(module), nk - 1)
  BY <1>1 DEF IInv, FlatOK
<1>6. value = [i \in DOMAIN args |-> args[i].name]
  BY <1>1 DEF ArgNames
<1>7. Operands(node) = value /\ value \in Seq(Names) /\ Len(value) = Len(args)
  <2>1. \A i \in DOMAIN args : args[i].name \in Names
    BY <1>1 DEF Arguments
  <2> QED BY <1>1, <1>2, <1>6, <2>1
<1>8. Flat(module, info["arg_names"] \o value, Names, ArgNames(module), nk)
  <2> DEFINE n == nk - 1
             old == info["arg_names"]
             val == ArgNames(module)
  <2>1. /\ n \in 0 .. Len(module) - 1 /\ Flat(module, old, Names, val, n) /\ n + 1 = nk
        /\ val[n + 1] \in Seq(Names) /\ Len(val[n + 1]) = Len(module[n + 1].args)
    BY <1>1, <1>5, <1>7
  <2> HIDE DEF n, old, val
  <2>2. Flat(module, old \o val[n + 1], Names, val, n + 1)
    BY <1>1, <2>1, FlatGrows
  <2> QED BY <2>1, <2>2 DEF old, val
<1> QED BY <1>4, <1>7, <1>8

\* An attribute's name and sizes are those of the kernel begun last.
LEMMA ReadAttributeFacts ==
  ASSUME IInv, ReadNode, md >= 6
  PROVE  LET node == module[nk].attributes[md - 5] IN
         /\ md - 5 \in 1 .. Len(module[nk].attributes)
         /\ DOMAIN info' = Lists
         /\ info'["attr_names"] = [info["attr_names"] EXCEPT ![nk] = node.name]
         /\ info'["wkgp_size_hints"] =
              IF node.name = "work_group_size_hint"
                THEN [info["wkgp_size_hints"] EXCEPT ![nk] = node.operands]
                ELSE info["wkgp_size_hints"]
         /\ info'["reqd_wkgp_sizes"] =
              IF node.name = "reqd_work_group_size"
                THEN [info["reqd_wkgp_sizes"] EXCEPT ![nk] = node.operands]
                ELSE info["reqd_wkgp_sizes"]
         /\ \A l \in Lists \ {"attr_names", "wkgp_size_hints", "reqd_wkgp_sizes"} :
              info'[l] = info[l]
<1> DEFINE node == module[nk].attributes[md - 5]
<1>1. /\ DOMAIN info = Lists /\ Begun = nk /\ module[nk] \in Kernels
      /\ md \in 1 .. Len(Nodes(module[nk])) /\ md \in Nat
  BY ReadFacts
<1>2. /\ Len(Nodes(module[nk])) = 5 + Len(module[nk].attributes)
      /\ Len(module[nk].attributes) \in Nat
  BY <1>1, NodesFacts, KernelFacts
<1>3. md - 5 \in 1 .. Len(module[nk].attributes) /\ md \in 6 .. Len(Nodes(module[nk]))
  BY <1>1, <1>2
<1>4. Nodes(module[nk])[md] = node
  BY <1>1, <1>3, NodesFacts
<1>5. ReadAttribute(node)
  BY <1>4, WhichRead
<1> HIDE DEF node
<1>6. /\ Back(info["attr_names"]) = nk
      /\ Back(info["wkgp_size_hints"]) = nk
      /\ Back(info["reqd_wkgp_sizes"]) = nk
  BY <1>1 DEF IInv, SizesOK, Back
<1> DEFINE named == [info EXCEPT !["attr_names"][nk] = node.name]
           rest == Lists \ {"attr_names", "wkgp_size_hints", "reqd_wkgp_sizes"}
<1>7. /\ DOMAIN named = Lists
      /\ named["attr_names"] = [info["attr_names"] EXCEPT ![nk] = node.name]
      /\ \A l \in Lists \ {"attr_names"} : named[l] = info[l]
  BY <1>1 DEF Lists
<1>8. \/ node.name = "vec_type_hint" /\ info' = named
      \/ /\ node.name = "work_group_size_hint"
         /\ info' = [named EXCEPT !["wkgp_size_hints"][nk] = node.operands]
      \/ /\ node.name = "reqd_work_group_size"
         /\ info' = [named EXCEPT !["reqd_wkgp_sizes"][nk] = node.operands]
  BY <1>5, <1>6, Zenon DEF ReadAttribute
<1> HIDE DEF named
<1>9. CASE node.name = "vec_type_hint" /\ info' = named
  BY <1>3, <1>7, <1>9 DEF Lists, node
<1>10. CASE /\ node.name = "work_group_size_hint"
            /\ info' = [named EXCEPT !["wkgp_size_hints"][nk] = node.operands]
  BY <1>3, <1>7, <1>10 DEF Lists, node
<1>11. CASE /\ node.name = "reqd_work_group_size"
            /\ info' = [named EXCEPT !["reqd_wkgp_sizes"][nk] = node.operands]
  BY <1>3, <1>7, <1>11 DEF Lists, node
<1> QED BY <1>8, <1>9, <1>10, <1>11

LEMMA ReadIInv == IInv /\ ReadNode => IInv'
<1> SUFFICES ASSUME IInv, ReadNode PROVE IInv'
  OBVIOUS
<1>1. /\ module \in Modules /\ module' = module /\ nk' = nk /\ md' = md + 1
      /\ pc = "metadata" /\ pc' = "metadata" /\ globals' = globals
      /\ nk \in 1 .. Len(module) /\ nk \in Nat /\ module[nk] \in Kernels
      /\ md \in 1 .. Len(Nodes(module[nk])) /\ md \in Nat
      /\ DOMAIN info = Lists /\ Begun = nk /\ Begun' = nk
  BY ReadFacts
<1>2. \A n \in 1 .. 5 : /\ n # md => Seen(n)' = Seen(n)
                        /\ n < md => Seen(n) = nk
                        /\ n = md => Seen(n) = nk - 1 /\ Seen(n)' = nk
  BY ReadFacts
<1>3. /\ Seen(1)' = (IF md = 1 THEN nk ELSE Seen(1))
      /\ Seen(2)' = (IF md = 2 THEN nk ELSE Seen(2))
      /\ Seen(3)' = (IF md = 3 THEN nk ELSE Seen(3))
      /\ Seen(4)' = (IF md = 4 THEN nk ELSE Seen(4))
      /\ Seen(5)' = (IF md = 5 THEN nk ELSE Seen(5))
  BY <1>2
<1>4. \/ md = 1 \/ md = 2 \/ md = 3 \/ md = 4 \/ md = 5
      \/ md >= 6
  BY <1>1
<1>5. DOMAIN info' = Lists
  BY <1>4, ReadAddrSpaceFacts, ReadAccessQualFacts, ReadArgTypeFacts, ReadTypeQualFacts,
     ReadArgNameFacts, ReadAttributeFacts
<1>6. \A l \in {"kernel_names", "local_mem_sizes", "kernel_dims", "priv_mem_sizes"} :
        info'[l] = info[l]
  <2>1. CASE md = 1
    BY <2>1, ReadAddrSpaceFacts DEF Lists
  <2>2. CASE md = 2
    BY <2>2, ReadAccessQualFacts DEF Lists
  <2>3. CASE md = 3
    BY <2>3, ReadArgTypeFacts DEF Lists
  <2>4. CASE md = 4
    BY <2>4, ReadTypeQualFacts DEF Lists
  <2>5. CASE md = 5
    BY <2>5, ReadArgNameFacts DEF Lists
  <2>6. CASE md >= 6
    BY <2>6, ReadAttributeFacts DEF Lists
  <2> QED BY <1>4, <2>1, <2>2, <2>3, <2>4, <2>5, <2>6
<1>7. ControlOK'
  <2>1. md + 1 \in Nat \ {0} /\ md + 1 <= Len(Nodes(module[nk])) + 1
        /\ nk \in 1 .. Len(module) + 1 /\ nk <= Len(module)
    BY <1>1, NodesFacts, KernelFacts, ModuleFacts
  <2> QED BY <1>1, <1>5, <2>1 DEF ControlOK
<1>8. LengthsOK'
  BY <1>1, <1>6 DEF IInv, LengthsOK
<1>9. CodesOK'
  <2>1. CASE md = 1
    <3>1. info'["access_qualifier"] = info["access_qualifier"] /\ Seen(1)' = nk /\ Seen(2)' = Seen(2)
      BY <1>3, <2>1, ReadAddrSpaceFacts DEF Lists
    <3> QED BY <1>1, <2>1, <3>1, ReadAddrSpaceFacts DEF IInv, CodesOK
  <2>2. CASE md = 2
    <3>1. /\ info'["kernel_num_args"] = info["kernel_num_args"]
          /\ info'["addr_qualifier"] = info["addr_qualifier"]
          /\ Seen(1)' = Seen(1) /\ Seen(2)' = nk
      BY <1>3, <2>2, ReadAccessQualFacts DEF Lists
    <3> QED BY <1>1, <2>2, <3>1, ReadAccessQualFacts DEF IInv, CodesOK
  <2>3. CASE md \notin {1, 2}
    <3>1. \A l \in {"kernel_num_args", "addr_qualifier", "access_qualifier"} : info'[l] = info[l]
      <4>1. CASE md = 3
        BY <4>1, ReadArgTypeFacts DEF Lists
      <4>2. CASE md = 4
        BY <4>2, ReadTypeQualFacts DEF Lists
      <4>3. CASE md = 5
        BY <4>3, ReadArgNameFacts DEF Lists
      <4>4. CASE md >= 6
        BY <4>4, ReadAttributeFacts DEF Lists
      <4> QED BY <1>4, <2>3, <4>1, <4>2, <4>3, <4>4
    <3>2. Seen(1)' = Seen(1) /\ Seen(2)' = Seen(2)
      BY <1>3, <2>3
    <3> QED BY <1>1, <3>1, <3>2 DEF IInv, CodesOK
  <2> QED BY <2>1, <2>2, <2>3
<1>10. FlatOK'
  <2> DEFINE FlatLists == {"arg_type_names", "arg_type_qual", "arg_names"}
  <2>1. CASE md = 3
    <3>1. \A l \in FlatLists \ {"arg_type_names"} : info'[l] = info[l]
      BY <2>1, ReadArgTypeFacts DEF Lists
    <3> QED BY <1>1, <1>3, <2>1, <3>1, ReadArgTypeFacts DEF IInv, FlatOK
  <2>2. CASE md = 4
    <3>1. \A l \in FlatLists \ {"arg_type_qual"} : info'[l] = info[l]
      BY <2>2, ReadTypeQualFacts DEF Lists
    <3> QED BY <1>1, <1>3, <2>2, <3>1, ReadTypeQualFacts DEF IInv, FlatOK
  <2>3. CASE md = 5
    <3>1. \A l \in FlatLists \ {"arg_names"} : info'[l] = info[l]
      BY <2>3, ReadArgNameFacts DEF Lists
    <3> QED BY <1>1, <1>3, <2>3, <3>1, ReadArgNameFacts DEF IInv, FlatOK
  <2>4. CASE md \notin {3, 4, 5}
    <3>1. \A l \in FlatLists : info'[l] = info[l]
      <4>1. CASE md = 1
        BY <4>1, ReadAddrSpaceFacts DEF Lists
      <4>2. CASE md = 2
        BY <4>2, ReadAccessQualFacts DEF Lists
      <4>3. CASE md >= 6
        BY <4>3, ReadAttributeFacts DEF Lists
      <4> QED BY <1>4, <2>4, <4>1, <4>2, <4>3
    <3> QED BY <1>1, <1>3, <2>4, <3>1 DEF IInv, FlatOK
  <2> QED BY <2>1, <2>2, <2>3, <2>4
<1>11. SizesOK'
  <2>1. CASE md < 6
    <3>1. \A l \in {"attr_names", "wkgp_size_hints", "reqd_wkgp_sizes"} : info'[l] = info[l]
      <4>1. CASE md = 1
        BY <4>1, ReadAddrSpaceFacts DEF Lists
      <4>2. CASE md = 2
        BY <4>2, ReadAccessQualFacts DEF Lists
      <4>3. CASE md = 3
        BY <4>3, ReadArgTypeFacts DEF Lists
      <4>4. CASE md = 4
        BY <4>4, ReadTypeQualFacts DEF Lists
      <4>5. CASE md = 5
        BY <4>5, ReadArgNameFacts DEF Lists
      <4> QED BY <1>1, <2>1, <4>1, <4>2, <4>3, <4>4, <4>5
    <3>2. \A k \in 1 .. nk : AttributesRead(k)' = AttributesRead(k)
      BY <1>1, <2>1, ReadFacts
    <3> QED BY <1>1, <3>1, <3>2 DEF IInv, SizesOK
  <2>2. CASE md >= 6
    <3> DEFINE node == module[nk].attributes[md - 5]
               n == md - 6
    <3>1. /\ md - 5 \in 1 .. Len(module[nk].attributes) /\ n \in Nat /\ md - 5 = n + 1
          /\ node.name \in Attributes /\ node.operands \in Sizes
      BY <1>1, <2>2, ReadAttributeFacts, KernelFacts
    <3>2. /\ info'["attr_names"] = [info["attr_names"] EXCEPT ![nk] = node.name]
          /\ info'["wkgp_size_hints"] =
               IF node.name = "work_group_size_hint"
                 THEN [info["wkgp_size_hints"] EXCEPT ![nk] = node.operands]
                 ELSE info["wkgp_size_hints"]
          /\ info'["reqd_wkgp_sizes"] =
               IF node.name = "reqd_work_group_size"
                 THEN [info["reqd_wkgp_sizes"] EXCEPT ![nk] = node.operands]
                 ELSE info["reqd_wkgp_sizes"]
      BY <2>2, ReadAttributeFacts
    <3>3. /\ AttributesRead(nk) = n /\ AttributesRead(nk)' = n + 1
          /\ \A k \in 1 .. nk : k # nk => AttributesRead(k)' = AttributesRead(k)
      <4>1. AttributesRead(nk) = n
        BY <2>2, ReadFacts
      <4>2. \A k \in 1 .. nk :
              AttributesRead(k)' = IF k = nk /\ md >= 6 THEN AttributesRead(k) + 1
                                                        ELSE AttributesRead(k)
        BY ReadFacts
      <4>3. nk \in 1 .. nk /\ nk' = nk
        BY <1>1
      <4>4. AttributesRead(nk)' = n + 1
        BY <2>2, <4>1, <4>2, <4>3
      <4> QED BY <4>1, <4>2, <4>4
    <3>4. node = module[nk].attributes[n + 1]
      BY <3>1
    <3> HIDE DEF node, n
    <3>5. /\ info["attr_names"] \in Seq(AttributeNames) /\ Len(info["attr_names"]) = nk
          /\ info["wkgp_size_hints"] \in Seq(Sizes) /\ Len(info["wkgp_size_hints"]) = nk
          /\ info["reqd_wkgp_sizes"] \in Seq(Sizes) /\ Len(info["reqd_wkgp_sizes"]) = nk
          /\ \A k \in 1 .. nk :
               /\ SaysUpTo(module[k].attributes, AttributesRead(k), "work_group_size_hint",
                           info["wkgp_size_hints"][k])
               /\ SaysUpTo(module[k].attributes, AttributesRead(k), "reqd_work_group_size",
                           info["reqd_wkgp_sizes"][k])
               /\ (info["attr_names"][k] = "" <=> AttributesRead(k) = 0)
      BY <1>1 DEF IInv, SizesOK
    <3>6. nk \in Nat \ {0}
      BY <1>1
    <3>7. /\ info'["attr_names"] \in Seq(AttributeNames) /\ Len(info'["attr_names"]) = nk
          /\ info'["attr_names"][nk] = node.name
          /\ \A k \in 1 .. nk : k # nk => info'["attr_names"][k] = info["attr_names"][k]
      <4> DEFINE s == info["attr_names"]
                 t == info'["attr_names"]
                 x == node.name
      <4>1. /\ t = [s EXCEPT ![nk] = x]
            /\ s \in Seq(AttributeNames) /\ Len(s) = nk /\ x \in AttributeNames
        BY <3>1, <3>2, <3>5 DEF AttributeNames
      <4> HIDE DEF s, t, x
      <4>2. /\ t \in Seq(AttributeNames) /\ Len(t) = nk /\ t[nk] = x
            /\ \A k \in 1 .. nk : k # nk => t[k] = s[k]
        BY ONLY <3>6, <4>1, Replaced
      <4> QED BY <4>2 DEF s, t, x
    <3>8. LET t == info'["wkgp_size_hints"] IN
          /\ t \in Seq(Sizes) /\ Len(t) = nk
          /\ t[nk] = IF node.name = "work_group_size_hint" THEN node.operands
                                                  ELSE info["wkgp_size_hints"][nk]
          /\ \A k \in 1 .. nk : k # nk => t[k] = info["wkgp_size_hints"][k]
      <4> DEFINE s == info["wkgp_size_hints"]
                 t == info'["wkgp_size_hints"]
                 x == node.operands
      <4>0. t = IF node.name = "work_group_size_hint" THEN [s EXCEPT ![nk] = x] ELSE s
        BY ONLY <3>2
      <4>1. /\ t = IF node.name = "work_group_size_hint" THEN [s EXCEPT ![nk] = x] ELSE s
            /\ s \in Seq(Sizes) /\ Len(s) = nk /\ x \in Sizes /\ nk \in Nat \ {0}
        BY <3>1, <3>5, <3>6, <4>0
      <4> HIDE DEF s, t, x
      <4>2. CASE node.name = "work_group_size_hint"
        <5>1. t = [s EXCEPT ![nk] = x]
          BY ONLY <4>1, <4>2
        <5>2. /\ t \in Seq(Sizes) /\ Len(t) = nk /\ t[nk] = x
              /\ \A k \in 1 .. nk : k # nk => t[k] = s[k]
          BY ONLY <4>1, <5>1, Replaced
        <5> QED BY <4>2, <5>2 DEF s, t, x
      <4>3. CASE node.name # "work_group_size_hint"
        <5>1. t = s
          BY ONLY <4>1, <4>3
        <5> QED BY <4>1, <4>3, <5>1 DEF s, t
      <4> QED BY <4>2, <4>3
    <3>9. LET t == info'["reqd_wkgp_sizes"] IN
          /\ t \in Seq(Sizes) /\ Len(t) = nk
          /\ t[nk] = IF node.name = "reqd_work_group_size" THEN node.operands
                                                  ELSE info["reqd_wkgp_sizes"][nk]
          /\ \A k \in 1 .. nk : k # nk => t[k] = info["reqd_wkgp_sizes"][k]
      <4> DEFINE s == info["reqd_wkgp_sizes"]
                 t == info'["reqd_wkgp_sizes"]
                 x == node.operands
      <4>0. t = IF node.name = "reqd_work_group_size" THEN [s EXCEPT ![nk] = x] ELSE s
        BY ONLY <3>2
      <4>1. /\ t = IF node.name = "reqd_work_group_size" THEN [s EXCEPT ![nk] = x] ELSE s
            /\ s \in Seq(Sizes) /\ Len(s) = nk /\ x \in Sizes /\ nk \in Nat \ {0}
        BY <3>1, <3>5, <3>6, <4>0
      <4> HIDE DEF s, t, x
      <4>2. CASE node.name = "reqd_work_group_size"
        <5>1. t = [s EXCEPT ![nk] = x]
          BY ONLY <4>1, <4>2
        <5>2. /\ t \in Seq(Sizes) /\ Len(t) = nk /\ t[nk] = x
              /\ \A k \in 1 .. nk : k # nk => t[k] = s[k]
          BY ONLY <4>1, <5>1, Replaced
        <5> QED BY <4>2, <5>2 DEF s, t, x
      <4>3. CASE node.name # "reqd_work_group_size"
        <5>1. t = s
          BY ONLY <4>1, <4>3
        <5> QED BY <4>1, <4>3, <5>1 DEF s, t
      <4> QED BY <4>2, <4>3
    <3>10. ASSUME NEW a, NEW size, SaysUpTo(module[nk].attributes, n, a, size)
           PROVE  SaysUpTo(module[nk].attributes, n + 1, a,
                           IF node.name = a THEN node.operands ELSE size)
      <4> DEFINE nodes == module[nk].attributes
      <4>1. DOMAIN nodes = 1 .. Len(nodes) /\ Len(nodes) \in Nat /\ nk \in DOMAIN module
        BY <1>1, KernelFacts, ModuleFacts
      <4>2. \A i, j \in DOMAIN nodes : nodes[i].name = nodes[j].name => i = j
        BY <1>1, <4>1, ModulesAssumption
      <4>3. n \in Nat /\ n + 1 \in 1 .. Len(nodes)
        BY <3>1
      <4> HIDE DEF nodes
      <4>4. \A j \in 1 .. n : j \in DOMAIN nodes /\ n + 1 \in DOMAIN nodes /\ j # n + 1
        BY <4>1, <4>3
      <4>5. \A j \in 1 .. n : nodes[j].name # nodes[n + 1].name
        BY <4>2, <4>4
      <4>6. node = nodes[n + 1] /\ SaysUpTo(nodes, n, a, size)
        BY <3>4, <3>10 DEF nodes
      <4>7. SaysUpTo(nodes, n + 1, a, IF node.name = a THEN node.operands ELSE size)
        BY ONLY <4>3, <4>5, <4>6, SaysGrows
      <4> QED BY <4>7 DEF nodes
    <3>11. ASSUME NEW k \in 1 .. nk
           PROVE  /\ SaysUpTo(module[k].attributes, AttributesRead(k)',
                              "work_group_size_hint", info'["wkgp_size_hints"][k])
                  /\ SaysUpTo(module[k].attributes, AttributesRead(k)',
                              "reqd_work_group_size", info'["reqd_wkgp_sizes"][k])
                  /\ (info'["attr_names"][k] = "" <=> AttributesRead(k)' = 0)
      <4>1. CASE k = nk
        <5>1. nk \in 1 .. nk /\ AttributesRead(nk) = n
          BY <3>3, <3>6
        <5>2. node.name # ""
          BY <3>1 DEF Attributes
        <5>3. SaysUpTo(module[nk].attributes, n + 1, "work_group_size_hint",
                       info'["wkgp_size_hints"][nk])
          <6>1. SaysUpTo(module[nk].attributes, n, "work_group_size_hint",
                         info["wkgp_size_hints"][nk])
            BY <3>5, <5>1
          <6> QED BY <3>8, <3>10, <6>1
        <5>4. SaysUpTo(module[nk].attributes, n + 1, "reqd_work_group_size",
                       info'["reqd_wkgp_sizes"][nk])
          <6>1. SaysUpTo(module[nk].attributes, n, "reqd_work_group_size",
                         info["reqd_wkgp_sizes"][nk])
            BY <3>5, <5>1
          <6> QED BY <3>9, <3>10, <6>1
        <5>5. n + 1 # 0
          BY <3>1
        <5>6. AttributesRead(nk)' = n + 1 /\ info'["attr_names"][nk] # ""
          BY <3>3, <3>7, <5>2
        <5>7. /\ SaysUpTo(module[nk].attributes, AttributesRead(nk)',
                          "work_group_size_hint", info'["wkgp_size_hints"][nk])
              /\ SaysUpTo(module[nk].attributes, AttributesRead(nk)',
                          "reqd_work_group_size", info'["reqd_wkgp_sizes"][nk])
              /\ (info'["attr_names"][nk] = "" <=> AttributesRead(nk)' = 0)
          BY <5>3, <5>4, <5>5, <5>6
        <5>8. AttributesRead(k)' = AttributesRead(nk)'
          BY <1>1, <4>1 DEF AttributesRead
        <5> QED BY <4>1, <5>7, <5>8
      <4>2. CASE k # nk
        BY <3>3, <3>5, <3>7, <3>8, <3>9, <4>2
      <4> QED BY <4>1, <4>2
    <3> QED BY <1>1, <3>7, <3>8, <3>9, <3>11 DEF SizesOK
  <2> QED BY <1>1, <2>1, <2>2
<1> QED BY <1>7, <1>8, <1>9, <1>10, <1>11 DEF IInv

LEMMA EndIInv == IInv /\ EndKernel => IInv'
<1> SUFFICES ASSUME IInv, EndKernel PROVE IInv'
  OBVIOUS
<1>1. /\ module \in Modules /\ module' = module /\ nk' = nk + 1 /\ md' = md
      /\ pc = "metadata" /\ nk <= Len(module) /\ md \in Nat \ {0}
      /\ md <= Len(Nodes(module[nk])) + 1 /\ md > Len(Nodes(module[nk]))
      /\ pc' = (IF nk < Len(module) THEN "kernel" ELSE "write")
      /\ DOMAIN info = Lists /\ nk \in 1 .. Len(module) + 1
  BY DEF IInv, ControlOK, EndKernel
<1>2. /\ nk \in 1 .. Len(module) /\ module[nk] \in Kernels /\ nk \in Nat /\ Len(module) \in Nat
      /\ DOMAIN module = 1 .. Len(module)
  BY <1>1, ModuleFacts
<1>3. md = 6 + Len(module[nk].attributes) /\ Len(module[nk].attributes) \in Nat
  <2>1. Len(Nodes(module[nk])) = 5 + Len(module[nk].attributes)
        /\ Len(module[nk].attributes) \in Nat
    BY <1>2, NodesFacts, KernelFacts
  <2> QED BY <1>1, <2>1
<1>4. pc' \in {"kernel", "write"} /\ pc' # "metadata"
  BY <1>1
<1>5. Begun = nk /\ Begun' = nk /\ \A n \in 1 .. 5 : Seen(n) = nk /\ Seen(n)' = nk
  <2>1. (nk + 1) - 1 = nk /\ \A n \in 1 .. 5 : md > n
    BY <1>2, <1>3
  <2> QED BY <1>1, <1>4, <2>1 DEF Begun, Seen
<1>6. \A k : AttributesRead(k)' = AttributesRead(k)
  <2>1. ASSUME NEW k PROVE AttributesRead(k)' = AttributesRead(k)
    <3>1. AttributesRead(k)' = Len(module[k].attributes)
      BY <1>1, <1>4 DEF AttributesRead
    <3>2. CASE k = nk
      BY <1>1, <1>3, <3>1, <3>2 DEF AttributesRead
    <3>3. CASE k # nk
      BY <3>1, <3>3 DEF AttributesRead
    <3> QED BY <3>2, <3>3
  <2> QED BY <2>1
<1>7. /\ DOMAIN info' = Lists
      /\ info'["local_mem_sizes"] = Append(info["local_mem_sizes"], 0)
      /\ info'["priv_mem_sizes"] = Append(info["priv_mem_sizes"], PrivSize(module[nk]))
      /\ info'["kernel_dims"] = Append(info["kernel_dims"], 3)
      /\ \A l \in Lists \ {"local_mem_sizes", "priv_mem_sizes", "kernel_dims"} :
           info'[l] = info[l]
  BY <1>1 DEF EndKernel, Lists
<1>8. ControlOK'
  <2>1. pc' = "write" => nk + 1 = Len(module) + 1
    BY <1>1, <1>2
  <2>2. nk + 1 \in 1 .. Len(module) + 1
    BY <1>2
  <2> QED BY <1>1, <1>4, <1>7, <2>1, <2>2 DEF ControlOK
<1>9. LengthsOK'
  <2> DEFINE T == {PrivSize(module[k]) : k \in DOMAIN module}
             new == PrivSize(module[nk])
  <2>1. /\ info["local_mem_sizes"] \in Seq({0}) /\ Len(info["local_mem_sizes"]) = nk - 1
        /\ info["kernel_dims"] \in Seq({3}) /\ Len(info["kernel_dims"]) = nk - 1
        /\ info["priv_mem_sizes"] \in Seq(T) /\ Len(info["priv_mem_sizes"]) = nk - 1
        /\ info["kernel_names"] \in Seq(Names) /\ Len(info["kernel_names"]) = nk
    BY <1>5 DEF IInv, LengthsOK
  <2>2. T' = T
    BY <1>1
  <2>3. new \in T /\ 0 \in {0} /\ 3 \in {3}
    BY <1>2
  <2>4. info'["kernel_names"] = info["kernel_names"] /\ (nk + 1) - 1 = nk
    BY <1>2, <1>7 DEF Lists
  <2> HIDE DEF T, new
  <2>5. info'["local_mem_sizes"] \in Seq({0}) /\ Len(info'["local_mem_sizes"]) = nk
    <3>1. info'["local_mem_sizes"] = Append(info["local_mem_sizes"], 0)
      BY <1>7
    <3> QED BY ONLY <1>2, <2>1, <2>3, <3>1, Appended
  <2>6. info'["kernel_dims"] \in Seq({3}) /\ Len(info'["kernel_dims"]) = nk
    <3>1. info'["kernel_dims"] = Append(info["kernel_dims"], 3)
      BY <1>7
    <3> QED BY ONLY <1>2, <2>1, <2>3, <3>1, Appended
  <2>7. info'["priv_mem_sizes"] \in Seq(T) /\ Len(info'["priv_mem_sizes"]) = nk
    <3>1. info'["priv_mem_sizes"] = Append(info["priv_mem_sizes"], new)
      BY <1>7 DEF new
    <3> QED BY ONLY <1>2, <2>1, <2>3, <3>1, Appended
  <2>8. info'["priv_mem_sizes"] \in Seq(T')
    BY <2>2, <2>7
  <2> QED BY <1>1, <1>5, <2>1, <2>4, <2>5, <2>6, <2>7, <2>8 DEF LengthsOK, T
<1>10. CodesOK'
  <2>1. \A l \in {"kernel_num_args", "addr_qualifier", "access_qualifier"} : info'[l] = info[l]
    BY <1>7 DEF Lists
  <2>2. Seen(1)' = Seen(1) /\ Seen(2)' = Seen(2)
    BY <1>5
  <2> QED BY <1>1, <2>1, <2>2 DEF IInv, CodesOK
<1>11. FlatOK'
  <2>1. \A l \in {"arg_type_names", "arg_type_qual", "arg_names"} : info'[l] = info[l]
    BY <1>7 DEF Lists
  <2> QED BY <1>1, <1>5, <2>1 DEF IInv, FlatOK
<1>12. SizesOK'
  <2>1. \A l \in {"attr_names", "wkgp_size_hints", "reqd_wkgp_sizes"} : info'[l] = info[l]
    BY <1>7 DEF Lists
  <2> QED BY <1>1, <1>5, <1>6, <2>1 DEF IInv, SizesOK
<1> QED BY <1>8, <1>9, <1>10, <1>11, <1>12 DEF IInv

\* Nothing is read once all kernels were.
LEMMA WriteIInv == IInv /\ WriteGlobals => IInv'
<1> SUFFICES ASSUME IInv, WriteGlobals PROVE IInv'
  OBVIOUS
<1>1. /\ module' = module /\ nk' = nk /\ md' = md /\ info' = info
      /\ pc = "write" /\ pc' \in {"written", "aborted"} /\ (pc' = "written" => globals' = info)
      /\ nk = Len(module) + 1
  BY DEF IInv, ControlOK, WriteGlobals
<1>2. /\ pc # "metadata" /\ pc' # "metadata"
      /\ Begun' = Begun
      /\ \A n : Seen(n)' = Seen(n)
      /\ \A k : AttributesRead(k)' = AttributesRead(k)
  BY <1>1 DEF Begun, Seen, AttributesRead
<1>3. ControlOK'
  BY <1>1, <1>2 DEF IInv, ControlOK
<1>4. LengthsOK'
  BY <1>1, <1>2 DEF IInv, LengthsOK
<1>5. CodesOK'
  BY <1>1, <1>2 DEF IInv, CodesOK
<1>6. FlatOK'
  BY <1>1, <1>2 DEF IInv, FlatOK
<1>7. SizesOK'
  BY <1>1, <1>2 DEF IInv, SizesOK
<1> QED BY <1>3, <1>4, <1>5, <1>6, <1>7 DEF IInv

LEMMA StutterIInv == IInv /\ UNCHANGED vars => IInv'
<1> SUFFICES ASSUME IInv, UNCHANGED vars PROVE IInv'
  OBVIOUS
<1>1. /\ module' = module /\ nk' = nk /\ md' = md /\ info' = info /\ pc' = pc
      /\ globals' = globals
  BY DEF vars
<1>2. /\ Begun' = Begun
      /\ \A n : Seen(n)' = Seen(n)
      /\ \A k : AttributesRead(k)' = AttributesRead(k)
  BY <1>1 DEF Begun, Seen, AttributesRead
<1>3. ControlOK'
  BY <1>1, <1>2 DEF IInv, ControlOK
<1>4. LengthsOK'
  BY <1>1, <1>2 DEF IInv, LengthsOK
<1>5. CodesOK'
  BY <1>1, <1>2 DEF IInv, CodesOK
<1>6. FlatOK'
  BY <1>1, <1>2 DEF IInv, FlatOK
<1>7. SizesOK'
  BY <1>1, <1>2 DEF IInv, SizesOK
<1> QED BY <1>3, <1>4, <1>5, <1>6, <1>7 DEF IInv

LEMMA SpecIInv == Spec => []IInv
<1>1. Init => IInv
  BY InitIInv
<1>2. IInv /\ [Next]_vars => IInv'
  <2> SUFFICES ASSUME IInv, [Next]_vars PROVE IInv'
    OBVIOUS
  <2>1. CASE BeginKernel
    BY <2>1, BeginIInv
  <2>2. CASE ReadNode
    BY <2>2, ReadIInv
  <2>3. CASE EndKernel
    BY <2>3, EndIInv
  <2>4. CASE WriteGlobals
    BY <2>4, WriteIInv
  <2>5. CASE Ended
    BY <2>5, StutterIInv DEF Ended
  <2>6. CASE UNCHANGED vars
    BY <2>6, StutterIInv
  <2> QED BY <2>1, <2>2, <2>3, <2>4, <2>5, <2>6 DEF Next
<1> QED BY <1>1, <1>2, PTL DEF Spec

-----------------------------------------------------------------------------
(***************************************************************************)
(* What the invariant says of the lists and of what is written.            *)
(***************************************************************************)
LEMMA IInvTypeOK == IInv => TypeOK
<1> SUFFICES ASSUME IInv PROVE TypeOK
  OBVIOUS
<1>1. /\ module \in Modules /\ nk \in 1 .. Len(module) + 1 /\ md \in Nat \ {0}
      /\ pc \in {"kernel", "metadata", "write", "written", "aborted"}
      /\ DOMAIN info = Lists /\ (pc = "metadata" => nk <= Len(module))
  BY DEF IInv, ControlOK
<1>2. Len(module) \in Nat
  BY <1>1, ModuleFacts
<1>3. /\ Begun \in Nat /\ Begun <= Len(module) /\ nk - 1 <= Len(module)
      /\ \A n : Seen(n) \in Nat /\ Seen(n) <= Len(module)
  BY <1>1, <1>2 DEF Begun, Seen
<1>4. \A v : \A n \in Nat : Len([k \in 1 .. n |-> v[k]]) = n
  BY PrefixGrows
<1>5. /\ Len(info["kernel_num_args"]) = Seen(1)
      /\ Len(info["addr_qualifier"]) = Seen(1)
      /\ Len(info["access_qualifier"]) = Seen(2)
  BY <1>3, <1>4 DEF IInv, CodesOK
<1>6. \A l \in {"kernel_names", "attr_names", "wkgp_size_hints", "reqd_wkgp_sizes"} :
        Len(info[l]) = Begun
  BY DEF IInv, LengthsOK, SizesOK
<1>7. \A l \in {"local_mem_sizes", "kernel_dims", "priv_mem_sizes"} : Len(info[l]) = nk - 1
  BY DEF IInv, LengthsOK
<1>8. ASSUME NEW l \in PerKernel PROVE Len(info[l]) <= Len(module)
  <2>1. \/ l \in {"kernel_num_args", "addr_qualifier", "access_qualifier"}
        \/ l \in {"kernel_names", "attr_names", "wkgp_size_hints", "reqd_wkgp_sizes"}
        \/ l \in {"local_mem_sizes", "kernel_dims", "priv_mem_sizes"}
    BY DEF PerKernel, Lists
  <2> QED BY <1>3, <1>5, <1>6, <1>7, <2>1
<1>9. Range(info["arg_type_qual"]) \subseteq 0 .. 7
  <2>1. info["arg_type_qual"] \in Seq(0 .. 7)
    BY DEF IInv, FlatOK, Flat
  <2>2. \A i \in DOMAIN info["arg_type_qual"] : info["arg_type_qual"][i] \in 0 .. 7
    BY <2>1, ElementOfSeq, LenProperties
  <2> QED BY <2>2 DEF Range
<1> QED BY <1>1, <1>8, <1>9 DEF TypeOK

\* The codes tell apart what they stand for.
LEMMA CodesTell ==
  /\ \A p, q \in SUBSET Qualifiers : TypeQual(p) = TypeQual(q) => p = q
  /\ \A p, q \in 0 .. 3 : SOCL_ADDR_QUAL[p + 1] = SOCL_ADDR_QUAL[q + 1] => p = q
  /\ \A p, q \in {"none", "read_only", "write_only", "read_write"} :
       AccessCode(p) = AccessCode(q) => p = q
<1>1. ASSUME NEW p \in SUBSET Qualifiers, NEW q \in SUBSET Qualifiers,
             TypeQual(p) = TypeQual(q)
      PROVE  p = q
  <2>1. /\ "const" \in p <=> "const" \in q
        /\ "restrict" \in p <=> "restrict" \in q
        /\ "volatile" \in p <=> "volatile" \in q
    BY <1>1 DEF TypeQual
  <2>2. \A x : x \in p => x \in {"const", "restrict", "volatile"}
    BY DEF Qualifiers
  <2>3. \A x : x \in q => x \in {"const", "restrict", "volatile"}
    BY DEF Qualifiers
  <2>4. \A x : x \in p <=> x \in q
    BY <2>1, <2>2, <2>3
  <2> QED BY <2>4
<1>2. ASSUME NEW p \in 0 .. 3, NEW q \in 0 .. 3,
             SOCL_ADDR_QUAL[p + 1] = SOCL_ADDR_QUAL[q + 1]
      PROVE  p = q
  <2>1. /\ SOCL_ADDR_QUAL[1] = "0" /\ SOCL_ADDR_QUAL[2] = "3"
        /\ SOCL_ADDR_QUAL[3] = "2" /\ SOCL_ADDR_QUAL[4] = "1"
    BY DEF SOCL_ADDR_QUAL
  <2>2. p + 1 \in {1, 2, 3, 4} /\ q + 1 \in {1, 2, 3, 4}
    OBVIOUS
  <2>3. p + 1 = q + 1
    BY <1>2, <2>1, <2>2
  <2> QED BY <2>3
<1>3. ASSUME NEW p \in {"none", "read_only", "write_only", "read_write"},
             NEW q \in {"none", "read_only", "write_only", "read_write"},
             AccessCode(p) = AccessCode(q)
      PROVE  p = q
  <2>1. /\ AccessCode("none") = "0" /\ AccessCode("read_only") = "3"
        /\ AccessCode("write_only") = "2" /\ AccessCode("read_write") = "1"
    BY DEF AccessCode
  <2> QED BY <1>3, <2>1
<1> QED BY <1>1, <1>2, <1>3

LEMMA IInvArguments == IInv => ArgumentsRebuilt
<1> SUFFICES ASSUME IInv, pc = "written", NEW k \in 1 .. Len(module)
             PROVE  LET args == module[k].args IN
                    /\ globals["kernel_num_args"][k] = Len(args)
                    /\ ArgsOf(globals, "arg_names", k) = [i \in DOMAIN args |-> args[i].name]
                    /\ ArgsOf(globals, "arg_type_names", k) = [i \in DOMAIN args |-> args[i].type]
                    /\ \A i, j \in DOMAIN args :
                         /\ ArgsOf(globals, "arg_type_qual", k)[i]
                              = ArgsOf(globals, "arg_type_qual", k)[j]
                              => args[i].quals = args[j].quals
                         /\ globals["addr_qualifier"][k][i] = globals["addr_qualifier"][k][j]
                              => args[i].space = args[j].space
                         /\ globals["access_qualifier"][k][i] = globals["access_qualifier"][k][j]
                              => args[i].access = args[j].access
  BY Zenon DEF ArgumentsRebuilt
<1> DEFINE args == module[k].args
<1>1. module \in Modules /\ nk = Len(module) + 1 /\ globals = info
  BY DEF IInv, ControlOK
<1>2. /\ Len(module) \in Nat /\ DOMAIN module = 1 .. Len(module)
      /\ module[k] \in Kernels /\ NumArgs(module)[k] = Len(args)
      /\ \A i \in DOMAIN args : args[i] \in Arguments
  BY <1>1, ModuleFacts, KernelFacts
<1>3. \A n : Seen(n) = Len(module)
  BY <1>1, <1>2 DEF Seen
<1>4. /\ info["kernel_num_args"] = NumArgs(module)
      /\ info["addr_qualifier"][k] = SpaceCodes(module)[k]
      /\ info["access_qualifier"][k] = AccessCodes(module)[k]
  <2>1. /\ info["kernel_num_args"] = [j \in 1 .. Len(module) |-> NumArgs(module)[j]]
        /\ info["addr_qualifier"] = [j \in 1 .. Len(module) |-> SpaceCodes(module)[j]]
        /\ info["access_qualifier"] = [j \in 1 .. Len(module) |-> AccessCodes(module)[j]]
    BY <1>3 DEF IInv, CodesOK
  <2>2. NumArgs(module) = [j \in 1 .. Len(module) |-> NumArgs(module)[j]]
    BY <1>2 DEF NumArgs
  <2> QED BY <2>1, <2>2
<1>5. /\ Flat(module, info["arg_type_names"], Names, Types(module), Len(module))
      /\ Flat(module, info["arg_type_qual"], 0 .. 7, TypeQuals(module), Len(module))
      /\ Flat(module, info["arg_names"], Names, ArgNames(module), Len(module))
  BY <1>3 DEF IInv, FlatOK
<1>6. ASSUME NEW list, NEW S, NEW val, Flat(module, list, S, val, Len(module))
      PROVE  [i \in 1 .. NumArgs(module)[k] |-> list[First(module)[k] + i]]
               = [i \in DOMAIN args |-> val[k][i]]
  <2>1. NumArgs(module)[k] = Len(args) /\ DOMAIN args = 1 .. Len(args)
    BY <1>2, KernelFacts
  <2>2. \A i \in DOMAIN args : list[First(module)[k] + i] = val[k][i]
    BY <1>6 DEF Flat
  <2> QED BY <2>1, <2>2
<1>7. /\ ArgsOf(info, "arg_type_names", k) = [i \in DOMAIN args |-> Types(module)[k][i]]
      /\ ArgsOf(info, "arg_type_qual", k) = [i \in DOMAIN args |-> TypeQuals(module)[k][i]]
      /\ ArgsOf(info, "arg_names", k) = [i \in DOMAIN args |-> ArgNames(module)[k][i]]
  <2>1. ArgsOf(info, "arg_type_names", k) = [i \in DOMAIN args |-> Types(module)[k][i]]
    <3> DEFINE list == info["arg_type_names"]
               val == Types(module)
               S == Names
    <3>1. Flat(module, list, S, val, Len(module))
      BY <1>5
    <3>2. ArgsOf(info, "arg_type_names", k)
            = [i \in 1 .. NumArgs(module)[k] |-> list[First(module)[k] + i]]
      BY <1>4 DEF ArgsOf, First
    <3> HIDE DEF list, val, S
    <3>3. [i \in 1 .. NumArgs(module)[k] |-> list[First(module)[k] + i]]
            = [i \in DOMAIN args |-> val[k][i]]
      BY ONLY <1>6, <3>1
    <3> QED BY <3>2, <3>3 DEF val
  <2>2. ArgsOf(info, "arg_type_qual", k) = [i \in DOMAIN args |-> TypeQuals(module)[k][i]]
    <3> DEFINE list == info["arg_type_qual"]
               val == TypeQuals(module)
               S == 0 .. 7
    <3>1. Flat(module, list, S, val, Len(module))
      BY <1>5
    <3>2. ArgsOf(info, "arg_type_qual", k)
            = [i \in 1 .. NumArgs(module)[k] |-> list[First(module)[k] + i]]
      BY <1>4 DEF ArgsOf, First
    <3> HIDE DEF list, val, S
    <3>3. [i \in 1 .. NumArgs(module)[k] |-> list[First(module)[k] + i]]
            = [i \in DOMAIN args |-> val[k][i]]
      BY ONLY <1>6, <3>1
    <3> QED BY <3>2, <3>3 DEF val
  <2>3. ArgsOf(info, "arg_names", k) = [i \in DOMAIN args |-> ArgNames(module)[k][i]]
    <3> DEFINE list == info["arg_names"]
               val == ArgNames(module)
               S == Names
    <3>1. Flat(module, list, S, val, Len(module))
      BY <1>5
    <3>2. ArgsOf(info, "arg_names", k)
            = [i \in 1 .. NumArgs(module)[k] |-> list[First(module)[k] + i]]
      BY <1>4 DEF ArgsOf, First
    <3> HIDE DEF list, val, S
    <3>3. [i \in 1 .. NumArgs(module)[k] |-> list[First(module)[k] + i]]
            = [i \in DOMAIN args |-> val[k][i]]
      BY ONLY <1>6, <3>1
    <3> QED BY <3>2, <3>3 DEF val
  <2> QED BY <2>1, <2>2, <2>3
<1>8. /\ Types(module)[k] = [i \in DOMAIN args |-> args[i].type]
      /\ TypeQuals(module)[k] = [i \in DOMAIN args |-> TypeQual(args[i].quals)]
      /\ ArgNames(module)[k] = [i \in DOMAIN args |-> args[i].name]
      /\ SpaceCodes(module)[k] = [i \in DOMAIN args |-> SOCL_ADDR_QUAL[args[i].space + 1]]
      /\ AccessCodes(module)[k] = [i \in DOMAIN args |-> AccessCode(args[i].access)]
  BY <1>2 DEF Types, TypeQuals, ArgNames, SpaceCodes, AccessCodes
<1>9. globals["kernel_num_args"][k] = Len(args)
  BY <1>1, <1>2, <1>4
<1>10. /\ ArgsOf(globals, "arg_names", k) = [i \in DOMAIN args |-> args[i].name]
       /\ ArgsOf(globals, "arg_type_names", k) = [i \in DOMAIN args |-> args[i].type]
  BY <1>1, <1>7, <1>8
<1>11. ASSUME NEW i \in DOMAIN args, NEW j \in DOMAIN args
       PROVE  /\ ArgsOf(globals, "arg_type_qual", k)[i] = ArgsOf(globals, "arg_type_qual", k)[j]
                   => args[i].quals = args[j].quals
              /\ globals["addr_qualifier"][k][i] = globals["addr_qualifier"][k][j]
                   => args[i].space = args[j].space
              /\ globals["access_qualifier"][k][i] = globals["access_qualifier"][k][j]
                   => args[i].access = args[j].access
  <2>1. ASSUME NEW x \in DOMAIN args
        PROVE  /\ ArgsOf(globals, "arg_type_qual", k)[x] = TypeQual(args[x].quals)
               /\ globals["addr_qualifier"][k][x] = SOCL_ADDR_QUAL[args[x].space + 1]
               /\ globals["access_qualifier"][k][x] = AccessCode(args[x].access)
    <3>1. ArgsOf(info, "arg_type_qual", k)[x] = TypeQuals(module)[k][x]
      BY <1>7
    <3>2. /\ TypeQuals(module)[k][x] = TypeQual(args[x].quals)
          /\ SpaceCodes(module)[k][x] = SOCL_ADDR_QUAL[args[x].space + 1]
          /\ AccessCodes(module)[k][x] = AccessCode(args[x].access)
      BY <1>8
    <3> QED BY <1>1, <1>4, <3>1, <3>2
  <2>2. \A x \in {i, j} :
          /\ args[x].quals \in SUBSET Qualifiers
          /\ args[x].space \in 0 .. 3
          /\ args[x].access \in {"none", "read_only", "write_only", "read_write"}
    BY <1>2 DEF Arguments
  <2> QED BY <2>1, <2>2, CodesTell
<1> QED BY <1>9, <1>10, <1>11

LEMMA IInvSizes == IInv => SizesRebuilt
<1> SUFFICES ASSUME IInv, pc = "written", NEW k \in 1 .. Len(module)
             PROVE  /\ Says(module[k], "work_group_size_hint", globals["wkgp_size_hints"][k])
                    /\ Says(module[k], "reqd_work_group_size", globals["reqd_wkgp_sizes"][k])
                    /\ (globals["attr_names"][k] = "") <=> (module[k].attributes = << >>)
  BY Zenon DEF SizesRebuilt
<1> DEFINE nodes == module[k].attributes
<1>1. module \in Modules /\ nk = Len(module) + 1 /\ globals = info
  BY DEF IInv, ControlOK
<1>2. /\ module[k] \in Kernels /\ Len(module) \in Nat /\ DOMAIN nodes = 1 .. Len(nodes)
      /\ Len(nodes) \in Nat
  BY <1>1, ModuleFacts, KernelFacts
<1>3. Begun = Len(module) /\ AttributesRead(k) = Len(nodes)
  BY <1>1, <1>2 DEF Begun, AttributesRead
<1>4. /\ SaysUpTo(nodes, Len(nodes), "work_group_size_hint", info["wkgp_size_hints"][k])
      /\ SaysUpTo(nodes, Len(nodes), "reqd_work_group_size", info["reqd_wkgp_sizes"][k])
      /\ (info["attr_names"][k] = "" <=> Len(nodes) = 0)
  BY <1>3 DEF IInv, SizesOK
<1>5. Len(nodes) = 0 <=> nodes = << >>
  <2>1. nodes \in Seq([name : Attributes, operands : Nat \X Nat \X Nat])
    BY <1>2 DEF Kernels
  <2> HIDE DEF nodes
  <2> QED BY <2>1, EmptySeq
<1>6. ASSUME NEW a, NEW size, SaysUpTo(nodes, Len(nodes), a, size)
      PROVE  Says(module[k], a, size)
  BY <1>2, <1>6 DEF Says, SaysUpTo
<1> QED BY <1>1, <1>4, <1>5, <1>6

\* kernel_info_reader.cpp appends to thirteen lists as it goes from node to
\* node: no list of a module, whatever its kernels, ever has an entry more
\* than there are kernels, and no type code one that the runtime cannot read.
THEOREM KernelInfoTypeCorrect == Spec => []TypeOK
<1>1. IInv => TypeOK
  BY IInvTypeOK
<1> QED BY <1>1, SpecIInv, PTL

\* Of any number of kernels with any numbers of arguments, the runtime finds
\* each argument by counting in kernel_info_reader.cpp's flat lists, and finds
\* its name and type, and one code for each address space, access and set of
\* qualifiers.
THEOREM ArgumentsAlwaysRebuilt == Spec => []ArgumentsRebuilt
<1>1. IInv => ArgumentsRebuilt
  BY IInvArguments
<1> QED BY <1>1, SpecIInv, PTL

\* An attribute goes to the kernel whose node it is, though
\* kernel_info_reader.cpp writes it into whatever entry is the last.
THEOREM SizesAlwaysRebuilt == Spec => []SizesRebuilt
<1>1. IInv => SizesRebuilt
  BY IInvSizes
<1> QED BY <1>1, SpecIInv, PTL
=============================================================================
