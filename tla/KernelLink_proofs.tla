------------------------- MODULE KernelLink_proofs -------------------------
(***************************************************************************)
(* For any number of kernels, arguments of any size and any number of      *)
(* cores: the generated functions call what was asked for.                 *)
(***************************************************************************)
EXTENDS KernelLink, TLAPS

TlbData == [kernel_idx : KernelIdx, args : Blocks]

\* The first n arguments of the core's kernel are in its tlb_function.
Copied(c, n) ==
  \A a \in Arg(tlb[c].kernel_idx) : a < n =>
    pool[c][tlb[c].kernel_idx][a] = Unpack(tlb[c].args, tlb[c].kernel_idx, a)

FuncSet(c) ==
  pool[c][tlb[c].kernel_idx][FuncField(tlb[c].kernel_idx)] = tlb[c].kernel_idx

\* What holds of a core, by where it is: kernel_set_arguments has copied the
\* arguments in front of ai and args_offset is where the next one lies; from
\* then on the copy is complete; kernel_launch has loaded those in front of ai.
CoreOK(c) ==
  LET k == tlb[c].kernel_idx IN
  /\ pc[c] = "idle" => tlb[c] = None
  /\ pc[c] # "idle" => tlb[c] \in TlbData
  /\ pc[c] = "set" => /\ k \in Kernel
                      /\ ai[c] \in 0 .. NumArgs[k]
                      /\ args_offset[c] = ArgOffset[k][ai[c]]
                      /\ FuncSet(c)
                      /\ Copied(c, ai[c])
  /\ pc[c] \in {"ready", "launch"} /\ k \in Kernel =>
       FuncSet(c) /\ Copied(c, NumArgs[k])
  /\ pc[c] = "launch" =>
       /\ k \in Kernel
       /\ groups[c] > 0
       /\ ai[c] \in 0 .. NumArgs[k]
       /\ call_args[c] \in Seq({Unpack(tlb[c].args, k, a) : a \in Arg(k)})
       /\ Len(call_args[c]) = ai[c]
       /\ \A a \in Arg(k) : a < ai[c] =>
            call_args[c][a + 1] = Unpack(tlb[c].args, k, a)

IInv == TypeOK /\ \A c \in Cores : CoreOK(c)

-----------------------------------------------------------------------------
LEMMA OffsetStepIsSize ==
  \A k \in Kernel : \A a \in Arg(k) : OffsetStep(k, a) = ArgSize(k, a)
BY DEF OffsetStep, ArgSize

\* The arguments lie one behind the other inside the block.
LEMMA OffsetsTyped ==
  ASSUME NEW k \in Kernel, NEW a \in Arg(k)
  PROVE  /\ ArgOffset[k][a] \in 0 .. ArgsSize
         /\ ArgOffset[k][a + 1] \in 0 .. ArgsSize
         /\ ArgOffset[k][a + 1] = ArgOffset[k][a] + ArgSize(k, a)
         /\ ArgSize(k, a) \in Int
<1>1. a \in 0 .. ArgsSize /\ a + 1 \in 0 .. ArgsSize
  BY LayoutAssumption, KernelAssumption DEF Arg, Kernel
<1>2. ArgOffset[k] \in [0 .. ArgsSize -> 0 .. ArgsSize]
  BY LayoutAssumption
<1>3. ArgSize(k, a) \in Int
  <2>1. ArgType[k][a] \in [pointer : BOOLEAN, bits : Nat]
    BY KernelAssumption
  <2>2. ArgType[k][a].bits \div 8 \in Int
    BY <2>1
  <2> QED BY <2>2 DEF ArgSize
<1>4. ArgOffset[k][a + 1] = ArgOffset[k][a] + ArgSize(k, a)
  BY LayoutAssumption
<1> QED BY <1>1, <1>2, <1>3, <1>4

LEMMA InitInv == Init => IInv
<1> SUFFICES ASSUME Init PROVE IInv
  OBVIOUS
<1>1. TypeOK
  BY LayoutAssumption, RuntimeAssumption DEF Init, TypeOK, Field
<1>2. ASSUME NEW c \in Cores PROVE CoreOK(c)
  BY DEF Init, CoreOK
<1> QED BY <1>1, <1>2 DEF IInv

\* A step that does not touch what belongs to a core.
LEMMA Frame ==
  ASSUME NEW c \in Cores, CoreOK(c),
         tlb'[c] = tlb[c], groups'[c] = groups[c], pool'[c] = pool[c],
         pc'[c] = pc[c], ai'[c] = ai[c], args_offset'[c] = args_offset[c],
         call_args'[c] = call_args[c]
  PROVE  CoreOK(c)'
BY DEF CoreOK, FuncSet, Copied

\* Storing to a field changes no field's place.
LEMMA PoolShape ==
  ASSUME NEW p, NEW c, NEW k, NEW f, NEW v, DOMAIN p = Cores,
         \A d \in Cores : /\ DOMAIN p[d] = Kernel
                          /\ \A j \in Kernel : DOMAIN p[d][j] = Field(j)
  PROVE  LET q == [p EXCEPT ![c][k][f] = v] IN
         /\ DOMAIN q = Cores
         /\ \A d \in Cores : /\ DOMAIN q[d] = Kernel
                             /\ \A j \in Kernel : DOMAIN q[d][j] = Field(j)
OBVIOUS

-----------------------------------------------------------------------------
(***************************************************************************)
(* One lemma per action.                                                   *)
(***************************************************************************)
LEMMA DispatchInv ==
  ASSUME IInv, NEW c \in Cores, NEW k \in KernelIdx, NEW block \in Blocks,
         NEW n \in 1 .. MaxGroups, Dispatch(c, k, block, n)
  PROVE  IInv'
<1> USE DEF IInv, Dispatch
<1>1. TypeOK'
  BY RuntimeAssumption DEF TypeOK
<1>2. CoreOK(c)'
  BY DEF CoreOK, TypeOK, TlbData
<1>3. ASSUME NEW d \in Cores, d # c PROVE CoreOK(d)'
  BY <1>3, Frame DEF TypeOK
<1> QED BY <1>1, <1>2, <1>3

LEMMA EnterSetArgumentsInv ==
  ASSUME IInv, NEW c \in Cores, EnterSetArguments(c)
  PROVE  IInv'
<1> USE DEF IInv, EnterSetArguments, TlbFunc
<1> DEFINE k == tlb[c].kernel_idx
<1>0. tlb[c] \in TlbData /\ k \in KernelIdx
  BY DEF CoreOK, TlbData
<1>1. TypeOK'
  <2>1. pc' \in [Cores -> {"idle", "entry", "set", "ready", "launch"}]
    <3>1. CASE k \in Kernel
      BY <3>1 DEF TypeOK
    <3>2. CASE k \notin Kernel
      BY <3>2 DEF TypeOK
    <3> QED BY <3>1, <3>2
  <2>2. 0 \in 0 .. ArgsSize
    BY LayoutAssumption
  <2>3. ai' \in [Cores -> Nat] /\ args_offset' \in [Cores -> 0 .. ArgsSize]
    BY <2>2 DEF TypeOK
  <2>4. /\ DOMAIN pool' = Cores
        /\ \A d \in Cores : /\ DOMAIN pool'[d] = Kernel
                            /\ \A j \in Kernel : DOMAIN pool'[d][j] = Field(j)
    <3>1. CASE k \in Kernel
      <4>1. pool' = [pool EXCEPT ![c][k][FuncField(k)] = k]
        BY <3>1
      <4> HIDE DEF k
      <4> QED BY <4>1, PoolShape DEF TypeOK
    <3>2. CASE k \notin Kernel
      BY <3>2 DEF TypeOK
    <3> QED BY <3>1, <3>2
  <2> QED BY <2>1, <2>3, <2>4 DEF TypeOK
<1>2. CoreOK(c)'
  <2>1. CASE k \in Kernel
    <3>1. 0 \in 0 .. NumArgs[k] /\ ArgOffset[k][0] = 0 /\ NumArgs[k] \in Nat
      BY <2>1, KernelAssumption, LayoutAssumption
    <3>2. FuncSet(c)'
      BY <2>1, <3>1 DEF FuncSet, TypeOK, FuncField, Field
    <3>3. Copied(c, 0)'
      BY <3>1 DEF Copied, Arg
    <3>4. /\ pc'[c] = "set" /\ ai'[c] = 0 /\ args_offset'[c] = 0
          /\ tlb'[c] = tlb[c]
      BY <2>1 DEF TypeOK
    <3> QED BY <1>0, <2>1, <3>1, <3>2, <3>3, <3>4 DEF CoreOK
  <2>2. CASE k \notin Kernel
    <3>1. pc'[c] = "ready" /\ tlb'[c] = tlb[c]
      BY <2>2 DEF TypeOK
    <3> QED BY <1>0, <2>2, <3>1 DEF CoreOK
  <2> QED BY <2>1, <2>2
<1>3. ASSUME NEW d \in Cores, d # c PROVE CoreOK(d)'
  BY <1>3, Frame DEF TypeOK
<1> QED BY <1>1, <1>2, <1>3

LEMMA SetArgumentInv ==
  ASSUME IInv, NEW c \in Cores, SetArgument(c)
  PROVE  IInv'
<1> USE DEF IInv, SetArgument, TlbFunc
<1> DEFINE k == tlb[c].kernel_idx
           value == ReadBytes(tlb[c].args, args_offset[c], ArgSize(k, ai[c]))
<1>0. /\ tlb[c] \in TlbData
      /\ k \in Kernel
      /\ NumArgs[k] \in Nat
      /\ ai[c] \in Arg(k)
      /\ args_offset[c] = ArgOffset[k][ai[c]]
      /\ FuncSet(c)
      /\ Copied(c, ai[c])
  <2>1. pc[c] = "set" /\ CoreOK(c)
    OBVIOUS
  <2>2. k \in Kernel /\ ai[c] \in 0 .. NumArgs[k] /\ tlb[c] \in TlbData
    BY <2>1 DEF CoreOK
  <2>3. NumArgs[k] \in Nat
    BY <2>2, KernelAssumption
  <2>4. ai[c] \in Arg(k)
    BY <2>2, <2>3 DEF Arg
  <2> QED BY <2>1, <2>2, <2>3, <2>4 DEF CoreOK
<1> HIDE DEF k
<1>1. /\ ArgOffset[k][ai[c] + 1] \in 0 .. ArgsSize
      /\ args_offset[c] + OffsetStep(k, ai[c]) = ArgOffset[k][ai[c] + 1]
  BY <1>0, OffsetsTyped, OffsetStepIsSize
<1>2. value = Unpack(tlb[c].args, k, ai[c])
  BY <1>0 DEF Unpack
<1>3. /\ ai'[c] = ai[c] + 1
      /\ args_offset'[c] = ArgOffset[k][ai[c] + 1]
      /\ pc'[c] = "set" /\ tlb'[c] = tlb[c]
  BY <1>1 DEF TypeOK, k
<1>4. TypeOK'
  <2>1. ai' \in [Cores -> Nat] /\ args_offset' \in [Cores -> 0 .. ArgsSize]
    BY <1>1 DEF TypeOK, k
  <2>2. /\ DOMAIN pool' = Cores
        /\ \A d \in Cores : /\ DOMAIN pool'[d] = Kernel
                            /\ \A j \in Kernel : DOMAIN pool'[d][j] = Field(j)
    BY PoolShape DEF TypeOK
  <2> QED BY <2>1, <2>2 DEF TypeOK
<1>5. /\ pool'[c][k][ai[c]] = Unpack(tlb[c].args, k, ai[c])
      /\ \A f \in Field(k) : f # ai[c] => pool'[c][k][f] = pool[c][k][f]
  <2>1. ai[c] \in Field(k)
    BY <1>0 DEF Field, Arg
  <2>2. pool' = [pool EXCEPT ![c][k][ai[c]] = value]
    BY DEF k
  <2> HIDE DEF value
  <2> QED BY <1>0, <1>2, <2>1, <2>2 DEF TypeOK
<1>6. CoreOK(c)'
  <2>1. FuncSet(c)'
    <3>1. NumArgs[k] \in Field(k) /\ NumArgs[k] # ai[c]
      BY <1>0 DEF Field, Arg
    <3> QED BY <1>0, <1>3, <1>5, <3>1 DEF FuncSet, FuncField, k
  <2>2. Copied(c, ai[c])'
    <3> SUFFICES ASSUME NEW a \in Arg(k), a < ai[c] + 1
                 PROVE  pool'[c][k][a] = Unpack(tlb[c].args, k, a)
      BY <1>3 DEF Copied, k
    <3>1. CASE a = ai[c]
      BY <3>1, <1>5
    <3>2. CASE a # ai[c]
      <4>1. a < ai[c] /\ a \in Field(k)
        BY <3>2, <1>0 DEF Arg, Field
      <4> QED BY <4>1, <3>2, <1>0, <1>5 DEF Copied, k
    <3> QED BY <3>1, <3>2
  <2>3. ai[c] + 1 \in 0 .. NumArgs[k]
    BY <1>0 DEF Arg
  <2> QED BY <1>0, <1>3, <2>1, <2>2, <2>3 DEF CoreOK, k
<1>7. ASSUME NEW d \in Cores, d # c PROVE CoreOK(d)'
  BY <1>7, Frame DEF TypeOK
<1> QED BY <1>4, <1>6, <1>7

LEMMA SetDoneInv ==
  ASSUME IInv, NEW c \in Cores, SetDone(c)
  PROVE  IInv'
<1> USE DEF IInv, SetDone
<1>1. TypeOK'
  <2>1. 0 \in 0 .. ArgsSize
    BY LayoutAssumption
  <2> QED BY <2>1 DEF TypeOK
<1>2. CoreOK(c)'
  BY DEF CoreOK, TypeOK, FuncSet, Copied
<1>3. ASSUME NEW d \in Cores, d # c PROVE CoreOK(d)'
  BY <1>3, Frame DEF TypeOK
<1> QED BY <1>1, <1>2, <1>3

LEMMA EnterLaunchInv ==
  ASSUME IInv, NEW c \in Cores, EnterLaunch(c)
  PROVE  IInv'
<1> USE DEF IInv, EnterLaunch
<1>1. TypeOK'
  BY DEF TypeOK
<1>2. CoreOK(c)'
  <2> DEFINE k == tlb[c].kernel_idx
  <2>1. NumArgs[k] \in Nat
    BY KernelAssumption
  <2>2. /\ pc'[c] = "launch" /\ tlb'[c] = tlb[c] /\ groups'[c] = groups[c]
        /\ ai'[c] = 0 /\ call_args'[c] = <<>>
    BY DEF TypeOK
  <2>3. FuncSet(c)' /\ Copied(c, NumArgs[k])'
    BY DEF CoreOK, FuncSet, Copied
  <2>4. \A a \in Arg(k) : ~(a < 0)
    BY <2>1 DEF Arg
  <2>5. /\ k \in Kernel /\ pc[c] = "ready" /\ CoreOK(c) /\ groups[c] > 0
    OBVIOUS
  <2>6. tlb[c] \in TlbData
    BY <2>5 DEF CoreOK
  <2>7. 0 \in 0 .. NumArgs[k]
    BY <2>1
  <2>8. ASSUME NEW S PROVE <<>> \in Seq(S) /\ Len(<<>>) = 0
    OBVIOUS
  <2>9. \A a \in Arg(k) : a < 0 => <<>>[a + 1] = Unpack(tlb[c].args, k, a)
    BY <2>4
  <2> HIDE DEF EnterLaunch
  <2> QED BY <2>2, <2>3, <2>5, <2>6, <2>7, <2>8, <2>9 DEF CoreOK
<1>3. ASSUME NEW d \in Cores, d # c PROVE CoreOK(d)'
  BY <1>3, Frame DEF TypeOK
<1> QED BY <1>1, <1>2, <1>3

LEMMA LaunchNothingInv ==
  ASSUME IInv, NEW c \in Cores, LaunchNothing(c)
  PROVE  IInv'
<1> USE DEF IInv, LaunchNothing
<1>1. TypeOK'
  <2>1. groups[c] - 1 \in 0 .. MaxGroups
    BY RuntimeAssumption DEF TypeOK
  <2> QED BY <2>1 DEF TypeOK
<1>2. CoreOK(c)'
  BY DEF CoreOK, TypeOK
<1>3. ASSUME NEW d \in Cores, d # c PROVE CoreOK(d)'
  BY <1>3, Frame DEF TypeOK
<1> QED BY <1>1, <1>2, <1>3

LEMMA LoadArgumentInv ==
  ASSUME IInv, NEW c \in Cores, LoadArgument(c)
  PROVE  IInv'
<1> USE DEF IInv, LoadArgument, TlbFunc
<1> DEFINE k == tlb[c].kernel_idx
           Given == {Unpack(tlb[c].args, k, a) : a \in Arg(k)}
<1>0. /\ tlb[c] \in TlbData
      /\ k \in Kernel
      /\ NumArgs[k] \in Nat
      /\ ai[c] \in Arg(k)
      /\ groups[c] > 0
  <2>1. pc[c] = "launch" /\ CoreOK(c)
    OBVIOUS
  <2>2. /\ k \in Kernel /\ ai[c] \in 0 .. NumArgs[k] /\ tlb[c] \in TlbData
        /\ groups[c] > 0
    BY <2>1 DEF CoreOK
  <2>3. NumArgs[k] \in Nat
    BY <2>2, KernelAssumption
  <2>4. ai[c] \in Arg(k)
    BY <2>2, <2>3 DEF Arg
  <2> QED BY <2>2, <2>3, <2>4
<1>1. TypeOK'
  BY <1>0 DEF TypeOK, Arg
<1>2. CoreOK(c)'
  <2>1. pool[c][k][ai[c]] = Unpack(tlb[c].args, k, ai[c])
    BY <1>0 DEF CoreOK, Copied, Arg
  <2>2. /\ call_args[c] \in Seq(Given)
        /\ Len(call_args[c]) = ai[c]
        /\ \A a \in Arg(k) : a < ai[c] =>
             call_args[c][a + 1] = Unpack(tlb[c].args, k, a)
    BY DEF CoreOK
  <2>3. /\ call_args'[c] = Append(call_args[c], Unpack(tlb[c].args, k, ai[c]))
        /\ ai'[c] = ai[c] + 1
        /\ pc'[c] = "launch" /\ tlb'[c] = tlb[c] /\ groups'[c] = groups[c]
    BY <2>1 DEF TypeOK
  <2>4. FuncSet(c)' /\ Copied(c, NumArgs[k])'
    BY DEF CoreOK, FuncSet, Copied
  <2>5. Unpack(tlb[c].args, k, ai[c]) \in Given
    BY <1>0
  <2>6. ai[c] \in Nat /\ ai[c] + 1 \in 0 .. NumArgs[k]
    BY <1>0 DEF Arg
  <2>7. call_args'[c] \in Seq(Given) /\ Len(call_args'[c]) = ai[c] + 1
    <3> HIDE DEF Given
    <3> QED BY <2>2, <2>3, <2>5, <2>6
  <2>8. ASSUME NEW a \in Arg(k), a < ai[c] + 1
        PROVE  call_args'[c][a + 1] = Unpack(tlb[c].args, k, a)
    <3>1. a \in Nat
      BY DEF Arg
    <3> HIDE DEF Given
    <3>2. CASE a = ai[c]
      BY <3>1, <3>2, <2>2, <2>3
    <3>3. CASE a < ai[c]
      <4>1. call_args'[c][a + 1] = call_args[c][a + 1]
        BY <3>1, <3>3, <2>2, <2>3, <2>6
      <4> QED BY <4>1, <3>3, <2>2
    <3>4. a = ai[c] \/ a < ai[c]
      BY <3>1, <2>6, <2>8
    <3> QED BY <3>2, <3>3, <3>4
  <2> QED BY <1>0, <2>3, <2>4, <2>6, <2>7, <2>8 DEF CoreOK
<1>3. ASSUME NEW d \in Cores, d # c PROVE CoreOK(d)'
  BY <1>3, Frame DEF TypeOK
<1> QED BY <1>1, <1>2, <1>3

LEMMA CallKernelInv ==
  ASSUME IInv, NEW c \in Cores, CallKernel(c)
  PROVE  IInv'
<1> USE DEF IInv, CallKernel
<1>1. TypeOK'
  <2>1. CoreOK(c) /\ pc[c] = "launch"
    OBVIOUS
  <2>2. groups[c] > 0
    BY <2>1 DEF CoreOK
  <2>3. groups[c] - 1 \in 0 .. MaxGroups
    BY <2>2, RuntimeAssumption DEF TypeOK
  <2> QED BY <2>3 DEF TypeOK
<1>2. CoreOK(c)'
  <2>1. pc'[c] = "ready" /\ tlb'[c] = tlb[c] /\ pool'[c] = pool[c]
    BY DEF TypeOK
  <2>2. pc[c] = "launch" /\ CoreOK(c)
    OBVIOUS
  <2> QED BY <2>1, <2>2 DEF CoreOK, FuncSet, Copied
<1>3. ASSUME NEW d \in Cores, d # c PROVE CoreOK(d)'
  BY <1>3, Frame DEF TypeOK
<1> QED BY <1>1, <1>2, <1>3

LEMMA FiniInv ==
  ASSUME IInv, NEW c \in Cores, Fini(c)
  PROVE  IInv'
<1> USE DEF IInv, Fini
<1>1. TypeOK'
  BY DEF TypeOK
<1>2. CoreOK(c)'
  BY DEF CoreOK, TypeOK
<1>3. ASSUME NEW d \in Cores, d # c PROVE CoreOK(d)'
  BY <1>3, Frame DEF TypeOK
<1> QED BY <1>1, <1>2, <1>3

LEMMA NextInv == IInv /\ [Next]_vars => IInv'
<1> SUFFICES ASSUME IInv, [Next]_vars PROVE IInv'
  OBVIOUS
<1>1. CASE UNCHANGED vars
  <2>1. TypeOK'
    BY <1>1 DEF IInv, TypeOK, vars
  <2>2. ASSUME NEW c \in Cores PROVE CoreOK(c)'
    BY <1>1, Frame DEF IInv, vars
  <2> QED BY <2>1, <2>2 DEF IInv
<1>2. ASSUME NEW c \in Cores, NEW k \in KernelIdx, NEW block \in Blocks,
             NEW n \in 1 .. MaxGroups, Dispatch(c, k, block, n)
      PROVE  IInv'
  BY <1>2, DispatchInv
<1>3. ASSUME NEW c \in Cores,
             \/ EnterSetArguments(c) \/ SetArgument(c) \/ SetDone(c)
             \/ EnterLaunch(c) \/ LaunchNothing(c) \/ LoadArgument(c)
             \/ CallKernel(c) \/ Fini(c)
      PROVE  IInv'
  BY <1>3, EnterSetArgumentsInv, SetArgumentInv, SetDoneInv, EnterLaunchInv,
     LaunchNothingInv, LoadArgumentInv, CallKernelInv, FiniInv
<1> QED BY <1>1, <1>2, <1>3 DEF Next

\* Types, and what is copied and loaded, at every step of every core.
LEMMA Invariance == Spec => []IInv
BY InitInv, NextInv, PTL DEF Spec

\* The fields, offsets and registers of the generated functions have their
\* types; in particular args_offset never leaves the block.
THEOREM LinkTypeCorrect == Spec => []TypeOK
<1>1. IInv => TypeOK
  BY DEF IInv
<1> QED BY <1>1, Invariance, PTL

\* kernel_set_arguments reads inside the block the runtime packed, for every
\* layout that puts the arguments one behind the other.
THEOREM LinkReadsInBlock == Spec => []ReadsStayInBlock
<1>1. IInv => ReadsStayInBlock
  <2> SUFFICES ASSUME IInv, NEW c \in Cores, pc[c] = "set",
                      ai[c] < NumArgs[tlb[c].kernel_idx]
               PROVE  args_offset[c] + ArgSize(tlb[c].kernel_idx, ai[c])
                        <= ArgsSize
    BY DEF ReadsStayInBlock
  <2> DEFINE k == tlb[c].kernel_idx
  <2>1. /\ k \in Kernel
        /\ ai[c] \in 0 .. NumArgs[k]
        /\ args_offset[c] = ArgOffset[k][ai[c]]
    BY DEF IInv, CoreOK
  <2>2. NumArgs[k] \in Nat
    BY <2>1, KernelAssumption
  <2>3. ai[c] \in Arg(k)
    BY <2>1, <2>2 DEF Arg
  <2> HIDE DEF k
  <2>4. /\ ArgOffset[k][ai[c] + 1] \in 0 .. ArgsSize
        /\ ArgOffset[k][ai[c] + 1] = ArgOffset[k][ai[c]] + ArgSize(k, ai[c])
    BY <2>1, <2>3, OffsetsTyped
  <2> QED BY <2>1, <2>4 DEF k
<1> QED BY <1>1, Invariance, PTL

-----------------------------------------------------------------------------
(***************************************************************************)
(* The refinement: Dispatch, CallKernel, LaunchNothing and Fini are the    *)
(* steps of the promise, all others stutter.                               *)
(***************************************************************************)
LEMMA CallMaps ==
  ASSUME IInv, NEW c \in Cores, CallKernel(c)
  PROVE  Launches!RunGroup(c)
<1> DEFINE k == tlb[c].kernel_idx
<1>1. /\ pc[c] = "launch" /\ tlb[c] \in TlbData /\ k \in Kernel /\ groups[c] > 0
      /\ ai[c] = NumArgs[k] /\ NumArgs[k] \in Nat
  BY KernelAssumption DEF IInv, CoreOK, CallKernel
<1>2. tlb[c] # None
  BY <1>1, RuntimeAssumption DEF TlbData, KernelIdx
<1>3. pool[c][k][ai[c]] = k
  BY <1>1 DEF IInv, CoreOK, FuncSet, FuncField
<1>4. \A a \in Arg(k) : call_args[c][a + 1] = Unpack(tlb[c].args, k, a)
  <2>1. \A a \in Arg(k) : a < ai[c]
    BY <1>1 DEF Arg
  <2>2. CoreOK(c)
    BY DEF IInv
  <2> QED BY <1>1, <2>1, <2>2 DEF CoreOK
<1>5. [a \in Arg(k) |-> call_args[c][a + 1]] = [a \in Arg(k) |-> Unpack(tlb[c].args, k, a)]
  BY <1>4
<1>6. called' = [called EXCEPT ![c] =
        [func |-> k, args |-> [a \in Arg(k) |-> Unpack(tlb[c].args, k, a)]]]
  BY <1>3, <1>5 DEF CallKernel, TlbFunc
<1>7. groups' = [groups EXCEPT ![c] = @ - 1] /\ UNCHANGED tlb
  BY DEF CallKernel
<1> QED BY <1>1, <1>2, <1>6, <1>7 DEF Launches!RunGroup, Launches!Unpack,
      Launches!ReadBytes, Launches!ArgSize, Launches!Arg, Launches!Kernel,
      Unpack, ReadBytes, ArgSize, Arg, Kernel

LEMMA LaunchNothingMaps ==
  ASSUME IInv, NEW c \in Cores, LaunchNothing(c)
  PROVE  Launches!RunGroup(c)
<1>1. tlb[c] \in TlbData
  BY DEF IInv, CoreOK, LaunchNothing
<1>2. tlb[c] # None
  BY <1>1, RuntimeAssumption DEF TlbData, KernelIdx
<1> QED BY <1>2 DEF LaunchNothing, Launches!RunGroup, Launches!Kernel, Kernel

LEMMA StepMaps == IInv /\ [Next]_vars => [Launches!Next]_(Launches!vars)
<1> SUFFICES ASSUME IInv, [Next]_vars
             PROVE  Launches!Next \/ UNCHANGED Launches!vars
  OBVIOUS
<1> USE DEF Launches!Next, Launches!vars, Launches!KernelIdx, KernelIdx
<1>1. CASE UNCHANGED vars
  BY <1>1 DEF vars
<1>2. ASSUME NEW c \in Cores, NEW k \in KernelIdx, NEW block \in Blocks,
             NEW n \in 1 .. MaxGroups, Dispatch(c, k, block, n)
      PROVE  Launches!Next
  <2>1. Launches!Dispatch(c, k, block, n)
    BY <1>2 DEF Dispatch, Launches!Dispatch, IInv, CoreOK
  <2> QED BY <2>1
<1>3. ASSUME NEW c \in Cores,
             EnterSetArguments(c) \/ SetArgument(c) \/ SetDone(c)
               \/ EnterLaunch(c) \/ LoadArgument(c)
      PROVE  UNCHANGED Launches!vars
  BY <1>3 DEF EnterSetArguments, SetArgument, SetDone, EnterLaunch, LoadArgument
<1>4. ASSUME NEW c \in Cores, CallKernel(c) \/ LaunchNothing(c)
      PROVE  Launches!Next
  BY <1>4, CallMaps, LaunchNothingMaps
<1>5. ASSUME NEW c \in Cores, Fini(c) PROVE Launches!Next
  <2>1. tlb[c] \in TlbData
    BY <1>5 DEF IInv, CoreOK, Fini
  <2>2. tlb[c] # None
    BY <2>1, RuntimeAssumption DEF TlbData, KernelIdx
  <2>3. Launches!Finish(c)
    BY <1>5, <2>2 DEF Fini, Launches!Finish
  <2> QED BY <2>3
<1> QED BY <1>1, <1>2, <1>3, <1>4, <1>5 DEF Next

\* The functions kernel_link.cpp generates implement KernelLaunches: whatever
\* other cores do, a work-group's call is of the kernel that was asked for,
\* with the arguments of its dispatch.
THEOREM LinkRefinement == Spec => ImplementsLaunches
<1>1. Init => Launches!Init
  BY DEF Init, Launches!Init
<1> QED BY <1>1, StepMaps, Invariance, PTL
         DEF Spec, ImplementsLaunches, Launches!Spec
=============================================================================
