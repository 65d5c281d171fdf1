------------------------- MODULE Invariance_proofs -------------------------
(***************************************************************************)
(* Proofs about the two analyses: TripletInvariance, for functions of any  *)
(* length, and at the end the lattice of InvarianceLattice.                *)
(*                                                                         *)
(* That no alloca is asked about while it is pending has three reasons,    *)
(* one per kind of caller: a load or a store looks whether the alloca is   *)
(* GREY, an alloca asks about what is stored to it, which is no address,   *)
(* and another instruction that has the address is not among what the      *)
(* alloca is made of.  Everything above an alloca on the stack is: IInv.   *)
(*                                                                         *)
(* That verdicts are exact where nothing was cut is XInv: each call has    *)
(* come by as much as is missing from what it is yet to ask and from the   *)
(* call above it (Sums), calls are about sources of those below (Chain),   *)
(* and whoever reads a verdict set in advance is made of itself.           *)
(***************************************************************************)
EXTENDS TripletInvariance, InvarianceLattice, Cfg_proofs, SequenceTheorems

IsAlloca(g, v) == g.code[v].op = "alloca"

\* A set that has, with a value, what the value is made of.
Closed(g, from) ==
  from \subseteq Values(g) /\ \A v \in from : Sources(g)[v] \subseteq from

Frames(g) == [v : Values(g), rest : Seq(Values(g) \cup {0}), acc : Triplets]

\* What is left to be looked at by a call.
Left(g, v) == IF IsAlloca(g, v) THEN Users(g, v) ELSE Range(Asked(g.code[v]))

FrameOK(g, f, gr) ==
  /\ f.v \notin DOMAIN g.marks
  /\ IsAlloca(g, f.v) => f.v \in gr
  /\ Range(f.rest) \subseteq Left(g, f.v)

StackOK(g, s, gr) ==
  /\ s \in Seq(Frames(g))
  /\ \A i \in 1 .. Len(s) : FrameOK(g, s[i], gr)
  /\ \A i, j \in 1 .. Len(s) : i < j /\ IsAlloca(g, s[i].v) =>
       /\ s[i].v # s[j].v
       /\ \A from : Closed(g, from) /\ Sources(g)[s[i].v] \subseteq from => s[j].v \in from

VerdictsOK ==
  /\ DOMAIN tc \subseteq Values(func) /\ Range(tc) \subseteq Triplets
  /\ DOMAIN func.marks \subseteq DOMAIN tc

IInv ==
  /\ func \in Functions
  /\ VerdictsOK
  /\ grey \subseteq Values(func)
  /\ StackOK(func, stack, grey)
  /\ next \in 1 .. Len(func.code) + 1

-----------------------------------------------------------------------------
(***************************************************************************)
(* Functions.                                                              *)
(***************************************************************************)
LEMMA FunctionFacts ==
  ASSUME NEW g \in Functions
  PROVE  /\ g.code \in Seq(Instructions(Len(g.code)))
         /\ Values(g) = 1 .. Len(g.code)
         /\ \A v \in Values(g) :
              /\ g.code[v] \in Instructions(Len(g.code))
              /\ g.code[v].args \in Seq(Values(g) \cup {0})
              /\ g.code[v].op = "store" => Len(g.code[v].args) = 2
              /\ g.code[v].op \in {"alloca", "id", "phi"} => g.code[v].args = << >>
<1>1. g.code \in Seq(Instructions(Len(g.code)))
  BY FunctionsAssumption
<1>2. Values(g) = 1 .. Len(g.code)
  BY <1>1 DEF Values
<1>3. ASSUME NEW v \in Values(g) PROVE g.code[v] \in Instructions(Len(g.code))
  BY <1>1, <1>2
<1>4. 0 .. Len(g.code) = Values(g) \cup {0}
  BY <1>1, <1>2
<1>5. ASSUME NEW v \in Values(g) PROVE g.code[v].args \in Seq(Values(g) \cup {0})
  BY <1>3, <1>4 DEF Instructions
<1> QED BY <1>1, <1>2, <1>3, <1>5, FunctionsAssumption

\* A finite set, as a sequence.
LEMMA SetToSeqRange ==
  ASSUME NEW S, IsFiniteSet(S)
  PROVE  SetToSeq(S) \in Seq(S) /\ Range(SetToSeq(S)) = S
<1>1. Cardinality(S) \in Nat /\ ExistsBijection(1 .. Cardinality(S), S)
  BY FS_CardinalityType
<1>2. PICK f \in Bijection(1 .. Cardinality(S), S) : TRUE
  BY <1>1 DEF ExistsBijection
<1>3. f \in [1 .. Cardinality(S) -> S] /\ IsInjective(f)
  BY <1>2 DEF Bijection, Injection, IsInjective
<1>4. SetToSeq(S) \in [1 .. Cardinality(S) -> S]
  BY <1>3 DEF SetToSeq
<1>5. IsInjective(SetToSeq(S))
  BY <1>3 DEF SetToSeq
<1>6. SetToSeq(S) \in Injection(1 .. Cardinality(S), S)
  BY <1>4, <1>5 DEF IsInjective, Injection
<1>7. SetToSeq(S) \in Surjection(1 .. Cardinality(S), S)
  <2>1. IsFiniteSet(1 .. Cardinality(S)) /\ Cardinality(1 .. Cardinality(S)) = Cardinality(S)
    BY <1>1, FS_Interval
  <2> QED BY <1>6, <2>1, FS_Injection
<1>8. Range(SetToSeq(S)) = S
  BY <1>4, <1>7 DEF Surjection, Range
<1> QED BY <1>1, <1>4, <1>8, SeqDef

LEMMA FrontFacts ==
  ASSUME NEW S, NEW s \in Seq(S), s # << >>
  PROVE  /\ Front(s) \in Seq(S) /\ Len(Front(s)) = Len(s) - 1
         /\ \A i \in 1 .. Len(s) - 1 : Front(s)[i] = s[i]
<1> DEFINE n == Len(s) - 1
<1>1. n \in Nat /\ \A i \in 1 .. n : s[i] \in S
  OBVIOUS
<1>2. /\ SubSeq(s, 1, n) \in Seq(S)
      /\ Len(SubSeq(s, 1, n)) = IF 1 <= n THEN n - 1 + 1 ELSE 0
      /\ \A i \in 1 .. n - 1 + 1 : SubSeq(s, 1, n)[i] = s[1 + i - 1]
  BY <1>1, SubSeqProperties
<1> HIDE DEF n
<1>3. Len(SubSeq(s, 1, n)) = n /\ \A i \in 1 .. n : SubSeq(s, 1, n)[i] = s[i]
  <2>1. n - 1 + 1 = n /\ (IF 1 <= n THEN n - 1 + 1 ELSE 0) = n
    BY <1>1
  <2>2. \A i \in 1 .. n : 1 + i - 1 = i
    BY <1>1
  <2> QED BY <1>2, <2>1, <2>2, Zenon
<1> QED BY <1>2, <1>3 DEF Front, n

\* What is asked about is where the data comes from.
LEMMA AskedIsSource ==
  ASSUME NEW g \in Functions, NEW v \in Values(g), v \notin DOMAIN g.marks
  PROVE  /\ ~IsAlloca(g, v) => Range(Asked(g.code[v])) \ {0} \subseteq Sources(g)[v]
         /\ IsAlloca(g, v) =>
              \A u \in Users(g, v) : g.code[u].op = "store" /\ g.code[u].args[1] # 0
                                       => g.code[u].args[1] \in Sources(g)[v]
BY DEF Sources, IsAlloca

LEMMA AskedIsOperand ==
  ASSUME NEW g \in Functions, NEW v \in Values(g)
  PROVE  /\ Asked(g.code[v]) \in Seq(Values(g) \cup {0})
         /\ Range(Asked(g.code[v])) \subseteq Range(g.code[v].args)
<1> DEFINE i == g.code[v]
<1>1. i.args \in Seq(Values(g) \cup {0}) /\ (i.op = "store" => Len(i.args) = 2)
  BY FunctionFacts
<1>2. CASE i.op = "store"
  <2>1. 1 \in DOMAIN i.args /\ i.args[1] \in Values(g) \cup {0}
    <3>1. DOMAIN i.args = 1 .. 2
      BY <1>1, <1>2
    <3>2. 1 \in DOMAIN i.args
      BY <3>1
    <3> QED BY <1>1, <3>2, ElementOfSeq
  <2>2. Asked(i) = <<i.args[1]>>
    BY <1>2 DEF Asked
  <2> QED BY <2>1, <2>2 DEF Range
<1>3. CASE i.op # "store"
  BY <1>1, <1>3 DEF Asked
<1> QED BY <1>2, <1>3

-----------------------------------------------------------------------------
(***************************************************************************)
(* The stack.                                                              *)
(***************************************************************************)
\* Calls that go on, or return, leave a good stack.
LEMMA SameCalls ==
  ASSUME NEW g \in Functions, NEW s, NEW gr, StackOK(g, s, gr),
         NEW t \in Seq(Frames(g)), Len(t) =< Len(s),
         \A i \in 1 .. Len(t) : t[i].v = s[i].v /\ Range(t[i].rest) \subseteq Range(s[i].rest)
  PROVE  StackOK(g, t, gr)
<1>1. 1 .. Len(t) \subseteq 1 .. Len(s)
  BY DEF StackOK
<1>2. \A i \in 1 .. Len(t) : FrameOK(g, t[i], gr)
  BY <1>1 DEF StackOK, FrameOK
<1>3. ASSUME NEW i \in 1 .. Len(t), NEW j \in 1 .. Len(t), i < j, IsAlloca(g, t[i].v)
      PROVE  /\ t[i].v # t[j].v
             /\ \A from : Closed(g, from) /\ Sources(g)[t[i].v] \subseteq from
                            => t[j].v \in from
  <2>1. i \in 1 .. Len(s) /\ j \in 1 .. Len(s) /\ t[i].v = s[i].v /\ t[j].v = s[j].v
    BY <1>1
  <2> QED BY <2>1, <1>3, Zenon DEF StackOK
<1> QED BY <1>2, <1>3, Zenon DEF StackOK

\* A call that is entered by the innermost one, about one of its sources.
LEMMA OneMoreCall ==
  ASSUME NEW g \in Functions, NEW s, NEW gr, NEW more,
         StackOK(g, s, gr), gr \subseteq more,
         NEW f \in Frames(g), FrameOK(g, f, more),
         s # << >> => f.v \in Sources(g)[s[Len(s)].v],
         IsAlloca(g, f.v) => \A i \in 1 .. Len(s) : s[i].v # f.v
  PROVE  StackOK(g, Append(s, f), more)
<1> DEFINE t == Append(s, f)
           n == Len(s)
<1>1. s \in Seq(Frames(g)) /\ n \in Nat
  BY DEF StackOK
<1>2. /\ t \in Seq(Frames(g)) /\ Len(t) = n + 1 /\ t[n + 1] = f
      /\ \A i \in 1 .. n : t[i] = s[i]
  BY <1>1
<1> HIDE DEF t
<1>3. ASSUME NEW i \in 1 .. Len(t) PROVE FrameOK(g, t[i], more)
  <2>1. CASE i = n + 1
    BY <1>2, <2>1
  <2>2. CASE i \in 1 .. n
    <3>1. FrameOK(g, s[i], gr) /\ t[i] = s[i]
      BY <1>2, <2>2 DEF StackOK
    <3> QED BY <3>1 DEF FrameOK
  <2> QED BY <1>1, <1>2, <2>1, <2>2
<1>4. ASSUME NEW i \in 1 .. Len(t), NEW j \in 1 .. Len(t), i < j, IsAlloca(g, t[i].v),
             NEW from, Closed(g, from), Sources(g)[t[i].v] \subseteq from
      PROVE  t[j].v \in from
  <2>1. i \in 1 .. n /\ t[i] = s[i]
    BY <1>1, <1>2, <1>4
  <2>2. CASE j \in 1 .. n
    <3>1. t[j] = s[j]
      BY <1>2, <2>2
    <3> QED BY <1>4, <2>1, <2>2, <3>1, Zenon DEF StackOK
  <2>3. CASE j = n + 1
    <3>1. f.v \in Sources(g)[s[n].v] /\ n \in 1 .. n
      BY <1>1, <2>1
    <3>2. CASE i = n
      BY <1>4, <2>1, <3>1, <3>2, <1>2, <2>3
    <3>3. CASE i < n
      <4>1. s[n].v \in from
        BY <1>4, <2>1, <3>1, <3>3, Zenon DEF StackOK
      <4> QED BY <4>1, <3>1, <1>4, <1>2, <2>3 DEF Closed
    <3> QED BY <1>1, <2>1, <3>2, <3>3
  <2> QED BY <1>1, <1>2, <2>2, <2>3
<1>5. ASSUME NEW i \in 1 .. Len(t), NEW j \in 1 .. Len(t), i < j, IsAlloca(g, t[i].v)
      PROVE  t[i].v # t[j].v
  <2>1. i \in 1 .. n /\ t[i] = s[i]
    BY <1>1, <1>2, <1>5
  <2>2. CASE j \in 1 .. n
    <3>1. t[j] = s[j]
      BY <1>2, <2>2
    <3> QED BY <1>5, <2>1, <2>2, <3>1, Zenon DEF StackOK
  <2>3. CASE j = n + 1
    BY <1>2, <1>5, <2>1, <2>3
  <2> QED BY <1>1, <1>2, <2>2, <2>3
<1> QED BY <1>2, <1>3, <1>4, <1>5, Zenon DEF StackOK, t

-----------------------------------------------------------------------------
(***************************************************************************)
(* The parts of the steps.                                                 *)
(***************************************************************************)
LEMMA CallFacts ==
  ASSUME IInv, NEW v \in Values(func)
  PROVE  /\ Call(v) \in Frames(func) /\ Call(v).v = v
         /\ Range(Call(v).rest) \subseteq Left(func, v)
<1> DEFINE i == func.code[v]
<1>1. i \in Instructions(Len(func.code))
  BY FunctionFacts DEF IInv
<1>2. OwnTriplet(i) \in Triplets
  BY <1>1 DEF Instructions, OwnTriplet, Triplets, Dim, NonInvariant, Invariant
<1>3. Users(func, v) \subseteq Values(func) /\ IsFiniteSet(Values(func))
  <2>1. Values(func) = 1 .. Len(func.code) /\ Len(func.code) \in Nat
    <3>1. func \in Functions
      BY DEF IInv
    <3>2. func.code \in Seq(Instructions(Len(func.code))) /\ Values(func) = 1 .. Len(func.code)
      BY <3>1, FunctionFacts, Zenon
    <3> QED BY <3>2
  <2>2. IsFiniteSet(1 .. Len(func.code))
    BY <2>1, FS_Interval
  <2> QED BY <2>1, <2>2 DEF Users
<1>4. CASE i.op = "alloca"
  <2>1. SetToSeq(Users(func, v)) \in Seq(Users(func, v))
    BY <1>3, FS_Subset, SetToSeqRange
  <2>2. /\ Range(SetToSeq(Users(func, v))) \subseteq Users(func, v)
        /\ SetToSeq(Users(func, v)) \in Seq(Values(func) \cup {0})
    BY <2>1, <1>3 DEF Range
  <2> QED BY <1>2, <1>4, <2>2 DEF Call, Frames, Left, IsAlloca
<1>5. CASE i.op # "alloca"
  <2>1. Asked(i) \in Seq(Values(func) \cup {0})
    BY AskedIsOperand DEF IInv
  <2> QED BY <1>2, <1>5, <2>1 DEF Call, Frames, Left, IsAlloca
<1> QED BY <1>4, <1>5

\* The innermost call.
LEMMA TopFacts ==
  ASSUME IInv, stack # << >>
  PROVE  /\ stack \in Seq(Frames(func)) /\ Len(stack) \in Nat \ {0}
         /\ Top = stack[Len(stack)] /\ Top \in Frames(func)
         /\ FrameOK(func, Top, grey) /\ Top.v \in Values(func)
<1>1. stack \in Seq(Frames(func))
  BY DEF IInv, StackOK
<1>2. Len(stack) \in Nat \ {0} /\ Top = stack[Len(stack)]
  BY <1>1 DEF Top, Last
<1>3. Top \in Frames(func)
  BY <1>1, <1>2
<1>4. FrameOK(func, Top, grey)
  BY <1>2 DEF IInv, StackOK
<1> QED BY <1>1, <1>2, <1>3, <1>4 DEF Frames

LEMMA ContinueOK ==
  ASSUME IInv, stack # << >>, NEW t \in Triplets,
         NEW rest \in Seq(Values(func) \cup {0}), Range(rest) \subseteq Range(Top.rest)
  PROVE  /\ StackOK(func, Continue(rest, t), grey)
         /\ Len(Continue(rest, t)) = Len(stack)
         /\ \A i \in 1 .. Len(stack) : Continue(rest, t)[i].v = stack[i].v
         /\ \A i \in 1 .. Len(stack) - 1 : Continue(rest, t)[i] = stack[i]
         /\ Continue(rest, t)[Len(stack)].rest = rest
         /\ Continue(rest, t)[Len(stack)].acc = Top.acc \cup t
<1> DEFINE f == [Top EXCEPT !.rest = rest, !.acc = @ \cup t]
           s == Continue(rest, t)
           n == Len(stack)
<1>1. /\ stack \in Seq(Frames(func)) /\ n \in Nat \ {0}
      /\ Top = stack[n] /\ Top \in Frames(func)
  BY TopFacts
<1>2. /\ f \in Frames(func)
      /\ f.v = Top.v /\ f.rest = rest /\ f.acc = Top.acc \cup t
  BY <1>1 DEF Frames, Triplets
<1>3. /\ Front(stack) \in Seq(Frames(func)) /\ Len(Front(stack)) = n - 1
      /\ \A i \in 1 .. n - 1 : Front(stack)[i] = stack[i]
  BY <1>1, FrontFacts
<1>4. s = Append(Front(stack), f)
  BY DEF Continue
<1> HIDE DEF f, s
<1>5. /\ s \in Seq(Frames(func)) /\ Len(s) = n /\ s[n] = f
      /\ \A i \in 1 .. n - 1 : s[i] = stack[i]
  BY <1>1, <1>2, <1>3, <1>4
<1>6. \A i \in 1 .. n : s[i].v = stack[i].v /\ Range(s[i].rest) \subseteq Range(stack[i].rest)
  <2> SUFFICES ASSUME NEW i \in 1 .. n
               PROVE  s[i].v = stack[i].v /\ Range(s[i].rest) \subseteq Range(stack[i].rest)
    OBVIOUS
  <2>1. CASE i = n
    BY <1>1, <1>2, <1>5, <2>1
  <2>2. CASE i # n
    BY <1>1, <1>5, <2>2
  <2> QED BY <2>1, <2>2
<1>7. /\ func \in Functions /\ StackOK(func, stack, grey)
      /\ Len(s) =< Len(stack) /\ 1 .. Len(s) = 1 .. n
  BY <1>1, <1>5 DEF IInv
<1>8. StackOK(func, s, grey)
  BY <1>5, <1>6, <1>7, SameCalls, Zenon
<1> QED BY <1>2, <1>5, <1>6, <1>8 DEF s

LEMMA ReturnOK ==
  ASSUME IInv, stack # << >>, NEW t \in Triplets
  PROVE  /\ StackOK(func, Return(t), grey)
         /\ Len(Return(t)) = Len(stack) - 1
         /\ \A i \in 1 .. Len(stack) - 2 : Return(t)[i] = stack[i]
         /\ Len(stack) - 1 # 0 =>
              /\ Return(t)[Len(stack) - 1].v = stack[Len(stack) - 1].v
              /\ Return(t)[Len(stack) - 1].rest = stack[Len(stack) - 1].rest
              /\ Return(t)[Len(stack) - 1].acc = stack[Len(stack) - 1].acc \cup t
<1> DEFINE n == Len(stack)
<1>1. stack \in Seq(Frames(func)) /\ n \in Nat \ {0}
  BY TopFacts
<1>2. CASE n = 1
  <2>1. Return(t) = << >>
    BY <1>2 DEF Return
  <2>2. StackOK(func, << >>, grey)
    BY DEF StackOK
  <2>3. \A i \in 1 .. n - 2 : FALSE
    BY <1>2
  <2> QED BY <1>2, <2>1, <2>2, <2>3
<1>3. CASE n # 1
  <2> DEFINE s == Front(stack)
             f == [Last(s) EXCEPT !.acc = @ \cup t]
             r == Append(Front(s), f)
  <2>1. /\ s \in Seq(Frames(func)) /\ Len(s) = n - 1
        /\ \A i \in 1 .. n - 1 : s[i] = stack[i]
    BY <1>1, FrontFacts
  <2>2. Return(t) = r
    BY <1>3 DEF Return
  <2> HIDE DEF s
  <2>3. /\ Front(s) \in Seq(Frames(func)) /\ Len(Front(s)) = n - 2
        /\ \A i \in 1 .. n - 2 : Front(s)[i] = stack[i]
    <3>1. s # << >>
      BY <1>1, <1>3, <2>1
    <3>2. /\ Front(s) \in Seq(Frames(func)) /\ Len(Front(s)) = Len(s) - 1
          /\ \A i \in 1 .. Len(s) - 1 : Front(s)[i] = s[i]
      BY <2>1, <3>1, FrontFacts, Zenon
    <3>3. Len(s) - 1 = n - 2 /\ \A i \in 1 .. n - 2 : i \in 1 .. n - 1
      BY <1>1, <2>1
    <3>4. \A i \in 1 .. n - 2 : Front(s)[i] = s[i] /\ s[i] = stack[i]
      BY <2>1, <3>2, <3>3, Zenon
    <3> QED BY <3>2, <3>3, <3>4, Zenon
  <2>4. Last(s) = stack[n - 1] /\ Last(s) \in Frames(func)
    BY <1>1, <1>3, <2>1 DEF Last
  <2>5. /\ f \in Frames(func) /\ f.v = stack[n - 1].v /\ f.rest = stack[n - 1].rest
        /\ f.acc = stack[n - 1].acc \cup t
    BY <2>4 DEF Frames, Triplets
  <2> HIDE DEF f
  <2>6. /\ r \in Seq(Frames(func)) /\ Len(r) = n - 1 /\ r[n - 1] = f
        /\ \A i \in 1 .. n - 2 : r[i] = stack[i]
    BY <1>1, <1>3, <2>3, <2>5
  <2> HIDE DEF r
  <2>7. \A i \in 1 .. n - 1 : r[i].v = stack[i].v /\ Range(r[i].rest) \subseteq Range(stack[i].rest)
    <3> SUFFICES ASSUME NEW i \in 1 .. n - 1
                 PROVE  r[i].v = stack[i].v /\ Range(r[i].rest) \subseteq Range(stack[i].rest)
      OBVIOUS
    <3>1. CASE i = n - 1
      BY <2>5, <2>6, <3>1, Zenon
    <3>2. CASE i # n - 1
      <4>1. i \in 1 .. n - 2
        BY <1>1, <3>2
      <4> QED BY <2>6, <4>1, Zenon
    <3> QED BY <3>1, <3>2
  <2>8. /\ func \in Functions /\ StackOK(func, stack, grey)
        /\ Len(r) =< Len(stack) /\ 1 .. Len(r) = 1 .. n - 1
    BY <1>1, <2>6 DEF IInv
  <2>9. StackOK(func, r, grey)
    BY <2>6, <2>7, <2>8, SameCalls, Zenon
  <2> QED BY <2>2, <2>5, <2>6, <2>9, Zenon
<1> QED BY <1>2, <1>3

LEMMA SetOK ==
  ASSUME IInv, NEW v \in Values(func), NEW t \in Triplets, Set(v, t), UNCHANGED func
  PROVE  VerdictsOK'
<1>1. DOMAIN tc' = DOMAIN tc \cup {v}
  BY DEF Set
<1>2. \A x \in DOMAIN tc' : tc'[x] \in Triplets
  BY DEF Set, IInv, VerdictsOK, Range
<1> QED BY <1>1, <1>2, Zenon DEF IInv, VerdictsOK, Range

\* A call about v on top of the stack s, which v is asked about from.
LEMMA EnterOK ==
  ASSUME IInv, NEW v \in Values(func), v \notin DOMAIN tc, NEW s, StackOK(func, s, grey),
         s # << >> => v \in Sources(func)[s[Len(s)].v],
         IsAlloca(func, v) => \A i \in 1 .. Len(s) : s[i].v # v,
         Enter(v, s), UNCHANGED func
  PROVE  (grey \subseteq Values(func) /\ StackOK(func, stack, grey))'
<1>1. /\ Call(v) \in Frames(func) /\ Call(v).v = v
      /\ Range(Call(v).rest) \subseteq Left(func, v)
  BY CallFacts
<1>2. /\ stack' = Append(s, Call(v))
      /\ grey \subseteq grey' /\ grey' \subseteq Values(func)
      /\ IsAlloca(func, v) => v \in grey'
  BY DEF Enter, IsAlloca, IInv
<1>3. v \notin DOMAIN func.marks
  BY DEF IInv, VerdictsOK
<1>4. FrameOK(func, Call(v), grey')
  BY <1>1, <1>2, <1>3 DEF FrameOK
<1>5. StackOK(func, Append(s, Call(v)), grey')
  BY <1>1, <1>2, <1>4, OneMoreCall, Zenon DEF IInv
<1> QED BY <1>2, <1>5, Zenon

-----------------------------------------------------------------------------
(***************************************************************************)
(* The steps.                                                              *)
(***************************************************************************)
\* A value that has a verdict is looked up, another one is entered.
LEMMA AskOK ==
  ASSUME IInv, stack # << >>,
         NEW v \in Values(func) \cup {0}, NEW rest \in Seq(Values(func) \cup {0}),
         Range(rest) \subseteq Range(Top.rest),
         v # 0 => v \in Sources(func)[Top.v],
         v # 0 /\ v \notin DOMAIN tc /\ IsAlloca(func, v)
           => \A i \in 1 .. Len(stack) : stack[i].v # v,
         Ask(v, rest), UNCHANGED <<func, next>>
  PROVE  IInv'
<1>1. VerdictsOK'
  BY DEF Ask, IInv, VerdictsOK
<1>2. CASE v = 0 \/ v \in DOMAIN tc
  <2> DEFINE t == IF v = 0 THEN Invariant ELSE tc[v]
  <2>1. stack' = Continue(rest, t) /\ grey' = grey
    BY <1>2 DEF Ask
  <2>2. t \in Triplets
    <3>1. Invariant \in Triplets
      BY DEF Invariant, Triplets
    <3> QED BY <1>2, <3>1, Zenon DEF IInv, VerdictsOK, Range
  <2>3. StackOK(func, stack', grey)
    BY <2>1, <2>2, ContinueOK, Zenon
  <2> QED BY <1>1, <2>1, <2>3, Zenon DEF IInv
<1>3. CASE ~(v = 0 \/ v \in DOMAIN tc)
  <2> DEFINE s == Continue(rest, {})
  <2>1. Enter(v, s) /\ v \in Values(func) /\ v # 0
    BY <1>3 DEF Ask
  <2>2. {} \in Triplets
    BY DEF Triplets
  <2>3. /\ StackOK(func, s, grey) /\ Len(s) = Len(stack)
        /\ \A i \in 1 .. Len(stack) : s[i].v = stack[i].v
    BY <2>2, ContinueOK, Zenon
  <2>4. v \in Sources(func)[s[Len(s)].v]
    <3>1. Len(stack) \in 1 .. Len(stack) /\ Top = stack[Len(stack)]
      BY TopFacts
    <3> QED BY <2>1, <2>3, <3>1
  <2>5. IsAlloca(func, v) => \A i \in 1 .. Len(s) : s[i].v # v
    BY <1>3, <2>3
  <2> HIDE DEF s
  <2>6. (grey \subseteq Values(func) /\ StackOK(func, stack, grey))'
    BY <1>3, <2>1, <2>3, <2>4, <2>5, EnterOK
  <2> QED BY <1>1, <2>6, Zenon DEF IInv
<1> QED BY <1>2, <1>3, Zenon

LEMMA InitIInv == Init => IInv
<1> SUFFICES ASSUME Init PROVE IInv
  OBVIOUS
<1>1. func \in Functions /\ tc = func.marks /\ stack = << >> /\ next = 1 /\ grey = {}
  BY DEF Init
<1>2. VerdictsOK
  BY <1>1, FunctionsAssumption DEF VerdictsOK
<1>3. StackOK(func, stack, grey)
  BY <1>1 DEF StackOK
<1>4. next \in 1 .. Len(func.code) + 1
  <2>1. func.code \in Seq(Instructions(Len(func.code)))
    BY <1>1, FunctionFacts, Zenon
  <2> QED BY <1>1, <2>1
<1> QED BY <1>1, <1>2, <1>3, <1>4 DEF IInv

LEMMA AskNextIInv == IInv /\ AskNext => IInv'
<1> SUFFICES ASSUME IInv, AskNext PROVE IInv'
  OBVIOUS
<1>1. /\ func \in Functions /\ Values(func) = 1 .. Len(func.code)
      /\ func.code \in Seq(Instructions(Len(func.code)))
  BY FunctionFacts, Zenon DEF IInv
<1>2. next \in Values(func) /\ next' \in 1 .. Len(func.code) + 1
  BY <1>1 DEF AskNext, IInv
<1>3. func' = func /\ tc' = tc /\ VerdictsOK'
  BY DEF AskNext, IInv, VerdictsOK
<1>4. CASE next \in DOMAIN tc
  BY <1>2, <1>3, <1>4 DEF AskNext, IInv
<1>5. CASE next \notin DOMAIN tc
  <2>1. Enter(next, << >>)
    BY <1>5 DEF AskNext
  <2>2. StackOK(func, << >>, grey)
    BY DEF IInv, AskNext
  <2>3. (grey \subseteq Values(func) /\ StackOK(func, stack, grey))'
    BY <1>2, <1>3, <1>5, <2>1, <2>2, EnterOK
  <2> QED BY <1>1, <1>2, <1>3, <2>3 DEF IInv
<1> QED BY <1>4, <1>5

\* An alloca that an instruction asks about is not pending: it would be GREY,
\* or the address would have gone into it.
LEMMA NotPending ==
  ASSUME IInv, stack # << >>, Instr.op # "alloca",
         NEW v \in Range(Asked(Instr)), v # 0, v \notin DOMAIN tc, IsAlloca(func, v),
         Instr.op \in {"load", "store"} => ~InCycle(v)
  PROVE  \A i \in 1 .. Len(stack) : stack[i].v # v
<1> SUFFICES ASSUME NEW i \in 1 .. Len(stack), stack[i].v = v PROVE FALSE
  OBVIOUS
<1> DEFINE n == Len(stack)
<1>1. /\ n \in Nat \ {0} /\ Top = stack[n] /\ Top.v \in Values(func)
      /\ FrameOK(func, Top, grey) /\ func \in Functions
  BY TopFacts DEF IInv
<1>2. v \in Range(Instr.args) /\ v \in Values(func)
  <2>1. /\ Asked(Instr) \in Seq(Values(func) \cup {0})
        /\ Range(Asked(Instr)) \subseteq Range(Instr.args)
    BY <1>1, AskedIsOperand DEF Instr
  <2>2. \A k \in DOMAIN Asked(Instr) : Asked(Instr)[k] \in Values(func) \cup {0}
    BY <2>1
  <2> QED BY <2>1, <2>2, Zenon DEF Range
<1>3. i < n
  BY <1>1 DEF Instr, IsAlloca
<1>4. v \in grey
  BY DEF IInv, StackOK, FrameOK
<1>5. CASE Instr.op \in {"load", "store"}
  BY <1>4, <1>5 DEF InCycle
<1>6. CASE Instr.op \in {"id", "phi"}
  <2>1. Instr.args = << >>
    BY <1>1, <1>6, FunctionFacts DEF Instr
  <2> QED BY <1>2, <2>1 DEF Range
<1>7. CASE Instr.op = "op"
  <2>1. AddressUnused(func, v)
    BY <1>1, <1>2, AddressAssumption DEF IsAlloca
  <2>2. PICK from : /\ Closed(func, from) /\ Sources(func)[v] \subseteq from
                    /\ \A x \in from : func.code[x].op = "op" => x \notin Users(func, v)
    BY <2>1, Zenon DEF AddressUnused, Closed
  <2>3. Top.v \in from
    <3>1. n \in 1 .. n
      BY <1>1
    <3> QED BY <1>1, <1>3, <2>2, <3>1, Zenon DEF IInv, StackOK
  <2>4. Top.v \in Users(func, v)
    BY <1>1, <1>2 DEF Users, Instr
  <2> QED BY <1>7, <2>2, <2>3, <2>4 DEF Instr
<1>8. Instr \in Instructions(Len(func.code))
  BY <1>1, FunctionFacts DEF Instr
<1> QED BY <1>5, <1>6, <1>7, <1>8 DEF Instructions

LEMMA AskOperandIInv == IInv /\ AskOperand => IInv'
<1> SUFFICES ASSUME IInv, AskOperand PROVE IInv'
  OBVIOUS
<1> DEFINE v == Head(Top.rest)
           rest == Tail(Top.rest)
<1>1. /\ stack # << >> /\ Instr.op # "alloca" /\ Top.rest # << >>
      /\ func' = func /\ next' = next
  BY DEF AskOperand
<1>2. /\ Top \in Frames(func) /\ FrameOK(func, Top, grey) /\ Top.v \in Values(func)
      /\ func \in Functions
  BY <1>1, TopFacts DEF IInv
<1>3. /\ v \in Values(func) \cup {0} /\ rest \in Seq(Values(func) \cup {0})
      /\ v \in Range(Top.rest) /\ Range(rest) \subseteq Range(Top.rest)
  <2>1. Top.rest \in Seq(Values(func) \cup {0})
    BY <1>2 DEF Frames
  <2>2. /\ v \in Values(func) \cup {0} /\ rest \in Seq(Values(func) \cup {0})
        /\ v = Top.rest[1] /\ 1 \in DOMAIN Top.rest
        /\ \A k \in DOMAIN rest : k + 1 \in DOMAIN Top.rest /\ rest[k] = Top.rest[k + 1]
    BY <1>1, <2>1
  <2> HIDE DEF v, rest
  <2>3. v \in Range(Top.rest)
    BY <2>2, Zenon DEF Range
  <2>4. Range(rest) \subseteq Range(Top.rest)
    <3> SUFFICES ASSUME NEW k \in DOMAIN rest PROVE rest[k] \in Range(Top.rest)
      BY Zenon DEF Range
    <3> QED BY <2>2, Zenon DEF Range
  <2> QED BY <2>2, <2>3, <2>4, Zenon
<1> HIDE DEF v, rest
<1>4. v \in Range(Asked(Instr))
  BY <1>1, <1>2, <1>3 DEF FrameOK, Left, IsAlloca, Instr
<1>5. v # 0 => v \in Sources(func)[Top.v]
  BY <1>1, <1>2, <1>4, AskedIsSource DEF FrameOK, IsAlloca, Instr
<1>6. CASE Instr.op \in {"load", "store"} /\ InCycle(v)
  <2>1. Set(v, NonInvariant) /\ stack' = Return(NonInvariant) /\ grey' = grey
    BY <1>6 DEF AskOperand, v, rest
  <2>2. v \in Values(func) /\ NonInvariant \in Triplets
    BY <1>6 DEF InCycle, IInv, NonInvariant, Triplets
  <2>3. VerdictsOK'
    BY <1>1, <2>1, <2>2, SetOK, Zenon
  <2>4. StackOK(func, stack', grey)
    BY <1>1, <2>1, <2>2, ReturnOK, Zenon
  <2> QED BY <1>1, <2>1, <2>3, <2>4, Zenon DEF IInv
<1>7. CASE ~(Instr.op \in {"load", "store"} /\ InCycle(v))
  <2>1. Ask(v, rest)
    BY <1>7 DEF AskOperand, v, rest
  <2>2. v # 0 /\ v \notin DOMAIN tc /\ IsAlloca(func, v)
          => \A i \in 1 .. Len(stack) : stack[i].v # v
    BY <1>1, <1>4, <1>7, NotPending, Zenon
  <2> QED BY <1>1, <1>3, <1>5, <2>1, <2>2, AskOK
<1> QED BY <1>6, <1>7

\* The users of an alloca that are left when one of them is taken.
LEMMA OneUserLess ==
  ASSUME IInv, stack # << >>, NEW n \in DOMAIN Top.rest
  PROVE  /\ Top.rest[n] \in Values(func) \cup {0} /\ Top.rest[n] \in Range(Top.rest)
         /\ RemoveAt(Top.rest, n) \in Seq(Values(func) \cup {0})
         /\ Range(RemoveAt(Top.rest, n)) \subseteq Range(Top.rest)
         /\ Range(Top.rest) \subseteq Range(RemoveAt(Top.rest, n)) \cup {Top.rest[n]}
<1> DEFINE S == Range(Top.rest)
           s == Top.rest
<1>1. s \in Seq(Values(func) \cup {0})
  BY TopFacts DEF Frames
<1> HIDE DEF s
<1>2. s \in Seq(Range(s)) /\ Range(s) \subseteq Values(func) \cup {0}
  <2>1. \A i \in 1 .. Len(s) : s[i] \in Range(s) /\ s[i] \in Values(func) \cup {0}
    BY <1>1 DEF Range
  <2>2. DOMAIN s = 1 .. Len(s)
    BY <1>1
  <2>3. Range(s) \subseteq Values(func) \cup {0}
    BY <2>1, <2>2, Zenon DEF Range
  <2>4. s \in [1 .. Len(s) -> Range(s)]
    BY <1>1, <2>1
  <2> QED BY <1>1, <2>3, <2>4, SeqDef
<1>3. ASSUME NEW T, s \in Seq(T), NEW m \in DOMAIN s PROVE RemoveAt(s, m) \in Seq(T)
  <2>1. m \in 1 .. Len(s) /\ Len(s) \in Nat /\ \A i \in 1 .. Len(s) : s[i] \in T
    BY <1>3
  <2>2. SubSeq(s, 1, m - 1) \in Seq(T)
    BY <2>1, SubSeqProperties
  <2>3. SubSeq(s, m + 1, Len(s)) \in Seq(T)
    BY <2>1, SubSeqProperties
  <2> QED BY <2>2, <2>3 DEF RemoveAt
<1>4. RemoveAt(s, n) \in Seq(Range(s)) /\ RemoveAt(s, n) \in Seq(Values(func) \cup {0})
  BY <1>1, <1>2, <1>3 DEF s
<1>5. Range(RemoveAt(s, n)) \subseteq Range(s)
  <2>1. \A i \in DOMAIN RemoveAt(s, n) : RemoveAt(s, n)[i] \in Range(s)
    BY <1>4, ElementOfSeq
  <2> QED BY <2>1, Zenon DEF Range
<1>6. s[n] \in Range(s)
  BY DEF Range, s
<1>7. Range(s) \subseteq Range(RemoveAt(s, n)) \cup {s[n]}
  <2> SUFFICES ASSUME NEW k \in DOMAIN s, k # n PROVE s[k] \in Range(RemoveAt(s, n))
    BY Zenon DEF Range
  <2> DEFINE a == SubSeq(s, 1, n - 1)
             b == SubSeq(s, n + 1, Len(s))
             m == Len(s)
  <2>1. n \in 1 .. m /\ k \in 1 .. m /\ m \in Nat /\ \A i \in 1 .. m : s[i] \in Range(s)
    BY <1>1, <1>2 DEF s
  <2>2. /\ a \in Seq(Range(s)) /\ Len(a) = n - 1 /\ \A i \in 1 .. n - 1 : a[i] = s[i]
    BY <2>1, SubSeqProperties
  <2>3. /\ b \in Seq(Range(s)) /\ Len(b) = m - n /\ \A i \in 1 .. m - n : b[i] = s[n + i]
    BY <2>1, SubSeqProperties
  <2>4. RemoveAt(s, n) = a \o b
    BY DEF RemoveAt
  <2> HIDE DEF a, b, m
  <2>5. /\ DOMAIN (a \o b) = 1 .. m - 1
        /\ \A i \in 1 .. m - 1 : (a \o b)[i] = IF i <= n - 1 THEN a[i] ELSE b[i - (n - 1)]
    <3>1. Len(a) + Len(b) = m - 1
      BY <2>1, <2>2, <2>3
    <3>2. /\ a \o b \in Seq(Range(s)) /\ Len(a \o b) = m - 1
          /\ \A i \in 1 .. m - 1 : (a \o b)[i] = IF i <= Len(a) THEN a[i] ELSE b[i - Len(a)]
      <4>1. /\ a \o b \in Seq(Range(s)) /\ Len(a \o b) = Len(a) + Len(b)
            /\ \A i \in 1 .. Len(a) + Len(b) :
                 (a \o b)[i] = IF i <= Len(a) THEN a[i] ELSE b[i - Len(a)]
        BY <2>2, <2>3, ConcatProperties
      <4> QED BY <3>1, <4>1
    <3> QED BY <2>2, <3>2, LenProperties
  <2>6. CASE k < n
    <3>1. k \in 1 .. m - 1 /\ k \in 1 .. n - 1 /\ k <= n - 1
      BY <2>1, <2>6
    <3>2. (a \o b)[k] = s[k]
      BY <2>2, <2>5, <3>1
    <3> QED BY <2>4, <2>5, <3>1, <3>2, Zenon DEF Range
  <2>7. CASE k > n
    <3>1. /\ k - 1 \in 1 .. m - 1 /\ ~(k - 1 <= n - 1) /\ k - 1 - (n - 1) = k - n
          /\ k - n \in 1 .. m - n /\ n + (k - n) = k
      BY <2>1, <2>7
    <3>2. (a \o b)[k - 1] = s[k]
      BY <2>3, <2>5, <3>1
    <3> QED BY <2>4, <2>5, <3>1, <3>2, Zenon DEF Range
  <2> QED BY <2>1, <2>6, <2>7
<1> QED BY <1>2, <1>4, <1>5, <1>6, <1>7, Zenon DEF s

LEMMA AskUserIInv ==
  ASSUME IInv, stack # << >>, Instr.op = "alloca", NEW n \in DOMAIN Top.rest, AskUser(n)
  PROVE  IInv'
<1> DEFINE u == Top.rest[n]
           rest == RemoveAt(Top.rest, n)
           op == func.code[u].op
           w == func.code[u].args[1]
<1>1. /\ func' = func /\ next' = next /\ func \in Functions
      /\ Top.v \in Values(func) /\ FrameOK(func, Top, grey)
  BY TopFacts DEF AskUser, IInv
<1>2. /\ rest \in Seq(Values(func) \cup {0}) /\ Range(rest) \subseteq Range(Top.rest)
      /\ u \in Range(Top.rest)
  BY OneUserLess, Zenon
<1>3. u \in Users(func, Top.v) /\ u \in Values(func) /\ Top.v \notin DOMAIN func.marks
  BY <1>1, <1>2 DEF FrameOK, Left, IsAlloca, Instr, Users
<1>4. Invariant \in Triplets /\ NonInvariant \in Triplets /\ {} \in Triplets
  BY DEF Invariant, NonInvariant, Triplets
<1> HIDE DEF u, rest, w
<1>5. CASE InCycle(u) /\ Set(u, Invariant) /\ stack' = Continue(rest, Invariant) /\ grey' = grey
  <2>1. VerdictsOK'
    BY <1>1, <1>3, <1>4, <1>5, SetOK, Zenon
  <2>2. StackOK(func, stack', grey)
    BY <1>2, <1>4, <1>5, ContinueOK, Zenon
  <2> QED BY <1>1, <1>5, <2>1, <2>2, Zenon DEF IInv
<1>6. CASE op = "store" /\ Ask(w, rest)
  <2>1. w \in Values(func) \cup {0} /\ w \in Range(func.code[u].args)
    <3>1. /\ func.code[u].args \in Seq(Values(func) \cup {0})
          /\ Len(func.code[u].args) = 2
      BY <1>1, <1>3, <1>6, FunctionFacts
    <3>2. 1 \in DOMAIN func.code[u].args
      <4>1. DOMAIN func.code[u].args = 1 .. 2
        BY <3>1
      <4> QED BY <4>1
    <3> QED BY <3>1, <3>2, ElementOfSeq DEF w, Range
  <2>2. w # 0 => w \in Sources(func)[Top.v]
    BY <1>1, <1>3, <1>6, AskedIsSource DEF w, IsAlloca, Instr
  <2>3. w \in Values(func) => ~IsAlloca(func, w)
    <3> SUFFICES ASSUME w \in Values(func), IsAlloca(func, w) PROVE FALSE
      OBVIOUS
    <3>1. AddressUnused(func, w) /\ u \in Users(func, w)
      BY <1>1, <1>3, <2>1, AddressAssumption DEF IsAlloca, Users
    <3> QED BY <1>6, <3>1 DEF AddressUnused, w
  <2> QED BY <1>1, <1>2, <1>6, <2>1, <2>2, <2>3, AskOK
<1>7. CASE stack' = Continue(rest, {}) /\ tc' = tc /\ grey' = grey
  <2>1. VerdictsOK'
    BY <1>1, <1>7 DEF IInv, VerdictsOK
  <2>2. StackOK(func, stack', grey)
    BY <1>2, <1>4, <1>7, ContinueOK, Zenon
  <2> QED BY <1>1, <1>7, <2>1, <2>2, Zenon DEF IInv
<1>8. CASE Set(Top.v, NonInvariant) /\ stack' = Continue(rest, NonInvariant) /\ grey' = grey
  <2>1. VerdictsOK'
    BY <1>1, <1>4, <1>8, SetOK, Zenon
  <2>2. StackOK(func, stack', grey)
    BY <1>2, <1>4, <1>8, ContinueOK, Zenon
  <2> QED BY <1>1, <1>8, <2>1, <2>2, Zenon DEF IInv
<1> QED BY <1>5, <1>6, <1>7, <1>8 DEF AskUser, u, rest, w

LEMMA ReturnVerdictIInv == IInv /\ ReturnVerdict => IInv'
<1> SUFFICES ASSUME IInv, ReturnVerdict PROVE IInv'
  OBVIOUS
<1>1. /\ stack # << >> /\ Set(Top.v, Top.acc) /\ stack' = Return(Top.acc)
      /\ func' = func /\ grey' = grey /\ next' = next
  BY DEF ReturnVerdict
<1>2. Top.v \in Values(func) /\ Top.acc \in Triplets
  BY <1>1, TopFacts DEF Frames
<1>3. VerdictsOK'
  BY <1>1, <1>2, SetOK, Zenon
<1>4. StackOK(func, stack', grey)
  BY <1>1, <1>2, ReturnOK, Zenon
<1> QED BY <1>1, <1>3, <1>4, Zenon DEF IInv

LEMMA NextIInv == IInv /\ [Next]_vars => IInv'
<1> SUFFICES ASSUME IInv, [Next]_vars PROVE IInv'
  OBVIOUS
<1>1. CASE AskNext
  BY <1>1, AskNextIInv
<1>2. CASE AskOperand
  BY <1>2, AskOperandIInv
<1>3. CASE stack # << >> /\ Instr.op = "alloca" /\ \E n \in DOMAIN Top.rest : AskUser(n)
  BY <1>3, AskUserIInv, Zenon
<1>4. CASE ReturnVerdict
  BY <1>4, ReturnVerdictIInv
<1>5. CASE UNCHANGED vars
  BY <1>5 DEF vars, IInv, VerdictsOK
<1> QED BY <1>1, <1>2, <1>3, <1>4, <1>5, Zenon DEF Next, Analysed

-----------------------------------------------------------------------------
\* The invariant the theorems rest on.
THEOREM SpecIInv == Spec => []IInv
<1> QED BY InitIInv, NextIInv, PTL DEF Spec

LEMMA IInvTypeOK == IInv => TypeOK
<1> SUFFICES ASSUME IInv PROVE TypeOK
  OBVIOUS
<1>1. stack \in Seq(Frames(func))
  BY DEF IInv, StackOK
<1>2. ASSUME NEW i \in DOMAIN stack
      PROVE  /\ stack[i].v \in Values(func)
             /\ Range(stack[i].rest) \subseteq Values(func) \cup {0}
             /\ stack[i].acc \in Triplets
  <2>1. stack[i] \in Frames(func)
    BY <1>1, ElementOfSeq
  <2>2. stack[i].rest \in Seq(Values(func) \cup {0})
    BY <2>1 DEF Frames
  <2>3. Range(stack[i].rest) \subseteq Values(func) \cup {0}
    BY <2>2, ElementOfSeq DEF Range
  <2> QED BY <2>1, <2>3 DEF Frames
<1> QED BY <1>2, Zenon DEF IInv, VerdictsOK, TypeOK

\* The verdicts and the stack keep their shape.
THEOREM TripletTypeCorrect == Spec => []TypeOK
<1> QED BY SpecIInv, IInvTypeOK, PTL

LEMMA IInvOnce == IInv => AllocasEnteredOnce
<1> SUFFICES ASSUME IInv, NEW i \in DOMAIN stack, NEW j \in DOMAIN stack, i # j,
                    IsAlloca(func, stack[i].v)
             PROVE  stack[i].v # stack[j].v
  BY DEF AllocasEnteredOnce, IsAlloca
<1>1. DOMAIN stack = 1 .. Len(stack) /\ Len(stack) \in Nat
  BY DEF IInv, StackOK
<1>2. CASE i < j
  BY <1>1, <1>2, Zenon DEF IInv, StackOK
<1>3. CASE j < i
  <2> SUFFICES ASSUME stack[i].v = stack[j].v PROVE FALSE
    OBVIOUS
  <2> QED BY <1>1, <1>3, Zenon DEF IInv, StackOK
<1> QED BY <1>1, <1>2, <1>3

\* However long the function, and in whatever order an alloca's users come:
\* no alloca is entered while it is pending, so that every cycle through
\* memory is cut.  AddressAssumption is what this takes.
THEOREM TripletRecursionCut == Spec => []AllocasEnteredOnce
<1> QED BY SpecIInv, IInvOnce, PTL
-----------------------------------------------------------------------------
(***************************************************************************)
(* The verdicts.  On the stack every call is about something that the ones *)
(* below it are made of, so that what closes a cycle is made of itself.    *)
(* For every other call, what it has seen, what it has left to look at and *)
(* what the call above it is about add up to what its value varies in.     *)
(* Verdicts that are set in advance are read by values in a cycle only.    *)
(***************************************************************************)
From(g, S) == Reach(Sources(g), S)

Chain(g, s) ==
  \A i, j \in 1 .. Len(s) : i < j => s[j].v \in From(g, Sources(g)[s[i].v])

\* What a user or operand x gives to a call about v.
Gives(g, v, x) ==
  IF IsAlloca(g, v)
  THEN IF g.code[x].op = "op" THEN NonInvariant
       ELSE IF g.code[x].op = "store" /\ g.code[x].args[1] # 0
       THEN Varies(g, g.code[x].args[1])
       ELSE {}
  ELSE IF x = 0 THEN {} ELSE Varies(g, x)

Remaining(g, f) == UNION {Gives(g, f.v, x) : x \in Range(f.rest)}

\* What the call above the i-th one is going to give.
Above(g, s, i) == IF i < Len(s) THEN Varies(g, s[i + 1].v) ELSE {}

AddsUp(g, s, i) ==
  Straight(g, s[i].v)
    => Varies(g, s[i].v) = s[i].acc \cup Remaining(g, s[i]) \cup Above(g, s, i)

Sums(g, s) == \A i \in 1 .. Len(s) : AddsUp(g, s, i)

Stacked(s) == {s[i].v : i \in 1 .. Len(s)}

VerdictsExact ==
  \A v \in DOMAIN tc : Straight(func, v) /\ v \notin Stacked(stack) => tc[v] = Varies(func, v)

GreyKinds == \A v \in grey : func.code[v].op \in {"alloca", "load", "store"}

\* What was entered and returned without a verdict was in a cycle.
CutInCycle == \A v \in grey \ DOMAIN tc : v \in Stacked(stack) \/ ~Straight(func, v)

AskedSoFar ==
  \A v \in Values(func) :
    v < next /\ Straight(func, v) => v \in DOMAIN tc \/ v \in Stacked(stack)

XInv ==
  /\ IInv
  /\ Chain(func, stack) /\ Sums(func, stack)
  /\ VerdictsExact /\ GreyKinds /\ CutInCycle /\ AskedSoFar

-----------------------------------------------------------------------------
LEMMA SourcesGraph ==
  ASSUME NEW g \in Functions
  PROVE  IsGraph(Sources(g)) /\ DOMAIN Sources(g) = Values(g)
<1>1. /\ Values(g) = 1 .. Len(g.code) /\ Len(g.code) \in Nat
      /\ \A v \in Values(g) : g.code[v].op = "store" =>
           g.code[v].args \in Seq(Values(g) \cup {0}) /\ Len(g.code[v].args) = 2
  <2>1. g.code \in Seq(Instructions(Len(g.code))) /\ Values(g) = 1 .. Len(g.code)
    BY FunctionFacts, Zenon
  <2> QED BY <2>1, FunctionFacts, Zenon, LenProperties
<1>2. IsFiniteSet(Values(g))
  BY <1>1, FS_Interval
<1>3. \A u \in Values(g) : g.code[u].op = "store" => g.code[u].args[1] \in Values(g) \cup {0}
  <2> SUFFICES ASSUME NEW u \in Values(g), g.code[u].op = "store"
               PROVE  g.code[u].args[1] \in Values(g) \cup {0}
    OBVIOUS
  <2> DEFINE a == g.code[u].args
  <2>1. a \in Seq(Values(g) \cup {0}) /\ Len(a) = 2
    BY <1>1
  <2> HIDE DEF a
  <2>2. 1 \in DOMAIN a
    BY <2>1
  <2>3. a[1] \in Values(g) \cup {0}
    BY <2>1, <2>2, ElementOfSeq
  <2> QED BY <2>3 DEF a
<1>4. ASSUME NEW v \in Values(g) PROVE Sources(g)[v] \subseteq Values(g)
  <2>1. Range(Asked(g.code[v])) \subseteq Values(g) \cup {0}
    <3>1. Asked(g.code[v]) \in Seq(Values(g) \cup {0})
      BY AskedIsOperand
    <3> QED BY <3>1, ElementOfSeq DEF Range
  <2>2. {g.code[u].args[1] : u \in {w \in Users(g, v) : g.code[w].op = "store"}}
          \subseteq Values(g) \cup {0}
    BY <1>3 DEF Users
  <2> QED BY <2>1, <2>2 DEF Sources
<1>5. DOMAIN Sources(g) = Values(g)
  BY DEF Sources
<1>6. Sources(g) \in [Values(g) -> SUBSET Values(g)]
  BY <1>4 DEF Sources
<1> QED BY <1>2, <1>5, <1>6 DEF IsGraph

\* What varies in a value is what it adds, and what varies in its sources.
LEMMA VariesStep ==
  ASSUME NEW g \in Functions, NEW v \in Values(g)
  PROVE  Varies(g, v) = Adds(g, v) \cup UNION {Varies(g, w) : w \in Sources(g)[v]}
<1>1. /\ IsGraph(Sources(g)) /\ v \in DOMAIN Sources(g)
      /\ Sources(g)[v] \in SUBSET DOMAIN Sources(g)
  BY SourcesGraph DEF IsGraph
<1>2. From(g, {v}) = {v} \cup From(g, Sources(g)[v])
  BY <1>1, ReachUnfold DEF From
<1>3. From(g, Sources(g)[v]) = UNION {From(g, {w}) : w \in Sources(g)[v]}
  BY <1>1, ReachUnion DEF From
<1>4. \A w, d : d \in Varies(g, w) <=> \E u \in From(g, {w}) : d \in Adds(g, u)
  BY DEF Varies, From
<1>5. \A u : u \in From(g, {v}) <=>
               u = v \/ \E w \in Sources(g)[v] : u \in From(g, {w})
  BY <1>2, <1>3
<1>6. ASSUME NEW d
      PROVE  d \in Varies(g, v) <=>
               d \in Adds(g, v) \/ \E w \in Sources(g)[v] : d \in Varies(g, w)
  BY <1>4, <1>5, Zenon
<1> QED BY <1>6

\* What a straight value is made of is straight, and not made of the value.
LEMMA StraightBehind ==
  ASSUME NEW g \in Functions, NEW v \in Values(g), Straight(g, v),
         NEW w \in From(g, Sources(g)[v])
  PROVE  Straight(g, w) /\ w # v /\ v \notin From(g, Sources(g)[w])
<1> DEFINE from == Sources(g)
<1>1. /\ IsGraph(from) /\ DOMAIN from = Values(g)
      /\ from[v] \in SUBSET Values(g) /\ {v} \in SUBSET Values(g)
  BY SourcesGraph DEF IsGraph
<1> HIDE DEF from
<1>2. /\ From(g, {v}) = {v} \cup From(g, from[v])
      /\ From(g, {v}) \in SUBSET Values(g)
      /\ From(g, from[v]) \in SUBSET Values(g)
  BY <1>1, ReachUnfold, ReachIsLeast DEF From, from
<1>3. w \in Values(g) /\ from[w] \in SUBSET Values(g)
  BY <1>1, <1>2 DEF IsGraph, from
<1>4. From(g, {w}) \subseteq From(g, from[v])
  BY <1>1, ReachTransitive DEF From, from
<1>5. from[w] \subseteq From(g, {w}) /\ From(g, from[w]) \subseteq From(g, {w})
  <2>1. From(g, {w}) = {w} \cup From(g, from[w])
    BY <1>1, <1>3, ReachUnfold DEF From, from
  <2>2. from[w] \subseteq From(g, from[w])
    BY <1>1, <1>3, ReachIsLeast DEF From, from
  <2> QED BY <2>1, <2>2
<1>6. \A u \in From(g, {v}) : u \notin From(g, from[u])
  BY DEF Straight, From, from
<1>7. v \notin From(g, from[v])
  BY <1>2, <1>6
<1>8. Straight(g, w)
  BY <1>2, <1>4, <1>6 DEF Straight, From, from
<1> QED BY <1>4, <1>5, <1>7, <1>8 DEF from

\* A call that is entered has everything its value varies in to look at.
LEMMA CallAddsUp ==
  ASSUME IInv, NEW v \in Values(func), v \notin DOMAIN func.marks
  PROVE  Varies(func, v) = Call(v).acc \cup Remaining(func, Call(v))
<1> DEFINE i == func.code[v]
           rest == Call(v).rest
<1>1. func \in Functions
  BY DEF IInv
<1>2. \A d : d \in Varies(func, v) <=>
        d \in Adds(func, v) \/ \E w \in Sources(func)[v] : d \in Varies(func, w)
  <2>1. Varies(func, v) = Adds(func, v) \cup UNION {Varies(func, w) : w \in Sources(func)[v]}
    BY <1>1, VariesStep
  <2> QED BY <2>1
<1>3. /\ Call(v).v = v /\ Call(v).acc = OwnTriplet(i)
      /\ rest = IF i.op = "alloca" THEN SetToSeq(Users(func, v)) ELSE Asked(i)
  BY DEF Call
<1> HIDE DEF rest
<1>4. \A d : d \in Remaining(func, Call(v)) <=> \E x \in Range(rest) : d \in Gives(func, v, x)
  BY <1>3 DEF Remaining, rest
<1>5. CASE i.op = "alloca"
  <2>1. Range(rest) = Users(func, v)
    <3>1. /\ Values(func) = 1 .. Len(func.code)
          /\ func.code \in Seq(Instructions(Len(func.code)))
      BY <1>1, FunctionFacts, Zenon
    <3>2. IsFiniteSet(Values(func))
      <4>1. Len(func.code) \in Nat
        BY <3>1, LenProperties, Zenon
      <4> QED BY <3>1, <4>1, FS_Interval
    <3>3. IsFiniteSet(Users(func, v))
      BY <3>2, FS_Subset DEF Users
    <3> QED BY <1>3, <1>5, <3>3, SetToSeqRange
  <2>2. /\ OwnTriplet(i) = {}
        /\ \A d : d \in Adds(func, v) <=> Escapes(func, v) /\ d \in NonInvariant
    BY <1>5 DEF OwnTriplet, Adds, Invariant
  <2>3. Escapes(func, v) <=> \E u \in Users(func, v) : func.code[u].op = "op"
    BY <1>5 DEF Escapes
  <2>4. \A w : w \in Sources(func)[v] <=>
          \E u \in Users(func, v) :
            func.code[u].op = "store" /\ w = func.code[u].args[1] /\ w # 0
    BY <1>5 DEF Sources
  <2>5. \A x, d : d \in Gives(func, v, x) <=>
          \/ func.code[x].op = "op" /\ d \in NonInvariant
          \/ /\ func.code[x].op = "store" /\ func.code[x].args[1] # 0
             /\ d \in Varies(func, func.code[x].args[1])
    BY <1>5 DEF Gives, IsAlloca
  <2>6. ASSUME NEW d
        PROVE  d \in Varies(func, v) <=> \E x \in Range(rest) : d \in Gives(func, v, x)
    <3>1. d \in Varies(func, v) <=>
            \/ d \in NonInvariant /\ \E u \in Users(func, v) : func.code[u].op = "op"
            \/ \E w \in Sources(func)[v] : d \in Varies(func, w)
      BY <1>2, <2>2, <2>3, Zenon
    <3>2. (\E w \in Sources(func)[v] : d \in Varies(func, w)) <=>
            \E u \in Users(func, v) :
              /\ func.code[u].op = "store" /\ func.code[u].args[1] # 0
              /\ d \in Varies(func, func.code[u].args[1])
      BY <2>4, Zenon
    <3> QED BY <2>1, <2>5, <3>1, <3>2
  <2> QED BY <1>3, <1>4, <2>2, <2>6
<1>6. CASE i.op # "alloca"
  <2>1. Adds(func, v) = OwnTriplet(i)
    BY <1>6 DEF Adds, Escapes
  <2>2. \A w : w \in Sources(func)[v] <=> w \in Range(rest) /\ w # 0
    BY <1>3, <1>6 DEF Sources
  <2>3. \A x, d : d \in Gives(func, v, x) <=> x # 0 /\ d \in Varies(func, x)
    BY <1>6 DEF Gives, IsAlloca
  <2>4. ASSUME NEW d
        PROVE  d \in Varies(func, v) <=>
                 d \in OwnTriplet(i) \/ \E x \in Range(rest) : d \in Gives(func, v, x)
    BY <1>2, <2>1, <2>2, <2>3, Zenon
  <2> QED BY <1>3, <1>4, <2>4
<1> QED BY <1>5, <1>6

LEMMA FromFacts ==
  ASSUME NEW g \in Functions, NEW S \in SUBSET Values(g)
  PROVE  /\ S \subseteq From(g, S) /\ From(g, S) \subseteq Values(g)
         /\ \A w \in From(g, S) : Sources(g)[w] \subseteq From(g, S)
BY SourcesGraph, ReachIsLeast DEF From, ClosedUnder

LEMMA SourcesOf ==
  ASSUME NEW g \in Functions, NEW v \in Values(g)
  PROVE  Sources(g)[v] \in SUBSET Values(g)
BY SourcesGraph DEF IsGraph

-----------------------------------------------------------------------------
(***************************************************************************)
(* The parts of the steps, and what the calls see.                         *)
(***************************************************************************)
LEMMA SameChain ==
  ASSUME NEW g, NEW s, NEW t, Len(s) \in Nat, Len(t) \in Nat, Chain(g, s), Len(t) =< Len(s),
         \A i \in 1 .. Len(t) : t[i].v = s[i].v
  PROVE  Chain(g, t)
<1>1. \A i \in 1 .. Len(t) : i \in 1 .. Len(s)
  OBVIOUS
<1> QED BY <1>1, Zenon DEF Chain

\* Looked at, x gives t: the innermost call has x less to look at.
LEMMA ContinueAddsUp ==
  ASSUME XInv, stack # << >>, NEW t \in Triplets,
         NEW rest \in Seq(Values(func) \cup {0}), Range(rest) \subseteq Range(Top.rest),
         NEW x \in Range(Top.rest), Range(Top.rest) \subseteq Range(rest) \cup {x},
         Straight(func, Top.v) => t = Gives(func, Top.v, x)
  PROVE  /\ Chain(func, Continue(rest, t)) /\ Sums(func, Continue(rest, t))
         /\ Stacked(Continue(rest, t)) = Stacked(stack)
<1> DEFINE n == Len(stack)
           s == Continue(rest, t)
<1>1. /\ stack \in Seq(Frames(func)) /\ n \in Nat \ {0} /\ Top = stack[n]
      /\ Chain(func, stack) /\ Sums(func, stack)
  BY TopFacts DEF XInv
<1>2. /\ Len(s) = n /\ \A i \in 1 .. n : s[i].v = stack[i].v
      /\ \A i \in 1 .. n - 1 : s[i] = stack[i]
      /\ s[n].rest = rest /\ s[n].acc = Top.acc \cup t
  BY ContinueOK DEF XInv
<1> HIDE DEF s
<1>3. Chain(func, s)
  BY <1>1, <1>2, SameChain
<1>4. Stacked(s) = Stacked(stack)
  BY <1>2 DEF Stacked
<1>5. ASSUME NEW i \in 1 .. n - 1 PROVE AddsUp(func, s, i)
  <2>1. i \in 1 .. n /\ i + 1 \in 1 .. n /\ i < n
    BY <1>1
  <2>2. s[i] = stack[i] /\ s[i + 1].v = stack[i + 1].v /\ AddsUp(func, stack, i)
    BY <1>1, <1>2, <2>1, Zenon DEF Sums
  <2>3. Above(func, s, i) = Above(func, stack, i)
    BY <1>2, <2>1, <2>2 DEF Above
  <2> QED BY <2>2, <2>3, Zenon DEF AddsUp
<1>6. AddsUp(func, s, n)
  <2> SUFFICES ASSUME Straight(func, Top.v)
               PROVE  Varies(func, Top.v) = s[n].acc \cup Remaining(func, s[n])
    <3>1. s[n].v = Top.v /\ Above(func, s, n) = {}
      BY <1>1, <1>2 DEF Above
    <3> QED BY <3>1 DEF AddsUp
  <2>1. Varies(func, Top.v) = Top.acc \cup Remaining(func, Top)
    <3>1. AddsUp(func, stack, n) /\ Above(func, stack, n) = {}
      BY <1>1 DEF Sums, Above
    <3> QED BY <1>1, <3>1 DEF AddsUp
  <2>2. Remaining(func, Top) = Remaining(func, s[n]) \cup Gives(func, Top.v, x)
    <3>1. s[n].v = Top.v /\ s[n].rest = rest
      BY <1>1, <1>2
    <3>2. Range(Top.rest) = Range(rest) \cup {x}
      OBVIOUS
    <3> QED BY <3>1, <3>2 DEF Remaining
  <2> QED BY <1>2, <2>1, <2>2
<1> QED BY <1>1, <1>2, <1>3, <1>4, <1>5, <1>6 DEF Sums, s

\* What x gives is to be worked out by a call about v.
LEMMA PushAddsUp ==
  ASSUME XInv, stack # << >>,
         NEW rest \in Seq(Values(func) \cup {0}), Range(rest) \subseteq Range(Top.rest),
         NEW x \in Range(Top.rest), Range(Top.rest) \subseteq Range(rest) \cup {x},
         NEW v \in Values(func), v \notin DOMAIN tc, v \in Sources(func)[Top.v],
         Gives(func, Top.v, x) = Varies(func, v)
  PROVE  LET s == Append(Continue(rest, {}), Call(v))
         IN /\ Chain(func, s) /\ Sums(func, s)
            /\ Stacked(s) = Stacked(stack) \cup {v}
<1> DEFINE n == Len(stack)
           c == Continue(rest, {})
           s == Append(c, Call(v))
<1>1. /\ stack \in Seq(Frames(func)) /\ n \in Nat \ {0} /\ Top = stack[n]
      /\ Chain(func, stack) /\ Sums(func, stack) /\ func \in Functions
      /\ Top.v \in Values(func) /\ v \notin DOMAIN func.marks /\ IInv
  BY TopFacts DEF XInv, IInv, VerdictsOK
<1>2. /\ c \in Seq(Frames(func)) /\ Len(c) = n /\ \A i \in 1 .. n : c[i].v = stack[i].v
      /\ \A i \in 1 .. n - 1 : c[i] = stack[i]
      /\ c[n].rest = rest /\ c[n].acc = Top.acc \cup {}
  <2>1. {} \in Triplets
    BY DEF Triplets
  <2>2. /\ StackOK(func, c, grey) /\ Len(c) = n
        /\ \A i \in 1 .. n : c[i].v = stack[i].v
        /\ \A i \in 1 .. n - 1 : c[i] = stack[i]
        /\ c[n].rest = rest /\ c[n].acc = Top.acc \cup {}
    <3>1. /\ IInv /\ stack # << >> /\ rest \in Seq(Values(func) \cup {0})
          /\ Range(rest) \subseteq Range(Top.rest)
      BY <1>1
    <3> HIDE DEF n
    <3> QED BY <2>1, <3>1, ContinueOK DEF n
  <2> HIDE DEF c
  <2>3. c \in Seq(Frames(func))
    BY <2>2 DEF StackOK
  <2> QED BY <2>2, <2>3
<1>3. Call(v) \in Frames(func) /\ Call(v).v = v
  BY <1>1, CallFacts
<1> HIDE DEF c
<1>4. /\ Len(s) = n + 1 /\ s[n + 1] = Call(v) /\ \A i \in 1 .. n : s[i] = c[i]
  BY <1>1, <1>2, <1>3
<1> HIDE DEF s
<1>5. Chain(func, s)
  <2> SUFFICES ASSUME NEW i \in 1 .. Len(s), NEW j \in 1 .. Len(s), i < j
               PROVE  s[j].v \in From(func, Sources(func)[s[i].v])
    BY DEF Chain
  <2>1. i \in 1 .. n /\ s[i].v = stack[i].v
    BY <1>1, <1>2, <1>4
  <2>2. CASE j \in 1 .. n
    <3>1. s[j].v = stack[j].v
      BY <1>2, <1>4, <2>2
    <3> QED BY <1>1, <2>1, <2>2, <3>1, Zenon DEF Chain
  <2>3. CASE j = n + 1
    <3>1. stack[i] \in Frames(func)
      BY <1>1, <2>1
    <3>2. Sources(func)[stack[i].v] \in SUBSET Values(func)
      BY <1>1, <3>1, SourcesOf DEF Frames
    <3>3. CASE i = n
      BY <1>1, <1>3, <1>4, <2>1, <2>3, <3>2, <3>3, FromFacts
    <3>4. CASE i < n
      <4>1. n \in 1 .. n
        BY <1>1
      <4>2. Top.v \in From(func, Sources(func)[stack[i].v])
        BY <1>1, <2>1, <3>4, <4>1, Zenon DEF Chain
      <4>3. Sources(func)[Top.v] \subseteq From(func, Sources(func)[stack[i].v])
        BY <1>1, <3>2, <4>2, FromFacts, Zenon
      <4>4. s[j].v = v
        BY <1>3, <1>4, <2>3
      <4> QED BY <2>1, <4>3, <4>4
    <3>5. i = n \/ i < n
      BY <1>1, <2>1
    <3> QED BY <3>3, <3>4, <3>5, Zenon
  <2>4. j \in 1 .. n \/ j = n + 1
    <3>1. Len(s) = n + 1 /\ n \in Nat
      BY <1>1, <1>4, Zenon
    <3>2. j \in 1 .. n + 1
      BY <3>1, Zenon
    <3> HIDE DEF n
    <3> QED BY <3>1, <3>2
  <2> QED BY <2>2, <2>3, <2>4, Zenon
<1>6. Stacked(s) = Stacked(stack) \cup {v}
  <2>1. \A i : i \in 1 .. n + 1 <=> i \in 1 .. n \/ i = n + 1
    BY <1>1
  <2>2. \A i \in 1 .. n : s[i].v = stack[i].v
    BY <1>2, <1>4
  <2> QED BY <1>3, <1>4, <2>1, <2>2 DEF Stacked
<1>7. ASSUME NEW i \in 1 .. n - 1 PROVE AddsUp(func, s, i)
  <2>1. i \in 1 .. n /\ i + 1 \in 1 .. n /\ i < n /\ i < n + 1
    BY <1>1
  <2>2. s[i] = stack[i] /\ s[i + 1].v = stack[i + 1].v /\ AddsUp(func, stack, i)
    BY <1>1, <1>2, <1>4, <2>1, Zenon DEF Sums
  <2>3. Above(func, s, i) = Above(func, stack, i)
    BY <1>4, <2>1, <2>2 DEF Above
  <2> QED BY <2>2, <2>3, Zenon DEF AddsUp
<1>8. AddsUp(func, s, n)
  <2>1. s[n].v = Top.v /\ s[n].rest = rest /\ s[n].acc = Top.acc
    BY <1>1, <1>2, <1>4
  <2>2. Above(func, s, n) = Varies(func, v)
    BY <1>1, <1>3, <1>4 DEF Above
  <2> SUFFICES ASSUME Straight(func, Top.v)
               PROVE  Varies(func, Top.v) = Top.acc \cup Remaining(func, s[n]) \cup Varies(func, v)
    BY <2>1, <2>2 DEF AddsUp
  <2>3. Varies(func, Top.v) = Top.acc \cup Remaining(func, Top)
    <3>1. AddsUp(func, stack, n) /\ Above(func, stack, n) = {}
      BY <1>1 DEF Sums, Above
    <3> QED BY <1>1, <3>1 DEF AddsUp
  <2>4. Range(Top.rest) = Range(rest) \cup {x}
    OBVIOUS
  <2>5. Remaining(func, Top) = Remaining(func, s[n]) \cup Varies(func, v)
    BY <2>1, <2>4 DEF Remaining
  <2> QED BY <2>3, <2>5
<1>9. AddsUp(func, s, n + 1)
  <2>1. Above(func, s, n + 1) = {}
    BY <1>1, <1>4 DEF Above
  <2>2. Varies(func, v) = Call(v).acc \cup Remaining(func, Call(v))
    BY <1>1, CallAddsUp
  <2> QED BY <1>3, <1>4, <2>1, <2>2 DEF AddsUp
<1>10. \A i \in 1 .. n + 1 : i \in 1 .. n - 1 \/ i = n \/ i = n + 1
  BY <1>1
<1> QED BY <1>4, <1>5, <1>6, <1>7, <1>8, <1>9, <1>10 DEF Sums, s, c

\* The innermost call returns t: all there is to the value it was about, if
\* the call below it counts on it.
LEMMA ReturnAddsUp ==
  ASSUME XInv, stack # << >>, NEW t \in Triplets,
         \A i \in 1 .. Len(stack) - 1 : Straight(func, stack[i].v) => t = Varies(func, Top.v)
  PROVE  /\ Chain(func, Return(t)) /\ Sums(func, Return(t))
         /\ Stacked(Return(t)) \subseteq Stacked(stack)
         /\ Stacked(stack) \subseteq Stacked(Return(t)) \cup {Top.v}
<1> DEFINE n == Len(stack)
           r == Return(t)
<1>1. /\ stack \in Seq(Frames(func)) /\ n \in Nat \ {0} /\ Top = stack[n]
      /\ Chain(func, stack) /\ Sums(func, stack)
  BY TopFacts DEF XInv
<1>2. /\ Len(r) = n - 1 /\ \A i \in 1 .. n - 2 : r[i] = stack[i]
      /\ n - 1 # 0 => /\ r[n - 1].v = stack[n - 1].v /\ r[n - 1].rest = stack[n - 1].rest
                      /\ r[n - 1].acc = stack[n - 1].acc \cup t
  BY ReturnOK DEF XInv
<1> HIDE DEF r
<1>3. \A i \in 1 .. n - 1 : r[i].v = stack[i].v
  <2>1. \A i \in 1 .. n - 1 : i \in 1 .. n - 2 \/ (i = n - 1 /\ n - 1 # 0)
    BY <1>1
  <2> QED BY <1>2, <2>1, Zenon
<1>4. Chain(func, r)
  BY <1>1, <1>2, <1>3, SameChain
<1>5. Stacked(r) \subseteq Stacked(stack) /\ Stacked(stack) \subseteq Stacked(r) \cup {Top.v}
  <2>1. \A i : i \in 1 .. n <=> i \in 1 .. n - 1 \/ i = n
    BY <1>1
  <2>2. Stacked(r) = {stack[i].v : i \in 1 .. n - 1}
    BY <1>2, <1>3 DEF Stacked
  <2>3. Stacked(stack) = {stack[i].v : i \in 1 .. n}
    BY DEF Stacked
  <2> QED BY <1>1, <2>1, <2>2, <2>3
<1>6. ASSUME NEW i \in 1 .. n - 1 PROVE AddsUp(func, r, i)
  <2>1. i \in 1 .. n /\ i < n /\ AddsUp(func, stack, i)
    BY <1>1 DEF Sums
  <2>2. CASE i \in 1 .. n - 2
    <3>1. i + 1 \in 1 .. n - 1 /\ i < n - 1
      BY <1>1, <2>2
    <3>2. r[i] = stack[i] /\ r[i + 1].v = stack[i + 1].v
      BY <1>2, <1>3, <2>2, <3>1
    <3>3. Above(func, r, i) = Above(func, stack, i)
      BY <1>2, <2>1, <3>1, <3>2 DEF Above
    <3> QED BY <2>1, <3>2, <3>3, Zenon DEF AddsUp
  <2>3. CASE i = n - 1
    <3> SUFFICES ASSUME Straight(func, stack[i].v)
                 PROVE  Varies(func, stack[i].v) = r[i].acc \cup Remaining(func, r[i]) \cup {}
      <4>1. Above(func, r, i) = {} /\ r[i].v = stack[i].v
        BY <1>1, <1>2, <1>3, <2>3 DEF Above
      <4> QED BY <4>1, Zenon DEF AddsUp
    <3>1. t = Varies(func, Top.v)
      OBVIOUS
    <3>2. Above(func, stack, i) = t
      BY <1>1, <2>1, <2>3, <3>1 DEF Above
    <3>3. r[i].acc = stack[i].acc \cup t /\ Remaining(func, r[i]) = Remaining(func, stack[i])
      BY <1>1, <1>2, <2>3 DEF Remaining
    <3>4. Varies(func, stack[i].v) = stack[i].acc \cup Remaining(func, stack[i]) \cup t
      BY <2>1, <3>2 DEF AddsUp
    <3> QED BY <3>3, <3>4
  <2> QED BY <1>1, <2>2, <2>3
<1> QED BY <1>2, <1>4, <1>5, <1>6 DEF Sums, r

\* A source of the innermost call's value that is pending is in a cycle, and
\* so is that value.
LEMMA PendingSource ==
  ASSUME XInv, stack # << >>, NEW v \in Stacked(stack), v \in Sources(func)[Top.v]
  PROVE  ~Straight(func, v) /\ ~Straight(func, Top.v)
<1> DEFINE n == Len(stack)
<1>1. /\ stack \in Seq(Frames(func)) /\ n \in Nat \ {0} /\ Top = stack[n]
      /\ Chain(func, stack) /\ func \in Functions /\ Top.v \in Values(func)
  BY TopFacts DEF XInv, IInv
<1>2. PICK i \in 1 .. n : stack[i].v = v
  BY DEF Stacked
<1>3. v \in Values(func) /\ Sources(func)[v] \in SUBSET Values(func)
  BY <1>1, SourcesOf
<1>4. v \in From(func, Sources(func)[Top.v])
  BY <1>1, SourcesOf, FromFacts
<1>5. ~Straight(func, v)
  <2> SUFFICES ASSUME Straight(func, v) PROVE FALSE
    OBVIOUS
  <2>1. CASE i = n
    BY <1>1, <1>2, <1>3, <1>4, <2>1, StraightBehind
  <2>2. CASE i < n
    <3>1. n \in 1 .. n
      BY <1>1
    <3>2. Top.v \in From(func, Sources(func)[v])
      BY <1>1, <1>2, <2>2, <3>1, Zenon DEF Chain
    <3> QED BY <1>1, <1>3, <1>4, <3>2, StraightBehind
  <2> QED BY <1>1, <2>1, <2>2
<1> QED BY <1>1, <1>4, <1>5, StraightBehind

\* Below a straight call there are others, above it only straight ones.
LEMMA TopStraight ==
  ASSUME XInv, stack # << >>, NEW i \in 1 .. Len(stack) - 1, Straight(func, stack[i].v)
  PROVE  Straight(func, Top.v)
<1> DEFINE n == Len(stack)
<1>1. /\ stack \in Seq(Frames(func)) /\ n \in Nat \ {0} /\ Top = stack[n]
      /\ Chain(func, stack) /\ func \in Functions
  BY TopFacts DEF XInv, IInv
<1>2. i \in 1 .. n /\ n \in 1 .. n /\ i < n
  BY <1>1
<1>3. Top.v \in From(func, Sources(func)[stack[i].v])
  BY <1>1, <1>2, Zenon DEF Chain
<1>4. stack[i].v \in Values(func)
  <2>1. stack[i] \in Frames(func)
    BY <1>1, <1>2
  <2> QED BY <2>1 DEF Frames
<1> QED BY <1>1, <1>3, <1>4, StraightBehind

\* What keeps the verdicts exact.
LEMMA VerdictsKept ==
  ASSUME XInv, func' = func,
         DOMAIN tc \subseteq DOMAIN tc',
         \A v \in DOMAIN tc' : Straight(func, v) /\ v \notin Stacked(stack') =>
           \/ v \in DOMAIN tc /\ v \notin Stacked(stack) /\ tc'[v] = tc[v]
           \/ tc'[v] = Varies(func, v),
         \A v \in Stacked(stack) :
           v \in Stacked(stack') \/ v \in DOMAIN tc' \/ ~Straight(func, v),
         \A v \in grey' : v \in grey \/ /\ v \in Stacked(stack')
                                        /\ func.code[v].op \in {"alloca", "load", "store"},
         \A v \in Values(func) : v < next' =>
           v < next \/ v \in DOMAIN tc' \/ v \in Stacked(stack')
  PROVE  (VerdictsExact /\ GreyKinds /\ CutInCycle /\ AskedSoFar)'
<1>1. VerdictsExact'
  BY DEF XInv, VerdictsExact
<1>2. GreyKinds'
  BY Zenon DEF XInv, GreyKinds
<1>3. CutInCycle'
  BY Zenon DEF XInv, CutInCycle
<1>4. AskedSoFar'
  BY Zenon DEF XInv, AskedSoFar, Values
<1> QED BY <1>1, <1>2, <1>3, <1>4

-----------------------------------------------------------------------------
(***************************************************************************)
(* The steps, and the verdicts.                                            *)
(***************************************************************************)
LEMMA AskAddsUp ==
  ASSUME XInv, stack # << >>,
         NEW rest \in Seq(Values(func) \cup {0}), Range(rest) \subseteq Range(Top.rest),
         NEW x \in Range(Top.rest), Range(Top.rest) \subseteq Range(rest) \cup {x},
         NEW v \in Values(func) \cup {0}, v # 0 => v \in Sources(func)[Top.v],
         Gives(func, Top.v, x) = IF v = 0 THEN {} ELSE Varies(func, v),
         Ask(v, rest), func' = func, next' = next
  PROVE  /\ Chain(func, stack') /\ Sums(func, stack')
         /\ (VerdictsExact /\ GreyKinds /\ CutInCycle /\ AskedSoFar)'
<1>1. tc' = tc /\ func \in Functions /\ Top.v \in Values(func)
  BY TopFacts DEF Ask, XInv, IInv
<1>2. CASE v = 0 \/ v \in DOMAIN tc
  <2> DEFINE t == IF v = 0 THEN Invariant ELSE tc[v]
  <2>1. stack' = Continue(rest, t) /\ grey' = grey
    BY <1>2 DEF Ask
  <2>2. t \in Triplets
    <3>1. Invariant \in Triplets
      BY DEF Invariant, Triplets
    <3> QED BY <1>2, <3>1, Zenon DEF XInv, IInv, VerdictsOK, Range
  <2>3. Straight(func, Top.v) => t = Gives(func, Top.v, x)
    <3>1. CASE v = 0
      BY <3>1 DEF Invariant
    <3>2. CASE v # 0
      <4> SUFFICES ASSUME Straight(func, Top.v) PROVE tc[v] = Varies(func, v)
        BY <3>2
      <4>1. v \in From(func, Sources(func)[Top.v])
        BY <1>1, <3>2, SourcesOf, FromFacts
      <4>2. Straight(func, v)
        BY <1>1, <4>1, StraightBehind
      <4>3. v \notin Stacked(stack)
        BY <3>2, PendingSource
      <4> QED BY <1>2, <3>2, <4>2, <4>3 DEF XInv, VerdictsExact
    <3> QED BY <3>1, <3>2
  <2> HIDE DEF t
  <2>4. /\ Chain(func, stack') /\ Sums(func, stack')
        /\ Stacked(stack') = Stacked(stack)
    BY <2>1, <2>2, <2>3, ContinueAddsUp
  <2> QED BY <1>1, <2>1, <2>4, VerdictsKept
<1>3. CASE ~(v = 0 \/ v \in DOMAIN tc)
  <2>1. /\ stack' = Append(Continue(rest, {}), Call(v))
        /\ \A y \in grey' : y \in grey \/
             (y = v /\ func.code[y].op \in {"alloca", "load", "store"})
        /\ v \in Values(func)
    BY <1>3 DEF Ask, Enter
  <2>2. /\ Chain(func, stack') /\ Sums(func, stack')
        /\ Stacked(stack') = Stacked(stack) \cup {v}
    BY <1>3, <2>1, PushAddsUp
  <2> QED BY <1>1, <2>1, <2>2, VerdictsKept
<1> QED BY <1>2, <1>3, Zenon

LEMMA InitXInv == Init => XInv
<1> SUFFICES ASSUME Init PROVE XInv
  OBVIOUS
<1>1. /\ IInv /\ func \in Functions
      /\ tc = func.marks /\ grey = {} /\ stack = << >> /\ next = 1
  BY InitIInv DEF Init
<1>2. Chain(func, stack) /\ Sums(func, stack)
  BY <1>1 DEF Chain, Sums
<1>3. VerdictsExact
  <2> SUFFICES ASSUME NEW v \in DOMAIN func.marks PROVE func.marks[v] = Varies(func, v)
    BY <1>1 DEF VerdictsExact
  <2>1. v \in Values(func)
    BY <1>1, FunctionsAssumption
  <2>2. Sources(func)[v] = {} /\ Adds(func, v) = func.marks[v]
    BY <2>1 DEF Sources, Adds
  <2>3. UNION {Varies(func, w) : w \in Sources(func)[v]} = {}
    BY <2>2
  <2>4. Varies(func, v) = Adds(func, v) \cup UNION {Varies(func, w) : w \in Sources(func)[v]}
    BY <1>1, <2>1, VariesStep, Zenon
  <2> QED BY <2>2, <2>3, <2>4
<1>4. AskedSoFar
  <2>1. Values(func) = 1 .. Len(func.code)
    BY <1>1, FunctionFacts, Zenon
  <2> QED BY <1>1, <2>1 DEF AskedSoFar
<1> QED BY <1>1, <1>2, <1>3, <1>4 DEF XInv, GreyKinds, CutInCycle

LEMMA AskNextXInv == XInv /\ AskNext => XInv'
<1> SUFFICES ASSUME XInv, AskNext PROVE XInv'
  OBVIOUS
<1>1. /\ func \in Functions /\ Values(func) = 1 .. Len(func.code)
      /\ func.code \in Seq(Instructions(Len(func.code)))
  BY FunctionFacts, Zenon DEF IInv, XInv
<1>2. /\ IInv' /\ func' = func /\ tc' = tc /\ next \in Values(func) /\ next' = next + 1
      /\ stack = << >> /\ Stacked(stack) = {}
  BY <1>1, AskNextIInv DEF AskNext, XInv, IInv, Stacked
<1>3. \A v \in Values(func) : v < next' => v < next \/ v = next
  BY <1>1, <1>2
<1>4. CASE next \in DOMAIN tc
  <2>1. stack' = stack /\ grey' = grey
    BY <1>4 DEF AskNext
  <2>2. (VerdictsExact /\ GreyKinds /\ CutInCycle /\ AskedSoFar)'
    BY <1>2, <1>3, <1>4, <2>1, VerdictsKept
  <2> QED BY <1>2, <2>1, <2>2, Zenon DEF XInv
<1>5. CASE next \notin DOMAIN tc
  <2>1. /\ stack' = <<Call(next)>>
        /\ \A y \in grey' : y \in grey \/
             (y = next /\ func.code[y].op \in {"alloca", "load", "store"})
    BY <1>5 DEF AskNext, Enter
  <2>2. Len(stack') = 1 /\ stack'[1] = Call(next) /\ Call(next).v = next
    BY <2>1 DEF Call
  <2>3. Stacked(stack') = {next}
    BY <2>2 DEF Stacked
  <2>4. Chain(func, stack')
    BY <2>2 DEF Chain
  <2>5. Sums(func, stack')
    <3>1. Varies(func, next) = Call(next).acc \cup Remaining(func, Call(next))
      BY <1>2, <1>5, CallAddsUp DEF XInv, IInv, VerdictsOK
    <3>2. Above(func, stack', 1) = {}
      BY <2>2 DEF Above
    <3>3. AddsUp(func, stack', 1)
      BY <2>2, <3>1, <3>2 DEF AddsUp
    <3> QED BY <2>2, <3>3 DEF Sums
  <2>6. (VerdictsExact /\ GreyKinds /\ CutInCycle /\ AskedSoFar)'
    BY <1>2, <1>3, <2>1, <2>3, VerdictsKept
  <2> QED BY <1>2, <2>4, <2>5, <2>6, Zenon DEF XInv
<1> QED BY <1>4, <1>5

LEMMA ReturnVerdictXInv == XInv /\ ReturnVerdict => XInv'
<1> SUFFICES ASSUME XInv, ReturnVerdict PROVE XInv'
  OBVIOUS
<1> DEFINE n == Len(stack)
<1>1. /\ stack # << >> /\ Top.rest = << >>
      /\ Set(Top.v, Top.acc) /\ stack' = Return(Top.acc)
      /\ func' = func /\ grey' = grey /\ next' = next /\ IInv'
  BY ReturnVerdictIInv DEF ReturnVerdict, XInv
<1>2. /\ n \in Nat \ {0} /\ Top = stack[n] /\ Top.acc \in Triplets /\ Sums(func, stack)
  BY <1>1, TopFacts DEF Frames, XInv
<1>3. Straight(func, Top.v) => Top.acc = Varies(func, Top.v)
  <2>1. AddsUp(func, stack, n) /\ Above(func, stack, n) = {}
    BY <1>2 DEF Sums, Above
  <2>2. Remaining(func, Top) = {}
    BY <1>1 DEF Remaining, Range
  <2> QED BY <1>2, <2>1, <2>2 DEF AddsUp
<1>4. /\ Chain(func, stack') /\ Sums(func, stack')
      /\ Stacked(stack) \subseteq Stacked(stack') \cup {Top.v}
  <2>1. \A i \in 1 .. n - 1 : Straight(func, stack[i].v) => Top.acc = Varies(func, Top.v)
    BY <1>1, <1>3, TopStraight
  <2> QED BY <1>1, <1>2, <2>1, ReturnAddsUp
<1>5. /\ DOMAIN tc' = DOMAIN tc \cup {Top.v} /\ tc'[Top.v] = Top.acc
      /\ \A v \in DOMAIN tc : v # Top.v => tc'[v] = tc[v]
  BY <1>1 DEF Set
<1>6. (VerdictsExact /\ GreyKinds /\ CutInCycle /\ AskedSoFar)'
  BY <1>1, <1>3, <1>4, <1>5, VerdictsKept
<1> QED BY <1>1, <1>4, <1>6, Zenon DEF XInv

LEMMA AskOperandXInv == XInv /\ AskOperand => XInv'
<1> SUFFICES ASSUME XInv, AskOperand PROVE XInv'
  OBVIOUS
<1> DEFINE v == Head(Top.rest)
           rest == Tail(Top.rest)
<1>1. /\ stack # << >> /\ Instr.op # "alloca" /\ Top.rest # << >>
      /\ func' = func /\ next' = next /\ IInv' /\ IInv
  BY AskOperandIInv DEF AskOperand, XInv
<1>2. /\ Top \in Frames(func) /\ FrameOK(func, Top, grey) /\ Top.v \in Values(func)
      /\ func \in Functions
  BY <1>1, TopFacts DEF IInv
<1>3. /\ v \in Values(func) \cup {0} /\ rest \in Seq(Values(func) \cup {0})
      /\ v \in Range(Top.rest) /\ Range(rest) \subseteq Range(Top.rest)
      /\ Range(Top.rest) \subseteq Range(rest) \cup {v}
  <2> DEFINE r == Top.rest
  <2>1. r \in Seq(Values(func) \cup {0}) /\ r # << >>
    BY <1>1, <1>2 DEF Frames
  <2> HIDE DEF r
  <2>2. /\ v = r[1] /\ 1 \in DOMAIN r /\ v \in Values(func) \cup {0}
        /\ rest \in Seq(Values(func) \cup {0})
        /\ \A k \in DOMAIN rest : k + 1 \in DOMAIN r /\ rest[k] = r[k + 1]
        /\ \A k \in DOMAIN r : k = 1 \/ (k - 1 \in DOMAIN rest /\ rest[k - 1] = r[k])
    BY <2>1 DEF r
  <2> HIDE DEF v, rest
  <2>3. v \in Range(r)
    BY <2>2, Zenon DEF Range
  <2>4. \A y \in Range(rest) : y \in Range(r)
    BY <2>2 DEF Range
  <2>5. \A y \in Range(r) : y \in Range(rest) \cup {v}
    BY <2>2 DEF Range
  <2> QED BY <2>2, <2>3, <2>4, <2>5 DEF r
<1> HIDE DEF v, rest
<1>4. v # 0 => v \in Sources(func)[Top.v]
  <2>1. v \in Range(Asked(Instr))
    BY <1>1, <1>2, <1>3 DEF FrameOK, Left, IsAlloca, Instr
  <2> QED BY <1>1, <1>2, <2>1, AskedIsSource DEF FrameOK, IsAlloca, Instr
<1>5. CASE Instr.op \in {"load", "store"} /\ InCycle(v)
  <2>1. Set(v, NonInvariant) /\ stack' = Return(NonInvariant) /\ grey' = grey
    BY <1>5 DEF AskOperand, v, rest
  <2>2. v \in Values(func) /\ v \in grey /\ v \notin DOMAIN tc /\ v # 0
    <3>1. /\ Values(func) = 1 .. Len(func.code)
          /\ func.code \in Seq(Instructions(Len(func.code)))
      BY <1>2, FunctionFacts, Zenon
    <3>2. v \in grey /\ v \notin DOMAIN tc /\ grey \subseteq Values(func)
      BY <1>1, <1>5 DEF InCycle, IInv
    <3> QED BY <3>1, <3>2
  <2>3. ~Straight(func, v) /\ ~Straight(func, Top.v)
    <3>1. CASE v \in Stacked(stack)
      BY <1>1, <1>4, <2>2, <3>1, PendingSource
    <3>2. CASE v \notin Stacked(stack)
      <4>1. ~Straight(func, v)
        BY <2>2, <3>2 DEF XInv, CutInCycle
      <4>2. v \in From(func, Sources(func)[Top.v])
        BY <1>2, <1>4, <2>2, SourcesOf, FromFacts
      <4> QED BY <1>2, <4>1, <4>2, StraightBehind
    <3> QED BY <3>1, <3>2
  <2>4. /\ Chain(func, stack') /\ Sums(func, stack')
        /\ Stacked(stack') \subseteq Stacked(stack)
        /\ Stacked(stack) \subseteq Stacked(stack') \cup {Top.v}
    <3>1. NonInvariant \in Triplets
      BY DEF NonInvariant, Triplets
    <3>2. \A i \in 1 .. Len(stack) - 1 : ~Straight(func, stack[i].v)
      BY <1>1, <2>3, TopStraight
    <3> QED BY <1>1, <2>1, <3>1, <3>2, ReturnAddsUp
  <2>5. /\ DOMAIN tc' = DOMAIN tc \cup {v}
        /\ \A y \in DOMAIN tc : y # v => tc'[y] = tc[y]
    BY <2>1 DEF Set
  <2>6. (VerdictsExact /\ GreyKinds /\ CutInCycle /\ AskedSoFar)'
    BY <1>1, <2>1, <2>3, <2>4, <2>5, VerdictsKept
  <2> QED BY <1>1, <2>4, <2>6, Zenon DEF XInv
<1>6. CASE ~(Instr.op \in {"load", "store"} /\ InCycle(v))
  <2>1. Ask(v, rest)
    BY <1>6 DEF AskOperand, v, rest
  <2>2. Gives(func, Top.v, v) = IF v = 0 THEN {} ELSE Varies(func, v)
    BY <1>1 DEF Gives, IsAlloca, Instr
  <2>3. /\ Chain(func, stack') /\ Sums(func, stack')
        /\ (VerdictsExact /\ GreyKinds /\ CutInCycle /\ AskedSoFar)'
    BY <1>1, <1>3, <1>4, <2>1, <2>2, AskAddsUp
  <2> QED BY <1>1, <2>3, Zenon DEF XInv
<1> QED BY <1>5, <1>6

\* A store that is pending, or was cut, while the alloca it stores to is asked
\* about, stores what hangs on the alloca or is made of itself.
LEMMA StoreInCycle ==
  ASSUME XInv, stack # << >>, Instr.op = "alloca",
         NEW u \in Users(func, Top.v), InCycle(u), func.code[u].op = "store"
  PROVE  ~Straight(func, Top.v)
<1> SUFFICES ASSUME Straight(func, Top.v) PROVE FALSE
  OBVIOUS
<1> DEFINE n == Len(stack)
           a == Top.v
           behind == From(func, Sources(func)[a])
<1>1. /\ stack \in Seq(Frames(func)) /\ n \in Nat \ {0} /\ Top = stack[n]
      /\ Chain(func, stack) /\ func \in Functions /\ FrameOK(func, Top, grey)
      /\ a \in Values(func) /\ func.code[a].op = "alloca"
  BY TopFacts DEF XInv, IInv, Instr
<1>2. u \in Values(func) /\ u \notin DOMAIN func.marks /\ u \in grey \ DOMAIN tc
  BY DEF InCycle, Users, XInv, IInv, VerdictsOK
<1>3. Sources(func)[u] \subseteq Sources(func)[a]
  <2>1. Sources(func)[u] \subseteq {func.code[u].args[1]} \ {0}
    BY <1>1, <1>2 DEF Sources, Asked, Range
  <2>2. {func.code[u].args[1]} \ {0} \subseteq Sources(func)[a]
    BY <1>1 DEF Sources, FrameOK
  <2> QED BY <2>1, <2>2
<1>4. /\ Sources(func)[a] \in SUBSET Values(func) /\ Sources(func)[u] \in SUBSET Values(func)
      /\ Sources(func)[a] \subseteq behind
      /\ From(func, Sources(func)[u]) \subseteq behind
  <2>1. Sources(func)[a] \in SUBSET Values(func) /\ Sources(func)[u] \in SUBSET Values(func)
    BY <1>1, <1>2, SourcesOf
  <2>2. Sources(func)[a] \subseteq behind
    BY <1>1, <2>1, FromFacts
  <2>3. From(func, Sources(func)[u]) \subseteq behind
    <3>1. Sources(func)[u] \subseteq behind
      BY <1>3, <2>2
    <3> QED BY <1>1, <2>1, <3>1, SourcesGraph, ReachTransitive DEF From
  <2> QED BY <2>1, <2>2, <2>3
<1> HIDE DEF behind
<1>5. ASSUME NEW y \in behind PROVE y # a /\ y \notin From(func, Sources(func)[y])
  <2>1. y \in From(func, Sources(func)[a]) /\ y \in Values(func)
    BY <1>1, <1>4, FromFacts DEF behind
  <2>2. Straight(func, y) /\ y # a
    BY <1>1, <2>1, StraightBehind
  <2> QED BY <1>1, <2>1, <2>2, StraightBehind
<1>6. u \notin Stacked(stack)
  <2> SUFFICES ASSUME NEW i \in 1 .. n, stack[i].v = u PROVE FALSE
    BY DEF Stacked
  <2>1. i < n /\ n \in 1 .. n
    BY <1>1
  <2>2. a \in From(func, Sources(func)[u])
    BY <1>1, <2>1, Zenon DEF Chain
  <2> QED BY <1>4, <1>5, <2>2
<1>7. ~Straight(func, u)
  BY <1>2, <1>6 DEF XInv, CutInCycle
<1>8. PICK y \in From(func, {u}) : y \in From(func, Sources(func)[y])
  BY <1>7 DEF Straight, From
<1>9. From(func, {u}) = {u} \cup From(func, Sources(func)[u])
  BY <1>1, <1>2, SourcesGraph, ReachUnfold DEF From
<1>10. y \in behind
  BY <1>4, <1>8, <1>9
<1> QED BY <1>5, <1>8, <1>10

LEMMA AskUserXInv ==
  ASSUME XInv, stack # << >>, Instr.op = "alloca", NEW n \in DOMAIN Top.rest, AskUser(n)
  PROVE  XInv'
<1> DEFINE u == Top.rest[n]
           rest == RemoveAt(Top.rest, n)
           op == func.code[u].op
           w == func.code[u].args[1]
<1>1. /\ func' = func /\ next' = next /\ func \in Functions /\ IInv /\ IInv'
      /\ Top.v \in Values(func) /\ FrameOK(func, Top, grey) /\ IsAlloca(func, Top.v)
  BY TopFacts, AskUserIInv DEF AskUser, XInv, IInv, Instr, IsAlloca
<1>2. /\ rest \in Seq(Values(func) \cup {0}) /\ Range(rest) \subseteq Range(Top.rest)
      /\ u \in Range(Top.rest) /\ Range(Top.rest) \subseteq Range(rest) \cup {u}
  BY <1>1, OneUserLess, Zenon
<1>3. u \in Users(func, Top.v) /\ u \in Values(func) /\ Top.v \notin DOMAIN func.marks
  BY <1>1, <1>2 DEF FrameOK, Left, Users
<1>4. Top.v \in Stacked(stack)
  BY <1>1, TopFacts DEF Stacked
<1>5. Invariant \in Triplets /\ NonInvariant \in Triplets /\ Invariant = {} /\ {} \in Triplets
  BY DEF Invariant, NonInvariant, Triplets
<1> HIDE DEF u, rest, w
<1>6. CASE InCycle(u) /\ Set(u, Invariant) /\ stack' = Continue(rest, Invariant) /\ grey' = grey
  <2>1. Straight(func, Top.v) => Invariant = Gives(func, Top.v, u)
    <3> SUFFICES ASSUME Straight(func, Top.v) PROVE Gives(func, Top.v, u) = {}
      BY <1>5
    <3>1. op # "store"
      BY <1>3, <1>6, StoreInCycle
    <3>2. op # "op"
      BY <1>6 DEF InCycle, XInv, GreyKinds
    <3> QED BY <1>1, <3>1, <3>2 DEF Gives
  <2>2. /\ Chain(func, stack') /\ Sums(func, stack') /\ Stacked(stack') = Stacked(stack)
    BY <1>2, <1>5, <1>6, <2>1, ContinueAddsUp
  <2>3. /\ DOMAIN tc' = DOMAIN tc \cup {u}
        /\ \A y \in DOMAIN tc : y # u => tc'[y] = tc[y]
    BY <1>6 DEF Set
  <2>4. u \in Stacked(stack) \/ ~Straight(func, u)
    BY <1>6 DEF InCycle, XInv, CutInCycle
  <2>5. (VerdictsExact /\ GreyKinds /\ CutInCycle /\ AskedSoFar)'
    BY <1>1, <1>6, <2>2, <2>3, <2>4, VerdictsKept
  <2> QED BY <1>1, <2>2, <2>5, Zenon DEF XInv
<1>7. CASE op = "store" /\ Ask(w, rest)
  <2>1. /\ w \in Values(func) \cup {0}
        /\ w # 0 => w \in Sources(func)[Top.v]
    <3>1. func.code[u].args \in Seq(Values(func) \cup {0}) /\ Len(func.code[u].args) = 2
      BY <1>1, <1>3, <1>7, FunctionFacts
    <3>2. 1 \in DOMAIN func.code[u].args
      <4>1. DOMAIN func.code[u].args = 1 .. 2
        BY <3>1
      <4> QED BY <4>1
    <3>3. w \in Values(func) \cup {0}
      BY <3>1, <3>2, ElementOfSeq DEF w
    <3> QED BY <1>1, <1>3, <1>7, <3>3, AskedIsSource DEF w
  <2>2. Gives(func, Top.v, u) = IF w = 0 THEN {} ELSE Varies(func, w)
    BY <1>1, <1>7 DEF Gives, w
  <2>3. /\ Chain(func, stack') /\ Sums(func, stack')
        /\ (VerdictsExact /\ GreyKinds /\ CutInCycle /\ AskedSoFar)'
    BY <1>1, <1>2, <1>7, <2>1, <2>2, AskAddsUp
  <2> QED BY <1>1, <2>3, Zenon DEF XInv
<1>8. CASE op = "load" /\ stack' = Continue(rest, {}) /\ tc' = tc /\ grey' = grey
  <2>1. Gives(func, Top.v, u) = {}
    BY <1>1, <1>8 DEF Gives
  <2>2. /\ Chain(func, stack') /\ Sums(func, stack') /\ Stacked(stack') = Stacked(stack)
    BY <1>2, <1>5, <1>8, <2>1, ContinueAddsUp
  <2>3. (VerdictsExact /\ GreyKinds /\ CutInCycle /\ AskedSoFar)'
    BY <1>1, <1>8, <2>2, VerdictsKept
  <2> QED BY <1>1, <2>2, <2>3, Zenon DEF XInv
<1>9. CASE /\ op = "op" /\ Set(Top.v, NonInvariant)
           /\ stack' = Continue(rest, NonInvariant) /\ grey' = grey
  <2>1. Gives(func, Top.v, u) = NonInvariant
    BY <1>1, <1>9 DEF Gives
  <2>2. /\ Chain(func, stack') /\ Sums(func, stack') /\ Stacked(stack') = Stacked(stack)
    BY <1>2, <1>5, <1>9, <2>1, ContinueAddsUp
  <2>3. /\ DOMAIN tc' = DOMAIN tc \cup {Top.v}
        /\ \A y \in DOMAIN tc : y # Top.v => tc'[y] = tc[y]
    BY <1>9 DEF Set
  <2>4. (VerdictsExact /\ GreyKinds /\ CutInCycle /\ AskedSoFar)'
    BY <1>1, <1>4, <1>9, <2>2, <2>3, VerdictsKept
  <2> QED BY <1>1, <2>2, <2>4, Zenon DEF XInv
<1> QED BY <1>6, <1>7, <1>8, <1>9 DEF AskUser, u, rest, w

LEMMA NextXInv == XInv /\ [Next]_vars => XInv'
<1> SUFFICES ASSUME XInv, [Next]_vars PROVE XInv'
  OBVIOUS
<1>1. CASE AskNext
  BY <1>1, AskNextXInv
<1>2. CASE AskOperand
  BY <1>2, AskOperandXInv
<1>3. CASE stack # << >> /\ Instr.op = "alloca" /\ \E n \in DOMAIN Top.rest : AskUser(n)
  BY <1>3, AskUserXInv, Zenon
<1>4. CASE ReturnVerdict
  BY <1>4, ReturnVerdictXInv
<1>5. CASE UNCHANGED vars
  <2>1. IInv'
    BY <1>5, NextIInv DEF XInv
  <2> QED BY <1>5, <2>1
          DEF vars, XInv, VerdictsExact, GreyKinds, CutInCycle, AskedSoFar
<1> QED BY <1>1, <1>2, <1>3, <1>4, <1>5, Zenon DEF Next, Analysed

\* The invariant about the verdicts, on the way.
THEOREM SpecXInv == Spec => []XInv
<1> QED BY InitXInv, NextXInv, PTL DEF Spec

LEMMA XInvExact == XInv => VerdictExact
<1> SUFFICES ASSUME XInv, Done, NEW v \in Values(func), Straight(func, v)
             PROVE  v \in DOMAIN tc /\ tc[v] = Varies(func, v)
  BY DEF VerdictExact
<1>1. Stacked(stack) = {}
  BY DEF Done, Stacked
<1>2. v < next
  <2>1. /\ Values(func) = 1 .. Len(func.code) /\ next \in 1 .. Len(func.code) + 1
        /\ func.code \in Seq(Instructions(Len(func.code)))
    BY FunctionFacts, Zenon DEF XInv, IInv
  <2> QED BY <2>1 DEF Done
<1>3. v \in DOMAIN tc
  BY <1>1, <1>2 DEF XInv, AskedSoFar
<1> QED BY <1>1, <1>3 DEF XInv, VerdictsExact

\* For every function and every order of the users: a value that is not made
\* of itself ends with the dimensions that its data varies in.  Cycles that
\* were cut, verdicts that were set in advance and values that were asked
\* about twice do not reach it.
THEOREM TripletVerdictsExact == Spec => []VerdictExact
<1> QED BY SpecXInv, XInvExact, PTL

-----------------------------------------------------------------------------
(***************************************************************************)
(* The kinds of InvarianceLattice are a chain and Meet is its greatest     *)
(* lower bound, so merging verdicts is independent of order and            *)
(* repetition, and can only lower them: what the work list of              *)
(* ThreadInvariance.cpp relies on.                                         *)
(***************************************************************************)
LEMMA MeetIsKind ==
  ASSUME NEW a \in Kinds, NEW b \in Kinds
  PROVE  Meet(a, b) \in Kinds
BY DEF Kinds, Meet

\* ThreadInvariance.cpp:37-63: of two kinds, meet is the lower one: below
\* both, and above all that is below both.
THEOREM MeetIsGreatestLowerBound ==
  ASSUME NEW a \in Kinds, NEW b \in Kinds, NEW c \in Kinds
  PROVE  /\ Rank(Meet(a, b)) <= Rank(a)
         /\ Rank(Meet(a, b)) <= Rank(b)
         /\ Rank(c) <= Rank(a) /\ Rank(c) <= Rank(b) => Rank(c) <= Rank(Meet(a, b))
<1>1. \A k \in Kinds : Rank(k) \in 0 .. 3
  BY DEF Kinds, Rank
<1>2. Meet(a, b) = a \/ Meet(a, b) = b
  BY DEF Kinds, Meet
<1>3. Rank(Meet(a, b)) <= Rank(a) /\ Rank(Meet(a, b)) <= Rank(b)
  BY DEF Kinds, Meet, Rank
<1>. QED
  BY <1>1, <1>2, <1>3

\* The order in which verdicts are merged, and how often, makes no difference.
THEOREM MeetIsSemilattice ==
  ASSUME NEW a \in Kinds, NEW b \in Kinds, NEW c \in Kinds
  PROVE  /\ Meet(a, a) = a
         /\ Meet(a, b) = Meet(b, a)
         /\ Meet(a, Meet(b, c)) = Meet(Meet(a, b), c)
<1>1. Meet(a, a) = a
  BY DEF Kinds, Meet
<1>2. Meet(a, b) = Meet(b, a)
  BY DEF Meet
<1>3. Meet(a, Meet(b, c)) = Meet(Meet(a, b), c)
  BY DEF Kinds, Meet
<1>. QED
  BY <1>1, <1>2, <1>3

-----------------------------------------------------------------------------
LEMMA MeetScalarIsScalar ==
  ASSUME NEW bases,
         NEW s \in Scalars(bases),
         NEW t \in Scalars(bases)
  PROVE  MeetScalar(s, t) \in Scalars(bases)
<1>1. \A d \in Dims : Meet(s.kind[d], t.kind[d]) \in Kinds
  BY MeetIsKind DEF Scalars
<1>. QED
  BY <1>1 DEF MeetScalar, Scalars

LEMMA MeetScalarSinks ==
  ASSUME NEW bases,
         NEW s \in Scalars(bases),
         NEW t \in Scalars(bases),
         NEW d \in Dims
  PROVE  Rank(MeetScalar(s, t).kind[d]) <= Rank(s.kind[d])
<1>1. s.kind[d] \in Kinds /\ t.kind[d] \in Kinds
  BY DEF Scalars
<1>2. MeetScalar(s, t).kind[d] = Meet(s.kind[d], t.kind[d])
  BY DEF MeetScalar, Scalars
<1>. QED
  BY <1>1, <1>2, MeetIsGreatestLowerBound

\* ThreadInvariance.cpp:949-966: whatever the widths of the two, operator&=
\* leaves a verdict of the width it had, and no lane of it higher.
THEOREM MeetVerdictSinks ==
  ASSUME NEW bases,
         NEW v \in Verdicts(bases),
         NEW w \in Verdicts(bases)
  PROVE  /\ MeetVerdict(v, w) \in Verdicts(bases)
         /\ Below(MeetVerdict(v, w), v)
<1>1. /\ v \in Seq(Scalars(bases)) /\ w \in Seq(Scalars(bases))
      /\ DOMAIN v = 1 .. Len(v) /\ DOMAIN w = 1 .. Len(w)
      /\ Len(v) \in Nat /\ Len(w) \in Nat
      /\ \A l \in DOMAIN v : v[l] \in Scalars(bases)
      /\ \A l \in DOMAIN w : w[l] \in Scalars(bases)
  BY DEF Verdicts
<1>2. ASSUME NEW f, NEW g \in [1 .. Len(v) -> DOMAIN w],
             f = [l \in DOMAIN v |-> MeetScalar(v[l], w[g[l]])]
      PROVE  f \in Seq(Scalars(bases)) /\ Below(f, v)
  <2>1. \A l \in 1 .. Len(v) : MeetScalar(v[l], w[g[l]]) \in Scalars(bases)
    BY <1>1, MeetScalarIsScalar
  <2>2. f \in [1 .. Len(v) -> Scalars(bases)]
    BY <1>1, <1>2, <2>1
  <2>3. f \in Seq(Scalars(bases)) /\ Len(f) = Len(v) /\ DOMAIN f = 1 .. Len(v)
    BY <1>1, <2>2
  <2>4. ASSUME NEW l \in DOMAIN f, NEW d \in Dims
        PROVE  Rank(f[l].kind[d]) <= Rank(v[l].kind[d])
    <3>1. f[l] = MeetScalar(v[l], w[g[l]]) /\ v[l] \in Scalars(bases) /\ w[g[l]] \in Scalars(bases)
      BY <1>1, <1>2, <2>3
    <3>. QED
      BY <3>1, MeetScalarSinks
  <2>. QED
    BY <2>3, <2>4 DEF Below
<1>3. CASE Len(v) = Len(w)
  <2>. DEFINE g == [l \in 1 .. Len(v) |-> l]
  <2>1. g \in [1 .. Len(v) -> DOMAIN w]
    BY <1>1, <1>3
  <2>2. MeetVerdict(v, w) = [l \in DOMAIN v |-> MeetScalar(v[l], w[l])]
    <3>1. ~(Len(v) = 1 /\ Len(w) > 1) /\ ~(Len(w) = 1 /\ Len(v) > 1)
      <4>1. Len(v) \in Nat /\ Len(w) \in Nat
        BY <1>1
      <4>2. \A m, n \in Nat : m = n => ~(m = 1 /\ n > 1) /\ ~(n = 1 /\ m > 1)
        OBVIOUS
      <4>. QED
        BY <1>3, <4>1, <4>2, Zenon
    <3>. QED
      BY <1>3, <3>1, Zenon DEF MeetVerdict
  <2>3. MeetVerdict(v, w) = [l \in DOMAIN v |-> MeetScalar(v[l], w[g[l]])]
    BY <1>1, <2>2
  <2>. QED
    BY <1>2, <2>1, <2>3 DEF Verdicts
<1>4. CASE Len(v) # Len(w) /\ Len(v) = 1 /\ Len(w) > 1
  <2>. DEFINE g == [l \in 1 .. Len(v) |-> 1]
  <2>1. g \in [1 .. Len(v) -> DOMAIN w]
    BY <1>1, <1>4
  <2>2. MeetVerdict(v, w) = <<MeetScalar(v[1], w[1])>>
    BY <1>4 DEF MeetVerdict
  <2>3. MeetVerdict(v, w) = [l \in DOMAIN v |-> MeetScalar(v[l], w[g[l]])]
    <3>. DEFINE h == [l \in DOMAIN v |-> MeetScalar(v[l], w[g[l]])]
    <3>1. DOMAIN v = {1}
      BY <1>1, <1>4
    <3>2. h = [l \in {1} |-> MeetScalar(v[1], w[1])]
      BY <1>1, <1>4, <3>1
    <3>. QED
      BY <2>2, <3>2
  <2>. QED
    BY <1>2, <2>1, <2>3 DEF Verdicts
<1>5. CASE Len(v) # Len(w) /\ Len(w) = 1 /\ Len(v) > 1
  <2>. DEFINE g == [l \in 1 .. Len(v) |-> 1]
  <2>1. g \in [1 .. Len(v) -> DOMAIN w]
    BY <1>1, <1>5
  <2>2. MeetVerdict(v, w) = [l \in DOMAIN v |-> MeetScalar(v[l], w[1])]
    BY <1>1, <1>5 DEF MeetVerdict
  <2>3. MeetVerdict(v, w) = [l \in DOMAIN v |-> MeetScalar(v[l], w[g[l]])]
    BY <1>1, <2>2
  <2>. QED
    BY <1>2, <2>1, <2>3 DEF Verdicts
<1>6. CASE /\ Len(v) # Len(w)
           /\ ~(Len(v) = 1 /\ Len(w) > 1)
           /\ ~(Len(w) = 1 /\ Len(v) > 1)
  <2>1. MeetVerdict(v, w) = v
    BY <1>6 DEF MeetVerdict
  <2>2. \A k \in Kinds : Rank(k) \in 0 .. 3
    BY DEF Kinds, Rank
  <2>3. Below(v, v)
    BY <1>1, <2>2 DEF Below, Scalars
  <2>. QED
    BY <2>1, <2>3
<1>. QED
  BY <1>3, <1>4, <1>5, <1>6
=============================================================================
