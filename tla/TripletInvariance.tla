------------------------- MODULE TripletInvariance -------------------------
(***************************************************************************)
(* The invariance analysis (triplet_invariance_analysis.cpp): for every    *)
(* instruction, the dimensions of the local id its value hangs on.  The    *)
(* verdicts are computed depth first and kept; GREY marks what has been    *)
(* entered, and cuts cycles.  Here the recursion is a stack.  An alloca    *)
(* goes through its users in the order of a use list: in any order.        *)
(***************************************************************************)
EXTENDS Cfg

CONSTANT Functions  \* the functions that are analysed

Dim == 0 .. 2

(***************************************************************************)
(* A function is a record [code, marks].  code is its instructions in      *)
(* order, each a record [op, args, dim]; args are its operands, 0 standing *)
(* for arguments and constants:                                            *)
(*   "alloca"  none           "load"   the pointer                         *)
(*   "store"   value, pointer "id"     none: get_local_id(dim)             *)
(*   "phi"     none: what comes in is not looked at                        *)
(*   "op"      what else computes: arithmetic, GEPs, calls, branches       *)
(* marks are the verdicts set in advance, in headers and latches of loops. *)
(***************************************************************************)
Values(g) == DOMAIN g.code
Users(g, v) == {u \in Values(g) : v \in Range(g.code[u].args)}

\* A triplet is the set of dimensions that are kNonInvariant.
Triplets == SUBSET Dim
Invariant == {}
NonInvariant == Dim

Instructions(n) ==
  [op : {"alloca", "load", "store", "id", "phi", "op"}, args : Seq(0 .. n), dim : Dim]

ASSUME FunctionsAssumption ==
  \A g \in Functions :
    /\ g.code \in Seq(Instructions(Len(g.code)))
    /\ DOMAIN g.marks \subseteq Values(g) /\ Range(g.marks) \subseteq Triplets
    /\ \A v \in Values(g) :
         /\ g.code[v].op = "store" => Len(g.code[v].args) = 2
         /\ g.code[v].op \in {"alloca", "id", "phi"} => g.code[v].args = << >>

\* The operands a call asks about: of a store, its value only.
Asked(i) == IF i.op = "store" THEN <<i.args[1]>> ELSE i.args

\* Where the data of a value comes from, one step back.
Sources(g) ==
  [v \in Values(g) |->
    LET i == g.code[v]
    IN IF v \in DOMAIN g.marks THEN {}
       ELSE IF i.op = "alloca"
       THEN {g.code[u].args[1] : u \in {w \in Users(g, v) : g.code[w].op = "store"}} \ {0}
       ELSE Range(Asked(i)) \ {0}]

\* What goes into alloca a is not worked out from where a is: no value that
\* it is made of has the address as an operand, other than loads, and the
\* address is not stored.
AddressUnused(g, a) ==
  /\ \A u \in Users(g, a) : g.code[u].op = "store" => g.code[u].args[1] # a
  /\ \E from \in SUBSET Values(g) :
       /\ Sources(g)[a] \subseteq from
       /\ \A v \in from : Sources(g)[v] \subseteq from
       /\ \A v \in from : g.code[v].op = "op" => v \notin Users(g, a)

ASSUME AddressAssumption ==
  \A g \in Functions : \A a \in Values(g) :
    g.code[a].op = "alloca" => AddressUnused(g, a)

VARIABLES
  func,   \* the function
  tc,     \* TC: the verdicts so far
  grey,   \* the instructions coloured GREY
  stack,  \* the calls of getOrCalculateTriplet that have not returned
  next    \* the next instruction to ask about

vars == <<func, tc, grey, stack, next>>

Done == next > Len(func.code) /\ stack = << >>

-----------------------------------------------------------------------------
\* Slip: dimensions are counted from one.
OwnTripletFromOne(i) == CASE i.op = "id"  -> {i.dim + 1}
                          [] i.op = "phi" -> NonInvariant
                          [] OTHER        -> Invariant

\* What an instruction is without its operands.
OwnTriplet(i) == CASE i.op = "id"  -> {i.dim}
                   [] i.op = "phi" -> NonInvariant
                   [] OTHER        -> Invariant

\* A call about v: the users or operands to be looked at, and the union of
\* the triplets seen.
Call(v) ==
  LET i == func.code[v]
  IN [ v    |-> v,
       rest |-> IF i.op = "alloca" THEN SetToSeq(Users(func, v)) ELSE Asked(i),
       acc  |-> OwnTriplet(i) ]

Top == Last(stack)
Instr == func.code[Top.v]

\* The innermost call leaves rest to be looked at, and has one more triplet.
Continue(rest, t) ==
  Append(Front(stack), [Top EXCEPT !.rest = rest, !.acc = @ \cup t])

\* Slip: a caller keeps the last triplet instead of the union.
ReturnLast(t) ==
  IF Len(stack) = 1 THEN << >>
  ELSE LET s == Front(stack) IN Append(Front(s), [Last(s) EXCEPT !.acc = t])

\* The innermost call returns t.
Return(t) ==
  IF Len(stack) = 1 THEN << >>
  ELSE LET s == Front(stack) IN Append(Front(s), [Last(s) EXCEPT !.acc = @ \cup t])

Set(v, t) == tc' = [x \in DOMAIN tc \cup {v} |-> IF x = v THEN t ELSE tc[x]]

\* A call about v is entered, on top of the stack s.
Enter(v, s) ==
  /\ stack' = Append(s, Call(v))
  /\ grey' = IF func.code[v].op \in {"alloca", "load", "store"}
             THEN grey \cup {v} ELSE grey

\* GREY and without a verdict: a cycle.
InCycle(v) == v \in grey /\ v \notin DOMAIN tc

-----------------------------------------------------------------------------
Init ==
  /\ func \in Functions
  /\ tc = func.marks
  /\ grey = {}
  /\ stack = << >>
  /\ next = 1

\* runOnFunction goes through the instructions.
AskNext ==
  /\ stack = << >>
  /\ next <= Len(func.code)
  /\ next' = next + 1
  /\ IF next \in DOMAIN tc THEN UNCHANGED <<grey, stack>> ELSE Enter(next, << >>)
  /\ UNCHANGED <<func, tc>>

\* v is asked about: it has a verdict, or gets one first.
Ask(v, rest) ==
  /\ IF v = 0 \/ v \in DOMAIN tc
     THEN /\ stack' = Continue(rest, IF v = 0 THEN Invariant ELSE tc[v])
          /\ UNCHANGED grey
     ELSE Enter(v, Continue(rest, {}))
  /\ UNCHANGED tc

\* Slip: no load or store looks for a cycle.
AskAnyway ==
  /\ stack # << >> /\ Instr.op # "alloca" /\ Top.rest # << >>
  /\ Ask(Head(Top.rest), Tail(Top.rest))
  /\ UNCHANGED <<func, next>>

\* A load asks about its pointer, a store about its value, others about
\* their operands.  A load or store that closes a cycle has its operand
\* taken to be variant, and returns without a verdict of its own.
AskOperand ==
  /\ stack # << >> /\ Instr.op # "alloca" /\ Top.rest # << >>
  /\ LET v == Head(Top.rest)
     IN IF Instr.op \in {"load", "store"} /\ InCycle(v)
        THEN /\ Set(v, NonInvariant)
             /\ stack' = Return(NonInvariant)
             /\ UNCHANGED grey
        ELSE Ask(v, Tail(Top.rest))
  /\ UNCHANGED <<func, next>>

\* An alloca is what is stored to it.  A user that closes a cycle is taken
\* to be invariant; any other use makes the alloca variant.
AskUser(n) ==
  LET u == Top.rest[n]
      rest == RemoveAt(Top.rest, n)
      op == func.code[u].op
  IN
  /\ \/ /\ InCycle(u)
        /\ Set(u, Invariant)
        /\ stack' = Continue(rest, Invariant)
        /\ UNCHANGED grey
     \/ /\ ~InCycle(u) /\ op = "store"
        /\ Ask(func.code[u].args[1], rest)
     \/ /\ ~InCycle(u) /\ op = "load"
        /\ stack' = Continue(rest, {})
        /\ UNCHANGED <<tc, grey>>
     \/ /\ ~InCycle(u) /\ op = "op"
        /\ Set(Top.v, NonInvariant)
        /\ stack' = Continue(rest, NonInvariant)
        /\ UNCHANGED grey
  /\ UNCHANGED <<func, next>>

ReturnVerdict ==
  /\ stack # << >> /\ Top.rest = << >>
  /\ Set(Top.v, Top.acc)
  /\ stack' = Return(Top.acc)
  /\ UNCHANGED <<func, grey, next>>

Analysed == Done /\ UNCHANGED vars

Next ==
  \/ AskNext \/ AskOperand
  \/ stack # << >> /\ Instr.op = "alloca" /\ \E n \in DOMAIN Top.rest : AskUser(n)
  \/ ReturnVerdict \/ Analysed

Spec == Init /\ [][Next]_vars

-----------------------------------------------------------------------------
(***************************************************************************)
(* What the verdicts are for.                                              *)
(***************************************************************************)
Escapes(g, v) == g.code[v].op = "alloca" /\ \E u \in Users(g, v) : g.code[u].op = "op"

\* What a value adds to what it is made of.
Adds(g, u) ==
  IF u \in DOMAIN g.marks THEN g.marks[u]
  ELSE IF Escapes(g, u) THEN NonInvariant ELSE OwnTriplet(g.code[u])

\* The dimensions in which the work-items' values may differ.
Varies(g, v) == UNION {Adds(g, u) : u \in Reach(Sources(g), {v})}

\* No value that v is made of is made of itself.
Straight(g, v) ==
  LET from == Sources(g)
  IN \A u \in Reach(from, {v}) : u \notin Reach(from, from[u])

TypeOK ==
  /\ DOMAIN tc \subseteq Values(func) /\ Range(tc) \subseteq Triplets
  /\ grey \subseteq Values(func)
  /\ \A i \in DOMAIN stack :
       /\ stack[i].v \in Values(func)
       /\ Range(stack[i].rest) \subseteq Values(func) \cup {0}
       /\ stack[i].acc \in Triplets
  /\ next \in 1 .. Len(func.code) + 1

\* The recursion comes to an end: a value may be asked about again while it
\* is pending, an alloca may not (GREY), and every cycle goes through one.
AllocasEnteredOnce ==
  \A i, j \in DOMAIN stack :
    i # j /\ func.code[stack[i].v].op = "alloca" => stack[i].v # stack[j].v

\* A value that is not made of itself gets the dimensions its data varies
\* in, no more and no fewer, whatever was cut and kept on the way.
VerdictExact ==
  Done => \A v \in Values(func) :
            Straight(func, v) => v \in DOMAIN tc /\ tc[v] = Varies(func, v)

\* kInvariant stands for "work-item invariant": the work-items agree on
\* every value with that verdict (triplet_invariance_analysis.h:35).
InvariantDataAgrees ==
  Done => \A v \in DOMAIN tc : tc[v] = Invariant => Varies(func, v) = {}
=============================================================================
