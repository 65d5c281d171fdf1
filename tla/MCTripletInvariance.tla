------------------------ MODULE MCTripletInvariance ------------------------
(***************************************************************************)
(* Functions for checking TripletInvariance.                               *)
(***************************************************************************)
EXTENDS TripletInvariance

CONSTANT Size  \* instructions behind the allocas and the first id

I(op, args) == [op |-> op, args |-> args, dim |-> 0]
Id(d) == [op |-> "id", args |-> << >>, dim |-> d]

\* Two scalars and an array, which is used through pointers into it.
Start == <<I("alloca", << >>), I("alloca", << >>), I("alloca", << >>), Id(0)>>

\* What may follow code: a pointer into the array, a call that gets where
\* the first scalar is, and what computes with what there is.
Following(code) ==
  LET data == {v \in DOMAIN code : /\ code[v].op \in {"id", "phi", "load", "op"}
                                     /\ 3 \notin Range(code[v].args)}
      pointers == {1, 2} \cup {v \in DOMAIN code : 3 \in Range(code[v].args)}
  IN {Id(2), I("phi", << >>), I("op", <<3>>), I("op", <<1>>)}
     \cup {I("load", <<p>>) : p \in pointers}
     \cup {I("store", <<v, p>>) : v \in data \cup {0}, p \in pointers}
     \cup {I("op", <<v, w>>) : v \in {u \in data : u = Len(code)}, w \in data \cup {0}}

Extend(codes) == UNION {{Append(c, i) : i \in Following(c)} : c \in codes}

Codes == LET grown[k \in 0 .. Size] == IF k = 0 THEN {Start} ELSE Extend(grown[k - 1])
         IN grown[Size]

\* A scalar that is used is stored to.
Stored(code) ==
  \A a \in {1, 2} : LET users == {i \in DOMAIN code : a \in Range(code[i].args)}
                    IN users # {} => \E u \in users : code[u].op = "store"

NoMarks == [v \in {} |-> Invariant]

\* Without marks, or with the fifth instruction in a barrier loop's header.
MCFunctions ==
  {g \in [code : {c \in Codes : Stored(c)}, marks : {NoMarks, [v \in {5} |-> Invariant]}] :
     \A a \in 1 .. 3 : AddressUnused(g, a)}

\* What mxpa_IPBreakPhi makes of a loop with "sum += index; index += 16",
\* where index starts as the local id.
Stepping ==
  <<I("alloca", << >>), I("alloca", << >>), Id(0),
    I("store", <<0, 1>>), I("store", <<3, 2>>),
    I("load", <<1>>), I("load", <<2>>), I("op", <<6, 7>>), I("store", <<8, 1>>),
    I("op", <<7, 0>>), I("store", <<10, 2>>)>>

MCStepping == {[code |-> Stepping, marks |-> NoMarks]}
=============================================================================
