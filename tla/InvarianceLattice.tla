------------------------- MODULE InvarianceLattice -------------------------
(***************************************************************************)
(* What ThreadInvariance.cpp says of a value: for every level (local,      *)
(* global) and axis, how the value hangs on that id.  A vector has such a  *)
(* verdict per lane; a pointer also the memory it points into.             *)
(***************************************************************************)
EXTENDS Naturals, Sequences

CONSTANT MaxAxis
ASSUME AxisAssumption == MaxAxis \in Nat \ {0}

Axes == 0 .. MaxAxis - 1
Dims == {"local", "global"} \X Axes

Kinds == {"NonInvariant", "MaybeNonInvariant", "Invariant", "Unknown"}

\* A slip: Unknown wins, as bottom would.
MeetUnknown(lhs, rhs) ==
  CASE "Unknown" \in {lhs, rhs}           -> "Unknown"
    [] "NonInvariant" \in {lhs, rhs}      -> "NonInvariant"
    [] "MaybeNonInvariant" \in {lhs, rhs} -> "MaybeNonInvariant"
    [] OTHER                              -> "Invariant"

Meet(lhs, rhs) ==
  IF "NonInvariant" \in {lhs, rhs} THEN "NonInvariant"
  ELSE IF "MaybeNonInvariant" \in {lhs, rhs} THEN "MaybeNonInvariant"
  ELSE IF "Invariant" \in {lhs, rhs} THEN "Invariant"
  ELSE "Unknown"

Join(lhs, rhs) ==
  IF "Invariant" \in {lhs, rhs} THEN "Invariant"
  ELSE IF "MaybeNonInvariant" \in {lhs, rhs} THEN "MaybeNonInvariant"
  ELSE IF "NonInvariant" \in {lhs, rhs} THEN "NonInvariant"
  ELSE "Unknown"

-----------------------------------------------------------------------------
(***************************************************************************)
(* ScalarInvarianceInfo: a kind for every dimension, and the base pointer. *)
(***************************************************************************)
Scalar(kind) == [kind |-> [d \in Dims |-> kind], base |-> "none"]

SetDim(s, d, kind) == [s EXCEPT !.kind[d] = kind]

MeetScalar(s, t) ==
  [ kind |-> [d \in Dims |-> Meet(s.kind[d], t.kind[d])],
    base |-> IF s.base = "none" THEN t.base ELSE s.base ]

JoinScalar(s, t) ==
  [ kind |-> [d \in Dims |-> Join(s.kind[d], t.kind[d])],
    base |-> IF s.base = "none" THEN t.base ELSE s.base ]

(***************************************************************************)
(* InvarianceInfo: a sequence of scalars.                                  *)
(***************************************************************************)
Verdict(width, kind) == [l \in 1 .. width |-> Scalar(kind)]

ResetPointer(v, base) == [l \in DOMAIN v |-> [v[l] EXCEPT !.base = base]]

\* Base pointers are not compared.
Same(v, w) ==
  /\ Len(v) = Len(w)
  /\ \A l \in DOMAIN v : v[l].kind = w[l].kind

\* operator&=: of an operand of another width, the first lane counts.
MeetVerdict(v, w) ==
  CASE Len(v) = Len(w) -> [l \in DOMAIN v |-> MeetScalar(v[l], w[l])]
    [] Len(v) = 1 /\ Len(w) > 1 -> <<MeetScalar(v[1], w[1])>>
    [] Len(w) = 1 /\ Len(v) > 1 -> [l \in DOMAIN v |-> MeetScalar(v[l], w[1])]
    [] OTHER -> v

\* operator|=, of verdicts of one width.
JoinVerdict(v, w) == [l \in DOMAIN v |-> JoinScalar(v[l], w[l])]

Scalars(bases) == [kind : [Dims -> Kinds], base : bases]
Verdicts(bases) == Seq(Scalars(bases))

-----------------------------------------------------------------------------
\* How much is still open: a verdict may only sink.
Rank(kind) == CASE kind = "NonInvariant"      -> 0
                [] kind = "MaybeNonInvariant" -> 1
                [] kind = "Invariant"         -> 2
                [] kind = "Unknown"           -> 3

Below(v, w) ==
  /\ Len(v) = Len(w)
  /\ \A l \in DOMAIN v : \A d \in Dims : Rank(v[l].kind[d]) <= Rank(w[l].kind[d])
=============================================================================
