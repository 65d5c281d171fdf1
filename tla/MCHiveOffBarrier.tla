-------------------------- MODULE MCHiveOffBarrier --------------------------
(***************************************************************************)
(* Small functions for checking HiveOffBarrier: an entry block, and at     *)
(* most one block it jumps to.                                             *)
(***************************************************************************)
EXTENDS HiveOffBarrier, FiniteSets

CONSTANTS EntryLen, SecondLen  \* the most instructions before a terminator

\* Block n, made of the given operations and terminator.
MakeBlock(n, ops, terminator) ==
  [p \in 1 .. Len(ops) + 1 |->
     [op |-> IF p <= Len(ops) THEN ops[p] ELSE terminator, id |-> <<n, p>>]]

Bodies(n) == BoundedSeq({"barrier", "other"}, n)

MCFunctions ==
  { <<MakeBlock(1, ops, "ret")>> : ops \in Bodies(EntryLen) }
  \cup
  { <<MakeBlock(1, ops1, "jump"), MakeBlock(2, ops2, terminator)>> :
      ops1 \in Bodies(EntryLen), ops2 \in Bodies(SecondLen),
      terminator \in {"jump", "ret"} }
=============================================================================
