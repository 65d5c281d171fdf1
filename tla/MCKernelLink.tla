---------------------------- MODULE MCKernelLink ----------------------------
(***************************************************************************)
(* Two kernels: one takes a char and a pointer, one a short;               *)
(* the block of arguments is filled in two ways.                           *)
(***************************************************************************)
EXTENDS KernelLink

CONSTANTS c0, c1

MCCores == {c0, c1}
Scalar(bits) == [pointer |-> FALSE, bits |-> bits]
Pointer == [pointer |-> TRUE, bits |-> 0]

MCNumArgs == [k \in 0 .. 1 |-> IF k = 0 THEN 2 ELSE 1]
MCArgType ==
  [k \in 0 .. 1 |->
     IF k = 0 THEN [a \in 0 .. 1 |-> IF a = 0 THEN Scalar(8) ELSE Pointer]
     ELSE [a \in {0} |-> Scalar(16)]]
MCArgOffset ==
  [k \in 0 .. 1 |-> [a \in 0 .. 5 |->
     CASE a = 0 -> 0
       [] k = 0 /\ a = 1 -> 1
       [] k = 1 /\ a = 1 -> 2
       [] OTHER -> 5]]
MCByte == {"a", "b"} \X (0 .. 4)
MCBlocks == {[i \in 0 .. 4 |-> <<fill, i>>] : fill \in {"a", "b"}}
=============================================================================
