------------------------------ MODULE SsaForm ------------------------------
(***************************************************************************)
(* Functions in static single assignment form, and what a block of one     *)
(* computes.  Their graphs are those of Cfg; an instruction is a record    *)
(* [op, name, args, slot]: the arguments of a phi are a function of the    *)
(* incoming blocks, and the last instruction of a block is its branch.     *)
(***************************************************************************)
EXTENDS Cfg, Integers

CONSTANTS
  Given,   \* Given[x]: the value of constant or argument x
  Modulus  \* values are 0 .. Modulus - 1

Undef == Modulus

NoSlot == <<>>
Load(x, slot)  == [op |-> "load", name |-> x, args |-> <<>>, slot |-> slot]
Store(x, slot) == [op |-> "store", name |-> "", args |-> <<x>>, slot |-> slot]

IsPhi(i) == i.op = "phi"
Uses(i) == Range(i.args)

Instructions(f) == UNION {Range(f.code[b]) : b \in Blocks(f)}
Names(f) == {i.name : i \in Instructions(f)} \ {""}
Slots(f) == {i.slot : i \in Instructions(f)} \ {NoSlot}

\* Where the value itself is computed, not where it is reloaded.
IsOwn(i, x) == i.name = x /\ i.slot = NoSlot

BlockOf(f, x) == CHOOSE b \in Blocks(f) : \E i \in Range(f.code[b]) : IsOwn(i, x)

\* The first place behind the PHIs.
FirstNonPhi(code) == CHOOSE p \in DOMAIN code :
  ~IsPhi(code[p]) /\ \A q \in 1 .. p - 1 : IsPhi(code[q])

BeforeBranch(code, i) == InsertAt(code, Len(code), i)

-----------------------------------------------------------------------------
Fresh(names) ==
  [x \in names \cup DOMAIN Given |-> IF x \in DOMAIN Given THEN Given[x] ELSE Undef]

\* Any function of the arguments that tells them apart well enough.
Apply(env, args) ==
  IF \E k \in DOMAIN args : env[args[k]] = Undef THEN Undef
  ELSE FoldLeft(LAMBDA n, x : (2 * n + env[x]) % Modulus, 1, args)

(***************************************************************************)
(* What the instructions do to registers and memory when the block is      *)
(* entered from another; the PHIs take their values all at once.           *)
(***************************************************************************)
Run(code, from, env, mem) ==
  FoldLeft(LAMBDA s, i :
             CASE IsPhi(i)       -> [s EXCEPT !.env[i.name] = env[i.args[from]]]
               [] i.op = "load"  -> [s EXCEPT !.env[i.name] = s.mem[i.slot]]
               [] i.op = "store" -> [s EXCEPT !.mem[i.slot] = s.env[i.args[1]]]
               [] OTHER          -> [s EXCEPT !.env[i.name] = Apply(s.env, i.args)],
           [env |-> env, mem |-> mem], code)
=============================================================================
