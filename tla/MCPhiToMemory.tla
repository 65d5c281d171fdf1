--------------------------- MODULE MCPhiToMemory ---------------------------
(***************************************************************************)
(* Kernels whose PHIs feed each other, branches and later blocks.          *)
(***************************************************************************)
EXTENDS PhiToMemory, TLC

MCGiven == ("k0" :> 0) @@ ("k1" :> 1) @@ ("arg" :> 2)
MCLocalSize == <<2, 3, 2>>

Op(name, args)  == [op |-> "op", name |-> name, args |-> args, slot |-> NoSlot]
Phi(name, args) == [op |-> "phi", name |-> name, args |-> args, slot |-> NoSlot]
Br(name, args)  == [op |-> "br", name |-> name, args |-> args, slot |-> NoSlot]
Barrier(name)   == [op |-> "barrier", name |-> name, args |-> <<>>, slot |-> NoSlot]

Kernel(code, succ) ==
  [layout |-> [b \in DOMAIN code |-> b], code |-> code, succ |-> succ]

EntryBlock == << Barrier("bar0"), Br("b0", <<>>) >>

\* Two values change places in every turn of a loop of one block.
Swap == Kernel(
  << EntryBlock,
     << Phi("p", 1 :> "k0" @@ 2 :> "q"), Phi("q", 1 :> "k1" @@ 2 :> "p"),
        Op("c", <<"p">>), Br("b1", <<"c">>) >>,
     << Op("x", <<"p", "q">>), Br("ret", <<>>) >> >>,
  << <<2>>, <<2, 3>>, <<>> >>)

\* The branch of the header decides about a barrier: it hangs on i, by way of
\* d on j, and not on s, which is used in and behind the loop.
BarrierLoop == Kernel(
  << EntryBlock,
     << Phi("j", 1 :> "k1" @@ 3 :> "j2"), Phi("s", 1 :> "arg" @@ 3 :> "s2"),
        Phi("i", 1 :> "k0" @@ 3 :> "i2"), Op("t", <<"s", "i">>),
        Op("d", <<"j">>), Op("c", <<"i", "d">>), Br("b1", <<"c">>) >>,
     << Barrier("bar1"), Op("i2", <<"i", "t">>), Op("j2", <<"i">>),
        Op("s2", <<"t", "s">>), Br("b2", <<>>) >>,
     << Op("x", <<"s", "t">>), Br("ret", <<>>) >> >>,
  << <<2>>, <<3, 4>>, <<2>>, <<>> >>)

\* The first branch goes straight to the join; PHIs of the join, one unused,
\* are used again behind it.
Triangle == Kernel(
  << EntryBlock,
     << Op("a", <<"arg">>), Op("e", <<"a", "k1">>), Op("c", <<"a", "k0">>), Br("b1", <<"c">>) >>,
     << Op("b", <<"a">>), Br("b2", <<>>) >>,
     << Phi("p", 2 :> "a" @@ 3 :> "b"), Phi("u", 2 :> "k0" @@ 3 :> "a"),
        Phi("q", 2 :> "k1" @@ 3 :> "c"), Op("d", <<"q">>), Br("b3", <<"d">>) >>,
     << Barrier("bar1"), Br("b4", <<>>) >>,
     << Phi("r", 4 :> "p" @@ 5 :> "q"), Op("x", <<"r", "p", "e">>), Br("ret", <<>>) >> >>,
  << <<2>>, <<3, 4>>, <<4>>, <<5, 6>>, <<6>>, <<>> >>)

\* A loop in a loop: the inner header and the outer latch both decide about
\* the barrier, and their PHIs feed each other.
Nested == Kernel(
  << EntryBlock,
     << Phi("o", 1 :> "k0" @@ 5 :> "n"), Phi("m", 1 :> "arg" @@ 5 :> "v"), Br("b1", <<>>) >>,
     << Phi("n", 2 :> "o" @@ 4 :> "w"), Phi("v", 2 :> "m" @@ 4 :> "n"),
        Op("c", <<"v">>), Br("b2", <<"c">>) >>,
     << Barrier("bar1"), Op("w", <<"n", "m">>), Br("b3", <<>>) >>,
     << Op("e", <<"n">>), Op("y", <<"v", "o">>), Br("b4", <<"e">>) >>,
     << Op("x", <<"y", "n">>), Br("ret", <<>>) >> >>,
  << <<2>>, <<3>>, <<4, 5>>, <<3>>, <<2, 6>>, <<>> >>)

MCFunctions == {Swap, BarrierLoop, Triangle, Nested}

\* Two work-items of the group run, whose slots are next to each other or
\* would be the same if a stride of FlatIdx were wrong.
Pairs ==
  IF source = Swap
    THEN {{<<1, 0, 0>>, <<0, 1, 0>>}, {<<0, 1, 0>>, <<0, 0, 1>>},
          {<<0, 2, 0>>, <<0, 0, 1>>}, {<<1, 1, 0>>, <<0, 0, 1>>}}
    ELSE {{<<1, 2, 0>>, <<0, 0, 1>>}}

TwoRun ==
  stage = "run" /\ pass = "context_spill" =>
    \E pair \in Pairs : {w \in WorkItems : at[w] # 0} \subseteq pair
=============================================================================
