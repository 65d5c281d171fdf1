------------------------ MODULE MCThreadInvariance ------------------------
(***************************************************************************)
(* Small functions for the data-flow analysis.  Every one computes l0 and  *)
(* l1, the local ids, and u, a value no id has a part in; what is stored,  *)
(* compared and merged hangs on one of them.                               *)
(***************************************************************************)
EXTENDS ThreadInvariance

I(name, op, args, width, with) ==
  [name |-> name, op |-> op, args |-> args, width |-> width, with |-> with]
Op(name, args)        == I(name, "op", args, 1, "")
Phi(name, args, from) == I(name, "phi", args, 1, from)
Load(name, ptr)       == I(name, "load", <<ptr>>, 1, "")
Store(name, value, ptr, space) == I(name, "store", <<value, ptr>>, 1, space)
Alloca(name)          == I(name, "alloca", <<>>, 1, "static")
Lane(name, x, lane)   == I(name, "extract", <<x, "const">>, 1, lane)
Br(name, cond)        == I(name, "br", cond, 1, "")
Ret                   == I("ret", "other", <<>>, 1, "")

Ids == << I("id", "local_id", <<>>, MaxAxis, ""), Lane("l0", "id", 1),
          Lane("l1", "id", MaxAxis), Op("u", <<"arg", "const">>) >>

Function(kernel, code, succ) ==
  LET all == FlattenSeq(code) IN
  [ layout |-> [b \in DOMAIN code |-> b], succ |-> succ,
    code |-> [b \in DOMAIN code |-> [k \in DOMAIN code[b] |-> code[b][k].name]],
    instr |-> [x \in {i.name : i \in Range(all)} |-> CHOOSE i \in Range(all) : i.name = x],
    kernel |-> kernel, args |-> {"arg", "ptr"}, pointers |-> {"ptr"}, globals |-> {"tile"} ]

\* if (cond) x = 2, else x = 3; use x.
Diamond(kernel, cond) ==
  Function(kernel,
    << Ids \o <<Op("c", <<cond, "const">>), Br("b1", <<"c">>)>>,
       <<Op("x2", <<"u">>), Br("b2", <<>>)>>,
       <<Br("b3", <<>>)>>,
       <<Phi("p", <<"x2", "const">>, <<2, 3>>), Op("y", <<"p", "l1">>), Ret>> >>,
    << <<2, 3>>, <<4>>, <<4>>, <<>> >>)

\* if (cond) { r = p[0]; p[r] = value; } y = p[0], for memory of any kind;
\* y is read through a pointer of block b.
Memory(cond, value, ptr, space, b) ==
  LET gep == <<Op("gep0", <<ptr, "const">>)>> IN
  Function(TRUE,
    << Ids \o <<Alloca("a"), Store("s0", "const", ptr, space)>> \o (IF b = 1 THEN gep ELSE <<>>)
           \o <<Op("c", <<cond>>), Br("b1", <<"c">>)>>,
       << Load("r", ptr), Op("gep", <<ptr, "r">>), Store("s", value, "gep", space),
          Br("b2", <<>>)>>,
       (IF b = 3 THEN gep ELSE <<>>) \o <<Load("y", "gep0"), Op("z", <<"y", "u">>), Ret>> >>,
    << <<2, 3>>, <<3>>, <<>> >>)

\* for (i = 0; i < bound; i += step) a += i; use of both.
LoopFunction(bound, step) ==
  Function(TRUE,
    << Ids \o <<Alloca("a"), Store("s0", "const", "a", "private"), Br("b1", <<>>)>>,
       <<Phi("i", <<"const", "i2">>, <<1, 3>>), Op("c", <<"i", bound>>), Br("b2", <<"c">>)>>,
       << Load("sum", "a"), Op("sum2", <<"sum", "i">>), Store("s", "sum2", "a", "private"),
          Op("i2", <<"i", step>>), Br("b3", <<>>)>>,
       <<Load("y", "a"), Op("z", <<"y", "u">>), Ret>> >>,
    << <<2>>, <<3, 4>>, <<2>>, <<>> >>)

\* do x += step while (x < u), in one block.
DoFunction(step) ==
  Function(TRUE,
    << Ids \o <<Br("b1", <<>>)>>,
       << Phi("x", <<"const", "x2">>, <<1, 2>>), Op("y", <<"x", "u">>), Op("x2", <<"x", step>>),
          Op("c", <<"x2", "u">>), Br("b2", <<"c">>)>>,
       <<Op("z", <<"y", "l1">>), Ret>> >>,
    << <<2>>, <<2, 3>>, <<>> >>)

\* Vectors taken apart and put together, and an atomic on shared memory.
VectorFunction(space) ==
  Function(TRUE,
    << Ids \o << I("gid", "global_id", <<>>, MaxAxis, ""), I("grp", "group_id", <<>>, MaxAxis, ""),
                 Lane("g", "grp", 2), I("v", "insert", <<"undef", "l1">>, MaxAxis, 1),
                 I("v2", "insert", <<"v", "g">>, MaxAxis, 2),
                 I("sh", "shuffle", <<"v2", "gid">>, MaxAxis, <<0, MaxAxis + 1>>),
                 I("splat", "shuffle", <<"v2", "gid">>, MaxAxis, [l \in 1 .. MaxAxis |-> 1]),
                 I("sum", "op", <<"sh", "grp", "splat">>, MaxAxis, ""),
                 I("old", "atomic", <<IF space = "local" THEN "tile" ELSE "ptr", "u">>, 1, space),
                 Store("st", "g", "tile", "local"), Br("b1", <<>>)>>,
       << I("wide", "load", <<"ptr">>, MaxAxis, ""), Lane("e", "sum", 2),
          Op("s", <<"e", "old">>), Br("b2", <<"s">>)>>,
       << Load("t", "tile"), I("dyn", "alloca", <<>>, 1, "dynamic"),
          Store("sd", "t", "dyn", "private"), Br("b3", <<>>)>>,
       << I("call", "other", <<"u">>, 1, ""), Ret>> >>,
    << <<2>>, <<3, 4>>, <<4>>, <<>> >>)

\* Whether a store is run, and what it stores: a branch on an id must not be
\* all that the memory hangs on.
Hangs == {<<"u", "u">>, <<"u", "l0">>, <<"l0", "l0">>}

MCFunctions ==
  {Diamond(k, c) : k \in BOOLEAN, c \in {"l0", "u"}}
  \cup {Memory(cv[1], cv[2], "a", "private", 3) : cv \in Hangs}
  \cup {Memory("u", v, "ptr", "private", 3) : v \in {"l0", "u"}}
  \cup {Memory("u", v, "tile", "local", 1) : v \in {"l0", "u"}}
  \cup {LoopFunction(ns[1], ns[2]) : ns \in Hangs}
  \cup {DoFunction(s) : s \in {"u", "l0"}}
  \cup {VectorFunction(s) : s \in {"local", "global"}}

\* if (l0) x = 1; else if (u) x = 2; else x = 3; with one join.
NestedFunctions ==
  { Function(TRUE,
      << Ids \o <<Op("c", <<"l0">>), Br("b1", <<"c">>)>>,
         <<Op("d", <<"u">>), Br("b2", <<"d">>)>>,
         <<Br("b3", <<>>)>>, <<Br("b4", <<>>)>>,
         <<Phi("p", <<"const", "u", "arg">>, <<1, 3, 4>>), Ret>> >>,
      << <<5, 2>>, <<3, 4>>, <<5>>, <<5>>, <<>> >>) }

\* do { if (last) p = 1; last = x; x = x + l0 } while (u).
LateFunctions ==
  { Function(TRUE,
      << Ids \o <<Br("b1", <<>>)>>,
         << Phi("last", <<"const", "x">>, <<1, 5>>), Phi("x", <<"const", "x2">>, <<1, 5>>),
            Op("c", <<"last">>), Br("b2", <<"c">>)>>,
         <<Br("b3", <<>>)>>,
         <<Phi("p", <<"const", "arg">>, <<2, 3>>), Br("b4", <<>>)>>,
         <<Op("x2", <<"x", "l0">>), Op("d", <<"u">>), Br("b5", <<"d">>)>>,
         <<Ret>> >>,
      << <<2>>, <<3, 4>>, <<4>>, <<5>>, <<2, 6>>, <<>> >>) }

\* int4 v = ids; use of v.y, read back from memory.
SlotFunctions ==
  { Function(TRUE,
      << Ids \o << Alloca("a"), Store("s", "id", "a", "private"),
                   I("v", "load", <<"a">>, MaxAxis, ""), Lane("y", "v", 2), Ret>> >>,
      << <<>> >>) }

\* int2 v = ids.yx;
ShuffleFunctions ==
  { Function(TRUE,
      << Ids \o <<I("v", "shuffle", <<"id", "id">>, MaxAxis, <<2, 1>>), Lane("y", "v", 1), Ret>> >>,
      << <<>> >>) }

\* A store of what no id has a part in, under a branch or in a loop that
\* hangs on one.
GuardedStoreFunctions == {Memory("l1", "u", "a", "private", 3), LoopFunction("l0", "u")}

\* i = 0; do i += u while (i < l0); use of i.
TripCountFunctions ==
  { Function(TRUE,
      << Ids \o <<Br("b1", <<>>)>>,
         << Phi("i", <<"const", "i2">>, <<1, 2>>), Op("i2", <<"i", "u">>),
            Op("c", <<"i2", "l0">>), Br("b2", <<"c">>)>>,
         <<Op("y", <<"i2">>), Ret>> >>,
      << <<2>>, <<2, 3>>, <<>> >>) }

\* int *q = &a[0]; if (u) a[r] = l0; y = *q;
PointerFunctions == {Memory("u", "l0", "a", "private", 1)}
=============================================================================
