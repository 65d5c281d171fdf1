----------------------------- MODULE MCKernels -----------------------------
(***************************************************************************)
(* Kernels for checking the barrier and region passes: small structured    *)
(* programs, compiled to the graphs mem2reg, mergereturn, simplifycfg and  *)
(* loop-simplify leave.                                                    *)
(***************************************************************************)
EXTENDS Naturals, Sequences, SequencesExt

\* Statements.  "code" may differ between work-items, "cond" is uniform; a
\* branch or loop that guards a barrier is uniform.
Code == [t |-> "op", op |-> "code"]
Bar  == [t |-> "op", op |-> "barrier"]
Cond == [t |-> "op", op |-> "cond"]
IfElse(c, a, b) == [t |-> "if", c |-> c, a |-> a, b |-> b]
If(a)           == IfElse(Cond, a, << >>)
Diverge(a)      == IfElse(Code, a, << >>)
While(a)        == [t |-> "while", c |-> Cond, a |-> a]
WhileDiverge(a) == [t |-> "while", c |-> Code, a |-> a]
Do(a)           == [t |-> "do", c |-> Cond, a |-> a]
Leave(a, to)    == [t |-> "leave", c |-> Cond, a |-> a, to |-> to]
Break           == Leave(<< >>, "exit")
BreakAfter(a)   == Leave(a, "exit")
Return(a)       == Leave(a, "return")

(***************************************************************************)
(* The compiler's state: the blocks so far, the one being filled, where a  *)
(* break leads, and where the code behind an arm goes on (the last if of   *)
(* an arm has no join of its own).  A return leads to 0.                   *)
(***************************************************************************)
Emit(s, x) == [s EXCEPT !.code[s.cur] =
                 Append(@, [op |-> x.op, id |-> 100 * s.cur + Len(@) + 1])]
Grow(s, k) == [s EXCEPT !.code = @ \o [i \in 1 .. k |-> << >>],
                        !.succ = @ \o [i \in 1 .. k |-> << >>]]
Link(s, to) == [s EXCEPT !.succ[s.cur] = to]
Go(s, n)    == [s EXCEPT !.cur = n]

RECURSIVE Compile(_, _)

Arm(s, n, a, j) ==
  LET t == Compile([Go(s, n) EXCEPT !.join = j], a)
  IN IF t.cur = j THEN t ELSE Link(t, <<j>>)

Loop(s, n, a, exit) == Compile([Go(s, n) EXCEPT !.exit = exit, !.join = 0], a)

CompileStatement(s, x) ==
  LET n == Len(s.code)
  IN
  CASE x.t = "op" -> Emit(s, x)
    [] x.t = "if" ->
       LET arms == IF x.b = << >> THEN 1 ELSE 2
           j    == IF s.join = 0 THEN n + arms + 1 ELSE s.join
           s1   == Grow(s, IF s.join = 0 THEN arms + 1 ELSE arms)
           s2   == Link(Emit(s1, x.c), <<n + 1, IF arms = 1 THEN j ELSE n + 2>>)
           s3   == Arm(s2, n + 1, x.a, j)
       IN Go(IF arms = 1 THEN s3 ELSE Arm(s3, n + 2, x.b, j), j)
    [] x.t = "while" ->
       LET s1 == Go(Link(Grow(s, 3), <<n + 1>>), n + 1)
           s2 == Link(Emit(s1, x.c), <<n + 2, n + 3>>)
           s3 == Link(Loop(s2, n + 2, x.a, n + 3), <<n + 1>>)
       IN [Go(s3, n + 3) EXCEPT !.exit = s.exit]
    [] x.t = "do" ->
       LET s1 == Link(Grow(s, 2), <<n + 1>>)
           s2 == Loop(s1, n + 1, x.a, n + 2)
           s3 == Link(Emit(s2, x.c), <<n + 1, n + 2>>)
       IN [Go(s3, n + 2) EXCEPT !.exit = s.exit]
    [] x.t = "leave" ->
       LET out  == IF x.to = "exit" THEN s.exit ELSE 0
           arm  == IF x.a = << >> THEN 0 ELSE 1
           next == IF s.join = 0 THEN n + arm + 1 ELSE s.join
           s1   == Grow(s, IF s.join = 0 THEN arm + 1 ELSE arm)
           s2   == Link(Emit(s1, x.c), <<IF arm = 0 THEN out ELSE n + 1, next>>)
       IN Go(IF arm = 0 THEN s2 ELSE Arm(s2, n + 1, x.a, out), next)

Compile(s, body) ==
  FoldLeft(LAMBDA t, i : CompileStatement([t EXCEPT !.join = IF i = Len(body)
                                                            THEN s.join ELSE 0],
                                          body[i]),
           s, [i \in DOMAIN body |-> i])

\* One block returns (mergereturn): the last, or one of its own.
MakeFunction(body) ==
  LET s   == Compile([code |-> << << >> >>, succ |-> << << >> >>,
                      cur |-> 1, exit |-> 0, join |-> 0], body)
      ret == Len(s.code) + 1
      t   == IF \E n \in DOMAIN s.succ : 0 \in Range(s.succ[n])
             THEN Link(Grow(s, 1), <<ret>>) ELSE s
  IN [ layout |-> [n \in DOMAIN t.code |-> n],
       code   |-> t.code,
       succ   |-> [n \in DOMAIN t.succ |-> ReplaceAll(t.succ[n], 0, ret)] ]

\* The kernels of Tests/forifbarrier1.cl, ms51 and natlop_2exits, others, and
\* last the one of kernel_26ab1acf10f33a2a19ebb171cec0a30c.
Programs ==
  << <<While(<<Bar, Code>>)>>,
     <<Code, While(<<Code, While(<<Code, Bar>>), Code>>), Code>>,
     <<Code, While(<<Bar, Code, While(<<Code, Bar>>), Code>>), Code>>,
     <<Code, While(<<Code, Bar, Code, Bar, Code>>), Code>>,
     <<Code, Do(<<BreakAfter(<<Code>>), Code, Bar>>), Code>>,
     <<Code, IfElse(Cond, <<Code, While(<<Code, Bar, Code>>)>>, <<Code>>), Code>>,
     <<Code, While(<<If(<<Code>>), Bar, Code>>), Bar, While(<<Code>>), Code>>,
     <<IfElse(Cond, <<Diverge(<<Code>>), Bar>>, <<Code>>), Code>>,
     <<While(<<Code, Return(<<Code>>), Code>>), Bar, Diverge(<<Code>>)>>,

     <<Code, If(<<Code, Bar, Code>>), Code>>,
     <<Code, Do(<<Code, Bar, Code>>), Code>>,
     <<Code, Bar, WhileDiverge(<<Code>>), Code>>,
     <<Code, While(<<If(<<Bar, Code>>), Code>>), Code>>,
     <<Code, While(<<Code, Break, Bar, Code>>), Code>>,
     <<Code, Do(<<Code, Bar, If(<<Code, Bar>>), Code>>), Code>>,
     <<Code, If(<<Code, Bar, If(<<Bar, Code>>)>>), Code>>,
     <<Code, If(<<Code, Bar, If(<<Code>>)>>), Code>>,
     <<Code, If(<<Return(<<Bar, Code>>), Code>>), Bar, Code>>,

     <<Code, WhileDiverge(<<Code>>), Return(<<Diverge(<<Code>>)>>),
       Do(<<Bar, Diverge(<<Code, Diverge(<<Code>>), Code>>), Code>>),
       Diverge(<<Code>>)>> >>
=============================================================================
