--------------------------- MODULE HiveOffBarrier ---------------------------
(***************************************************************************)
(* The pass that gives every barrier a basic block of its own              *)
(* (HiveOffBarrier in hive_off_barrier.cpp).  A function is its basic      *)
(* blocks in layout order; SplitBlock puts the new block right behind the  *)
(* old one, so the branch it adds leads to the next block in the layout.   *)
(* The barriers are processed in the order of a SmallPtrSet, that is of    *)
(* their addresses: any order.                                             *)
(***************************************************************************)
EXTENDS Naturals, Sequences, SequencesExt

CONSTANT Functions  \* the functions the pass is run on

(***************************************************************************)
(* An instruction is a record [op, id].  "jump" is a terminator with       *)
(* successors, "ret" one without, "br" the branch SplitBlock adds; the     *)
(* rest is "barrier" or "other".                                           *)
(***************************************************************************)
Ops == {"barrier", "other", "br", "jump", "ret"}

IsBarrier(i) == i.op = "barrier"

\* A terminator ends each block and is nowhere else; an id is a place.
ASSUME FunctionsAssumption ==
  \A f \in Functions :
    /\ f \in Seq(Seq([op : Ops \ {"br"}, id : Nat \X Nat]))
    /\ f # << >>
    /\ \A n \in DOMAIN f :
         /\ f[n] # << >>
         /\ \A p \in DOMAIN f[n] :
              /\ f[n][p].id = <<n, p>>
              /\ f[n][p].op \in {"jump", "ret"} <=> p = Len(f[n])

Br == [op |-> "br", id |-> <<0, 0>>]
EntryBarrier == [op |-> "barrier", id |-> <<0, 0>>]
ExitBarrier(ret) == [op |-> "barrier", id |-> <<0, ret.id[1]>>]

VARIABLES
  source,  \* the function as it was given
  blocks,  \* the function's blocks
  pc,      \* the phase of runOnFunction
  scan,    \* the block the search for exits has come to
  todo     \* the barriers of BarrierSet still to be processed

vars == <<source, blocks, pc, scan, todo>>

-----------------------------------------------------------------------------
JustABarrier(b) == Len(b) = 2 /\ IsBarrier(b[1])

EndsWithBarrier(b) == Len(b) > 1 /\ IsBarrier(b[Len(b) - 1])

\* Block i of bs, cut in front of its p-th instruction.
SplitBlock(bs, i, p) ==
  SubSeq(bs, 1, i - 1)
  \o << Append(SubSeq(bs[i], 1, p - 1), Br), SubSeq(bs[i], p, Len(bs[i])) >>
  \o SubSeq(bs, i + 1, Len(bs))

\* A slip: createBarrier called with InsertAtEnd.
BarrierAtEnd(bs, i, barrier) == [bs EXCEPT ![i] = Append(@, barrier)]

\* createBarrier, in front of the terminator of block i.
CreateBarrier(bs, i, barrier) ==
  [bs EXCEPT ![i] = InsertAt(@, Len(@), barrier)]

\* A slip: the barrier goes to the half that is not the exit any more.
BarrierInOldHalf(bs, i, barrier) ==
  LET s == SplitBlock(bs, i, Len(bs[i])) IN CreateBarrier(s, i, barrier)

\* An exit block with code in it, cut so that its barrier is with the return.
SplitExit(bs, i, barrier) ==
  IF EndsWithBarrier(bs[i])
  THEN SplitBlock(bs, i, Len(bs[i]) - 1)
  ELSE LET s == SplitBlock(bs, i, Len(bs[i])) IN CreateBarrier(s, i + 1, barrier)

Instructions(bs) == UNION {Range(bs[n]) : n \in DOMAIN bs}

Block(bs, i) == CHOOSE n \in DOMAIN bs : i \in Range(bs[n])

Position(b, i) == CHOOSE p \in DOMAIN b : b[p] = i

\* Slips: what follows the barrier stays with it, or a branch does not.
NoSplitAfter(bs, i, p) == bs
AlwaysSplitAfter(bs, i, p) == SplitBlock(bs, i, p + 1)

SplitAfterBarrier(bs, i, p) ==
  IF p + 1 = Len(bs[i]) THEN bs ELSE SplitBlock(bs, i, p + 1)

SplitBeforeBarrier(bs, i, p) ==
  IF i = 1 /\ p = 1 THEN bs ELSE SplitBlock(bs, i, p)

-----------------------------------------------------------------------------
TypeOK ==
  /\ source \in Functions
  /\ \A n \in DOMAIN blocks : \A p \in DOMAIN blocks[n] :
       /\ blocks[n][p].op \in Ops
       /\ blocks[n][p].op \in {"br", "jump", "ret"} <=> p = Len(blocks[n])
  /\ pc \in {"entry", "exits", "split", "done"}
  /\ scan \in 1 .. Len(blocks) + 1
  /\ todo \subseteq {i \in Instructions(blocks) : IsBarrier(i)}

Init ==
  /\ source \in Functions
  /\ blocks = source
  /\ pc = "entry"
  /\ scan = 1
  /\ todo = {}

\* The function's entry becomes a barrier block.
HiveOffEntry ==
  /\ pc = "entry"
  /\ blocks' = IF JustABarrier(blocks[1]) THEN blocks
               ELSE CreateBarrier(SplitBlock(blocks, 1, 1), 1, EntryBarrier)
  /\ pc' = "exits"
  /\ UNCHANGED <<source, scan, todo>>

\* So does each of its exits; a block made here is the next one scanned.
HiveOffExit ==
  LET b == blocks[scan]
  IN
  /\ pc = "exits"
  /\ scan <= Len(blocks)
  /\ blocks' = IF Last(b).op = "ret" /\ ~JustABarrier(b)
               THEN SplitExit(blocks, scan, ExitBarrier(Last(b)))
               ELSE blocks
  /\ scan' = scan + 1
  /\ UNCHANGED <<source, pc, todo>>

CollectBarriers ==
  /\ pc = "exits"
  /\ scan > Len(blocks)
  /\ todo' = {i \in Instructions(blocks) : IsBarrier(i)}
  /\ pc' = "split"
  /\ scan' = 1
  /\ UNCHANGED <<source, blocks>>

\* One turn of the loop over BarrierSet.
ProcessBarrier(i) ==
  LET n == Block(blocks, i)
      p == Position(blocks[n], i)
  IN
  /\ pc = "split"
  /\ i \in todo
  /\ blocks' = SplitBeforeBarrier(SplitAfterBarrier(blocks, n, p), n, p)
  /\ todo' = todo \ {i}
  /\ UNCHANGED <<source, pc, scan>>

Finish ==
  /\ pc = "split"
  /\ todo = {}
  /\ pc' = "done"
  /\ UNCHANGED <<source, blocks, scan, todo>>

Done == pc = "done" /\ UNCHANGED vars

Next ==
  \/ HiveOffEntry \/ HiveOffExit \/ CollectBarriers
  \/ \E i \in todo : ProcessBarrier(i)
  \/ Finish \/ Done

Spec == Init /\ [][Next]_vars

-----------------------------------------------------------------------------
(***************************************************************************)
(* What the pass promises.                                                 *)
(***************************************************************************)
\* What is left of f: all its instructions, a barrier in front of everything
\* and one in front of each return that has none.
Wanted(f) ==
  Instructions(f)
  \cup (IF JustABarrier(f[1]) THEN {} ELSE {EntryBarrier})
  \cup {ExitBarrier(Last(f[n])) :
          n \in {m \in DOMAIN f : Last(f[m]).op = "ret" /\ ~EndsWithBarrier(f[m])}}

\* The block of the source an instruction belongs to; 0 is in front of all.
Home(i) == IF i.id[1] = 0 THEN i.id[2] ELSE i.id[1]

\* i comes before j there; a barrier added for a return, just before that.
InFront(i, j) ==
  \/ Home(i) < Home(j)
  \/ /\ Home(i) = Home(j)
     /\ IF i.id[1] = 0 THEN j.op = "ret"
        ELSE IF j.id[1] = 0 THEN i.op # "ret"
        ELSE i.id[2] < j.id[2]

InOrder(bs) ==
  \A m, n \in DOMAIN bs : \A q \in DOMAIN bs[m], r \in DOMAIN bs[n] :
    /\ m < n \/ (m = n /\ q < r)
    /\ bs[m][q] # Br /\ bs[n][r] # Br
    => InFront(bs[m][q], bs[n][r])

\* The source is cut between an instruction and the next in front of a
\* barrier, behind one unless a terminator follows, and in front of a return.
Joined(i, j) ==
  /\ ~IsBarrier(j)
  /\ IsBarrier(i) => j.op \in {"jump", "ret"}
  /\ j.op = "ret" => IsBarrier(i)

\* Every barrier is alone in its block (the assertion of verifyAnalysis,
\* hive_off_barrier.cpp:159), the entry is a barrier block and so is each
\* exit (the assertion of gatherParallelRegions, LoopInserter.cpp:225).
BarriersIsolated ==
  pc = "done" =>
    /\ \A n \in DOMAIN blocks : (\E i \in Range(blocks[n]) : IsBarrier(i))
                                  => JustABarrier(blocks[n])
    /\ JustABarrier(blocks[1])
    /\ \A n \in DOMAIN blocks : Last(blocks[n]).op = "ret"
                                  => JustABarrier(blocks[n])

\* Whatever the order of BarrierSet, the function comes out the same up to
\* blocks that hold nothing but an added branch: no instruction is lost,
\* copied or moved across another, and the cuts are where a barrier asks for
\* one and nowhere else (runOnFunction and ProcessBarrier).
ResultIsCanonical ==
  pc = "done" =>
    /\ Instructions(blocks) \ {Br} = Wanted(source)
    /\ InOrder(blocks)
    /\ \A n \in DOMAIN source : \A p \in 1 .. Len(source[n]) - 1 :
         (\E b \in Range(blocks) : {source[n][p], source[n][p + 1]} \subseteq Range(b))
           <=> Joined(source[n][p], source[n][p + 1])

\* A block left empty leads to a barrier: no parallel region of real code
\* starts with one (SplitBlockBeforeBarrier, and the FIXME at line 115).
EmptyLeadsToBarrier ==
  pc = "done" =>
    \A n \in DOMAIN blocks : blocks[n] = <<Br>> =>
      \E m \in DOMAIN blocks :
        /\ m > n /\ JustABarrier(blocks[m])
        /\ \A j \in n .. m - 1 : blocks[j] = <<Br>>

\* The scan for exits comes to the blocks it makes and leaves them alone:
\* it ends (the loop at hive_off_barrier.cpp:57 over a function that grows).
ScanEnds ==
  pc = "exits" =>
    Len(blocks) <= Len(source) + 1
                   + Cardinality({n \in DOMAIN source : Last(source[n]).op = "ret"})
=============================================================================
