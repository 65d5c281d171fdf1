----------------------- MODULE HiveOffBarrier_proofs -----------------------
(***************************************************************************)
(* Proofs about HiveOffBarrier, for every function and every order of      *)
(* BarrierSet.  Blocks are looked at place by place: SplitPlaces says where*)
(* an instruction of a cut function was before, and SplitKeeps that none   *)
(* is lost.  On them rest the three lemmas about the steps, EntryMade,     *)
(* ExitMade and BarrierMade, and on those the invariant IInv.  At the end, *)
(* Reads says how the blocks stand for the source all along; ReadsEntry,   *)
(* ReadsExit and ReadsProcess that the steps keep it so.                   *)
(***************************************************************************)
EXTENDS HiveOffBarrier, SequenceTheorems, FiniteSetTheorems, TLAPS

Instr == [op : Ops, id : Nat \X Nat]
Blocks == Seq(Seq(Instr))

-----------------------------------------------------------------------------
(***************************************************************************)
(* Cutting a block, and putting a barrier into one.                        *)
(***************************************************************************)
LEMMA Additions ==
  /\ Br \in Instr /\ Br.op = "br"
  /\ EntryBarrier \in Instr /\ IsBarrier(EntryBarrier) /\ EntryBarrier.id = <<0, 0>>
  /\ \A ret \in Instr : /\ ExitBarrier(ret) \in Instr
                        /\ IsBarrier(ExitBarrier(ret))
                        /\ ExitBarrier(ret).id = <<0, ret.id[1]>>
BY DEF Br, EntryBarrier, ExitBarrier, Instr, Ops, IsBarrier

\* The halves of a block, instruction by instruction.
FirstHalf(b, p) == Append(SubSeq(b, 1, p - 1), Br)
SecondHalf(b, p)  == SubSeq(b, p, Len(b))

LEMMA Halves ==
  ASSUME NEW b \in Seq(Instr), NEW p \in 1 .. Len(b)
  PROVE  /\ FirstHalf(b, p) \in Seq(Instr) /\ Len(FirstHalf(b, p)) = p
         /\ \A q \in 1 .. p - 1 : FirstHalf(b, p)[q] = b[q]
         /\ FirstHalf(b, p)[p] = Br
         /\ SecondHalf(b, p) \in Seq(Instr) /\ Len(SecondHalf(b, p)) = Len(b) - p + 1
         /\ \A q \in 1 .. Len(b) - p + 1 : SecondHalf(b, p)[q] = b[p + q - 1]
<1> DEFINE head == SubSeq(b, 1, p - 1)
<1>1. /\ head \in Seq(Instr)
      /\ Len(head) = p - 1
      /\ \A q \in 1 .. p - 1 : head[q] = b[q]
  BY SMT
<1>2. /\ SecondHalf(b, p) \in Seq(Instr) /\ Len(SecondHalf(b, p)) = Len(b) - p + 1
      /\ \A q \in 1 .. Len(b) - p + 1 : SecondHalf(b, p)[q] = b[p + q - 1]
  BY SMT DEF SecondHalf
<1> HIDE DEF head
<1>3. /\ Append(head, Br) \in Seq(Instr) /\ Len(Append(head, Br)) = p
      /\ Append(head, Br)[p] = Br /\ \A q \in 1 .. p - 1 : Append(head, Br)[q] = b[q]
  BY <1>1, Additions, SMT
<1> QED BY <1>2, <1>3 DEF head, FirstHalf

\* A member of a sequence replaced by two.
Replaced(bs, i, x, y) ==
  (SubSeq(bs, 1, i - 1) \o << x, y >>) \o SubSeq(bs, i + 1, Len(bs))

\* What a reader of the result sees.
TwoFor(bs, i, x, y, s) ==
  /\ Len(s) = Len(bs) + 1
  /\ \A m \in 1 .. i - 1 : s[m] = bs[m]
  /\ s[i] = x /\ s[i + 1] = y
  /\ \A m \in i + 2 .. Len(bs) + 1 : s[m] = bs[m - 1]

LEMMA TwoForOne ==
  ASSUME NEW S, NEW bs \in Seq(S), NEW i \in 1 .. Len(bs), NEW x \in S, NEW y \in S
  PROVE  /\ Replaced(bs, i, x, y) \in Seq(S)
         /\ TwoFor(bs, i, x, y, Replaced(bs, i, x, y))
<1> DEFINE left  == SubSeq(bs, 1, i - 1)
           two   == << x, y >>
           right == SubSeq(bs, i + 1, Len(bs))
<1>1. left \in Seq(S) /\ Len(left) = i - 1 /\ \A m \in 1 .. i - 1 : left[m] = bs[m]
  BY SMT
<1>2. /\ right \in Seq(S) /\ Len(right) = Len(bs) - i
      /\ \A m \in 1 .. Len(bs) - i : right[m] = bs[i + m]
  BY SMT
<1>3. two \in Seq(S) /\ Len(two) = 2 /\ two[1] = x /\ two[2] = y
  BY SMT
<1> HIDE DEF left, two, right
<1>4. PICK front : front = left \o two
  OBVIOUS
<1>5. /\ front \in Seq(S)
      /\ Len(front) = Len(left) + Len(two)
      /\ \A m \in 1 .. Len(left) + Len(two) :
           front[m] = IF m <= Len(left) THEN left[m] ELSE two[m - Len(left)]
  BY <1>1, <1>3, <1>4, ConcatProperties, Zenon
<1>6. PICK s : s = front \o right
  OBVIOUS
<1>7. /\ s \in Seq(S)
      /\ Len(s) = Len(front) + Len(right)
      /\ \A m \in 1 .. Len(front) + Len(right) :
           s[m] = IF m <= Len(front) THEN front[m] ELSE right[m - Len(front)]
  <2>1. front \in Seq(S) /\ right \in Seq(S)
    BY <1>2, <1>5
  <2> QED BY <2>1, <1>6, ConcatProperties, Zenon
<1>8. Len(front) = i + 1 /\ Len(s) = Len(bs) + 1
  BY <1>1, <1>2, <1>3, <1>5, <1>7, SMT
<1> USE <1>1, <1>2, <1>3, <1>8
<1>9. ASSUME NEW m \in 1 .. i - 1 PROVE s[m] = bs[m]
  <2>1. /\ m \in 1 .. Len(left) + Len(two) /\ m <= Len(left)
        /\ m \in 1 .. Len(front) + Len(right) /\ m <= Len(front)
    BY SMT
  <2>2. front[m] = left[m]
    BY <2>1, <1>5
  <2>3. s[m] = front[m]
    BY <2>1, <1>7
  <2> QED BY <2>2, <2>3
<1>10. s[i] = x /\ s[i + 1] = y
  <2>1. /\ i \in 1 .. Len(left) + Len(two) /\ i + 1 \in 1 .. Len(left) + Len(two)
        /\ i \in 1 .. Len(front) + Len(right) /\ i + 1 \in 1 .. Len(front) + Len(right)
        /\ ~(i <= Len(left)) /\ ~(i + 1 <= Len(left))
        /\ i <= Len(front) /\ i + 1 <= Len(front)
        /\ i - Len(left) = 1 /\ (i + 1) - Len(left) = 2
    BY SMT
  <2>2. front[i] = x /\ front[i + 1] = y
    BY <2>1, <1>5
  <2> QED BY <2>1, <2>2, <1>7
<1>11. ASSUME NEW m \in i + 2 .. Len(bs) + 1 PROVE s[m] = bs[m - 1]
  <2> DEFINE len == Len(bs)
  <2>1. /\ len \in Nat /\ m \in Nat /\ i \in Nat /\ i + 2 <= m /\ m <= len + 1
        /\ Len(right) = len - i
    <3>1. Len(bs) \in Nat
      BY ONLY bs \in Seq(S), LenProperties
    <3>2. Len(right) = Len(bs) - i
      BY <1>2
    <3>3. m \in i + 2 .. Len(bs) + 1 /\ i \in 1 .. Len(bs)
      BY <1>11
    <3>4. /\ m \in Nat /\ i \in Nat /\ i + 2 <= m /\ m <= Len(bs) + 1
      BY ONLY <3>1, <3>3
    <3> QED BY ONLY <3>1, <3>2, <3>4
  <2> HIDE DEF len
  <2>2. /\ m \in 1 .. Len(front) + Len(right) /\ ~(m <= Len(front))
        /\ m - Len(front) \in 1 .. len - i
        /\ i + (m - Len(front)) = m - 1
    BY <2>1, <1>8, SMT
  <2>3. s[m] = right[m - Len(front)]
    BY <2>2, <1>7
  <2> QED BY <2>2, <2>3 DEF len
<1>12. s = Replaced(bs, i, x, y)
  BY <1>4, <1>6, Zenon DEF left, two, right, Replaced
<1> QED BY <1>7, <1>8, <1>9, <1>10, <1>11, <1>12, Zenon DEF TwoFor

\* A cut function, block by block.
LEMMA SplitBlocks ==
  ASSUME NEW bs \in Blocks, NEW i \in 1 .. Len(bs), NEW p \in 1 .. Len(bs[i])
  PROVE  /\ SplitBlock(bs, i, p) \in Blocks
         /\ TwoFor(bs, i, FirstHalf(bs[i], p), SecondHalf(bs[i], p),
                   SplitBlock(bs, i, p))
<1> DEFINE T == Seq(Instr)
<1>1. bs \in Seq(T) /\ bs[i] \in T
  BY DEF Blocks
<1>2. FirstHalf(bs[i], p) \in T /\ SecondHalf(bs[i], p) \in T
  BY <1>1, Halves
<1>3. SplitBlock(bs, i, p) = Replaced(bs, i, FirstHalf(bs[i], p), SecondHalf(bs[i], p))
  BY Zenon DEF SplitBlock, Replaced, FirstHalf, SecondHalf
<1> HIDE DEF T
<1>4. /\ Replaced(bs, i, FirstHalf(bs[i], p), SecondHalf(bs[i], p)) \in Seq(T)
      /\ TwoFor(bs, i, FirstHalf(bs[i], p), SecondHalf(bs[i], p),
                Replaced(bs, i, FirstHalf(bs[i], p), SecondHalf(bs[i], p)))
  BY <1>1, <1>2, TwoForOne, Zenon
<1> QED BY <1>3, <1>4, Zenon DEF Blocks, T

-----------------------------------------------------------------------------
(***************************************************************************)
(* What holds of the blocks all along: each ends with its only terminator, *)
(* and nothing but the added branches occurs twice.                        *)
(***************************************************************************)
Ends(i) == i.op \in {"br", "jump", "ret"}

Shaped(bs) ==
  /\ bs \in Blocks /\ Len(bs) > 0
  /\ \A n \in 1 .. Len(bs) :
       /\ Len(bs[n]) > 0
       /\ \A q \in 1 .. Len(bs[n]) : Ends(bs[n][q]) <=> q = Len(bs[n])

Distinct(bs) ==
  \A n, m \in 1 .. Len(bs) : \A q \in 1 .. Len(bs[n]), r \in 1 .. Len(bs[m]) :
    bs[n][q] = bs[m][r] /\ bs[n][q] # Br => n = m /\ q = r

LEMMA OnePlace ==
  ASSUME NEW bs, Distinct(bs), NEW n \in 1 .. Len(bs), NEW m \in 1 .. Len(bs),
         NEW q \in 1 .. Len(bs[n]), NEW r \in 1 .. Len(bs[m]),
         bs[n][q] = bs[m][r], bs[n][q] # Br
  PROVE  n = m /\ q = r
BY SMTT(20) DEF Distinct

\* Where an instruction of the cut function was before.
OldBlock(i, m) == IF m <= i THEN m ELSE m - 1
OldPlace(i, p, m, q) == IF m = i + 1 THEN p + q - 1 ELSE q

FromOld(bs, i, p, s, m, q, o, r) ==
  /\ o \in 1 .. Len(bs) /\ r \in 1 .. Len(bs[o]) /\ s[m][q] = bs[o][r]
  /\ m = i => q < p /\ Len(s[m]) = p /\ r = q
  /\ m # i => (q = Len(s[m]) <=> r = Len(bs[o]))

LEMMA SplitPlaces ==
  ASSUME NEW bs \in Blocks, NEW i \in 1 .. Len(bs), NEW p \in 1 .. Len(bs[i]),
         NEW m \in 1 .. Len(bs) + 1, NEW q \in 1 .. Len(SplitBlock(bs, i, p)[m])
  PROVE  \/ m = i /\ q = p /\ SplitBlock(bs, i, p)[m][q] = Br
            /\ Len(SplitBlock(bs, i, p)[m]) = p
         \/ FromOld(bs, i, p, SplitBlock(bs, i, p), m, q,
                    OldBlock(i, m), OldPlace(i, p, m, q))
<1> DEFINE s == SplitBlock(bs, i, p)
<1>1. /\ \A t \in 1 .. i - 1 : s[t] = bs[t]
      /\ s[i] = FirstHalf(bs[i], p) /\ s[i + 1] = SecondHalf(bs[i], p)
      /\ \A t \in i + 2 .. Len(bs) + 1 : s[t] = bs[t - 1]
  BY SplitBlocks, Zenon DEF TwoFor
<1>2. bs[i] \in Seq(Instr) /\ Len(bs) \in Nat /\ i \in Nat
  BY LenProperties DEF Blocks
<1>3. Len(bs[i]) \in Nat
  BY <1>2, LenProperties
<1> HIDE DEF s
<1>4. CASE m < i
  <2>1. m \in 1 .. i - 1 /\ m \in 1 .. Len(bs)
    BY <1>2, <1>4
  <2>2. s[m] = bs[m]
    BY <1>1, <2>1
  <2>3. OldBlock(i, m) = m /\ OldPlace(i, p, m, q) = q
    BY <1>2, <1>4 DEF OldBlock, OldPlace
  <2> QED BY <2>1, <2>2, <2>3, <1>4 DEF s, FromOld
<1>5. CASE m = i
  <2>1. s[m] = FirstHalf(bs[i], p) /\ OldBlock(i, m) = i /\ OldPlace(i, p, m, q) = q
    BY <1>1, <1>2, <1>5 DEF OldBlock, OldPlace
  <2>2. Len(s[m]) = p /\ s[m][p] = Br /\ \A t \in 1 .. p - 1 : s[m][t] = bs[i][t]
    BY <2>1, <1>2, Halves
  <2> QED BY <2>1, <2>2, <1>2, <1>3, <1>5 DEF s, FromOld
<1>6. CASE m = i + 1
  <2>1. /\ s[m] = SecondHalf(bs[i], p)
        /\ OldBlock(i, m) = i /\ OldPlace(i, p, m, q) = p + q - 1
    BY <1>1, <1>2, <1>6 DEF OldBlock, OldPlace
  <2>2. /\ Len(SecondHalf(bs[i], p)) = Len(bs[i]) - p + 1
        /\ \A t \in 1 .. Len(bs[i]) - p + 1 : SecondHalf(bs[i], p)[t] = bs[i][p + t - 1]
    BY <1>2, Halves, Zenon
  <2>3. /\ Len(s[m]) = Len(bs[i]) - p + 1
        /\ \A t \in 1 .. Len(bs[i]) - p + 1 : s[m][t] = bs[i][p + t - 1]
    BY <2>2, <2>1, Zenon
  <2> QED BY <2>1, <2>3, <1>2, <1>3, <1>6 DEF s, FromOld
<1>7. CASE m > i + 1
  <2>1. m \in i + 2 .. Len(bs) + 1 /\ m - 1 \in 1 .. Len(bs)
    BY <1>2, <1>7
  <2>2. s[m] = bs[m - 1]
    BY <1>1, <2>1
  <2>3. OldBlock(i, m) = m - 1 /\ OldPlace(i, p, m, q) = q
    BY <1>2, <1>7 DEF OldBlock, OldPlace
  <2> QED BY <2>1, <2>2, <2>3, <1>2, <1>7 DEF s, FromOld
<1> QED BY <1>2, <1>4, <1>5, <1>6, <1>7

\* And where it is now.
NewBlock(i, p, n, q) == IF n < i \/ (n = i /\ q < p) THEN n ELSE n + 1
NewPlace(i, p, n, q) == IF n = i /\ q >= p THEN q - p + 1 ELSE q

LEMMA SplitNewPlaces ==
  ASSUME NEW bs \in Blocks, NEW i \in 1 .. Len(bs), NEW p \in 1 .. Len(bs[i]),
         NEW n \in 1 .. Len(bs), NEW q \in 1 .. Len(bs[n])
  PROVE  /\ NewBlock(i, p, n, q) \in 1 .. Len(SplitBlock(bs, i, p))
         /\ NewPlace(i, p, n, q) \in 1 .. Len(SplitBlock(bs, i, p)[NewBlock(i, p, n, q)])
         /\ SplitBlock(bs, i, p)[NewBlock(i, p, n, q)][NewPlace(i, p, n, q)] = bs[n][q]
<1> DEFINE s == SplitBlock(bs, i, p)
           m == NewBlock(i, p, n, q)
           r == NewPlace(i, p, n, q)
<1>1. TwoFor(bs, i, FirstHalf(bs[i], p), SecondHalf(bs[i], p), s)
  BY SplitBlocks, Zenon
<1>2. bs[i] \in Seq(Instr) /\ Len(bs) \in Nat /\ Len(bs[i]) \in Nat /\ bs[n] \in Seq(Instr)
  BY LenProperties DEF Blocks
<1>3. /\ Len(s) = Len(bs) + 1
      /\ \A t \in 1 .. i - 1 : s[t] = bs[t]
      /\ s[i] = FirstHalf(bs[i], p) /\ s[i + 1] = SecondHalf(bs[i], p)
      /\ \A t \in i + 2 .. Len(bs) + 1 : s[t] = bs[t - 1]
  BY <1>1, Zenon DEF TwoFor
<1>4. /\ Len(FirstHalf(bs[i], p)) = p
      /\ Len(SecondHalf(bs[i], p)) = Len(bs[i]) - p + 1
      /\ \A t \in 1 .. p - 1 : FirstHalf(bs[i], p)[t] = bs[i][t]
      /\ \A t \in 1 .. Len(bs[i]) - p + 1 : SecondHalf(bs[i], p)[t] = bs[i][p + t - 1]
  BY <1>2, Halves, Zenon
<1>5. q \in Nat /\ q > 0 /\ Len(bs[n]) \in Nat
  BY <1>2, LenProperties
<1> SUFFICES m \in 1 .. Len(s) /\ r \in 1 .. Len(s[m]) /\ s[m][r] = bs[n][q]
  OBVIOUS
<1> HIDE DEF s
<1>6. CASE n < i
  <2>1. n \in 1 .. i - 1
    BY <1>6, <1>2
  <2>2. m = n /\ n \in 1 .. Len(s)
    BY <1>3, <1>6, <1>2 DEF NewBlock
  <2>3. r = q
    BY <1>6, <1>2 DEF NewPlace
  <2> HIDE DEF m, r
  <2> QED BY <2>1, <2>2, <2>3, <1>3
<1>7. CASE n > i
  <2>1. n + 1 \in i + 2 .. Len(bs) + 1 /\ m = n + 1 /\ r = q
    BY <1>7, <1>2 DEF NewBlock, NewPlace
  <2> HIDE DEF m, r
  <2>2. s[m] = bs[n]
    BY <2>1, <1>3, <1>2
  <2> QED BY <2>1, <2>2, <1>3, <1>2
<1>8. CASE n = i /\ q < p
  <2>1. m = i /\ r = q /\ r \in 1 .. p - 1 /\ r \in 1 .. p
    BY <1>8, <1>5, <1>2 DEF NewBlock, NewPlace
  <2> HIDE DEF m, r
  <2>2. Len(s[m]) = p /\ s[m][r] = bs[i][r]
    BY <2>1, <1>3, <1>4, Zenon
  <2> QED BY <2>1, <2>2, <1>3, <1>8, <1>2
<1>9. CASE n = i /\ q >= p
  <2>1. m = i + 1 /\ r \in 1 .. Len(bs[i]) - p + 1 /\ p + r - 1 = q
    BY <1>9, <1>5, <1>2 DEF NewBlock, NewPlace
  <2> HIDE DEF m, r
  <2>2. Len(s[m]) = Len(bs[i]) - p + 1 /\ s[m][r] = bs[i][p + r - 1]
    BY <2>1, <1>3, <1>4, Zenon
  <2>3. m \in 1 .. Len(s) /\ r \in 1 .. Len(s[m])
    BY <2>1, <2>2, <1>3, <1>2
  <2>4. s[m][r] = bs[n][q]
    BY <2>1, <2>2, <1>9
  <2> QED BY <2>3, <2>4
<1> QED BY <1>6, <1>7, <1>8, <1>9, <1>5, <1>2

LEMMA SplitShaped ==
  ASSUME NEW bs, Shaped(bs), NEW i \in 1 .. Len(bs), NEW p \in 1 .. Len(bs[i])
  PROVE  Shaped(SplitBlock(bs, i, p))
<1> DEFINE s == SplitBlock(bs, i, p)
<1>1. /\ bs \in Blocks /\ bs[i] \in Seq(Instr) /\ Len(bs) \in Nat
      /\ Len(bs[i]) \in Nat
  BY LenProperties DEF Blocks, Shaped
<1>2. s \in Blocks /\ Len(s) = Len(bs) + 1
  BY <1>1, SplitBlocks, Zenon DEF TwoFor
<1>3. ASSUME NEW m \in 1 .. Len(bs) + 1 PROVE Len(s[m]) > 0
  <2>1. /\ \A t \in 1 .. i - 1 : s[t] = bs[t]
        /\ s[i] = FirstHalf(bs[i], p) /\ s[i + 1] = SecondHalf(bs[i], p)
        /\ \A t \in i + 2 .. Len(bs) + 1 : s[t] = bs[t - 1]
    BY <1>1, SplitBlocks, Zenon DEF TwoFor
  <2>2. Len(s[i]) = p /\ Len(s[i + 1]) = Len(bs[i]) - p + 1
    <3>1. Len(FirstHalf(bs[i], p)) = p /\ Len(SecondHalf(bs[i], p)) = Len(bs[i]) - p + 1
      BY <1>1, Halves, Zenon
    <3> QED BY <3>1, <2>1, Zenon
  <2>3. \A t \in 1 .. Len(bs) : Len(bs[t]) > 0
    BY DEF Shaped
  <2> HIDE DEF s
  <2>4. CASE m = i \/ m = i + 1
    BY <2>2, <2>4, <1>1
  <2>5. CASE m < i
    <3>1. m \in 1 .. i - 1 /\ m \in 1 .. Len(bs)
      BY <1>1, <2>5
    <3> QED BY <3>1, <2>1, <2>3
  <2>6. CASE m > i + 1
    <3>1. m \in i + 2 .. Len(bs) + 1 /\ m - 1 \in 1 .. Len(bs)
      BY <1>1, <2>6
    <3> QED BY <3>1, <2>1, <2>3
  <2> QED BY <2>4, <2>5, <2>6, <1>1
<1>4. ASSUME NEW m \in 1 .. Len(bs) + 1, NEW q \in 1 .. Len(s[m])
      PROVE  Ends(s[m][q]) <=> q = Len(s[m])
  <2> DEFINE o == OldBlock(i, m)
             r == OldPlace(i, p, m, q)
  <2>1. CASE m = i /\ q = p /\ s[m][q] = Br /\ Len(s[m]) = p
    BY <2>1, Additions DEF Ends
  <2>2. CASE FromOld(bs, i, p, s, m, q, o, r)
    <3>1. Ends(s[m][q]) <=> r = Len(bs[o])
      BY <2>2, Zenon DEF Shaped, FromOld
    <3>2. CASE m = i
      <4>1. o = i /\ r = q /\ q < p /\ Len(s[m]) = p
        BY <2>2, <3>2 DEF OldBlock, FromOld
      <4> HIDE DEF s, o, r
      <4>2. q # Len(bs[i]) /\ q # Len(s[m])
        BY <4>1, <1>1
      <4> QED BY <3>1, <4>1, <4>2
    <3>3. CASE m # i
      BY <2>2, <3>1, <3>3, Zenon DEF FromOld
    <3> QED BY <3>2, <3>3, Zenon
  <2> QED BY <1>1, <2>1, <2>2, SplitPlaces, Zenon
<1> HIDE DEF s
<1>5. Shaped(s)
  BY <1>1, <1>2, <1>3, <1>4 DEF Shaped
<1> QED BY <1>5 DEF s

LEMMA SplitDistinct ==
  ASSUME NEW bs, Shaped(bs), Distinct(bs),
         NEW i \in 1 .. Len(bs), NEW p \in 1 .. Len(bs[i])
  PROVE  Distinct(SplitBlock(bs, i, p))
<1> DEFINE s == SplitBlock(bs, i, p)
<1>1. bs \in Blocks /\ Len(bs) \in Nat /\ Len(bs[i]) \in Nat
  BY LenProperties DEF Blocks, Shaped
<1>2. Len(s) = Len(bs) + 1
  BY <1>1, SplitBlocks, Zenon DEF TwoFor
<1> SUFFICES ASSUME NEW n \in 1 .. Len(bs) + 1, NEW q \in 1 .. Len(s[n]),
                    NEW m \in 1 .. Len(bs) + 1, NEW r \in 1 .. Len(s[m]),
                    s[n][q] = s[m][r], s[n][q] # Br
             PROVE  n = m /\ q = r
  BY <1>2, Zenon DEF Distinct
<1>3. /\ FromOld(bs, i, p, s, n, q, OldBlock(i, n), OldPlace(i, p, n, q))
      /\ FromOld(bs, i, p, s, m, r, OldBlock(i, m), OldPlace(i, p, m, r))
  <2>1. s[m][r] # Br
    OBVIOUS
  <2> QED BY <2>1, <1>1, SplitPlaces, Zenon
<1>4. OldBlock(i, n) = OldBlock(i, m) /\ OldPlace(i, p, n, q) = OldPlace(i, p, m, r)
  <2> DEFINE a == OldBlock(i, n)
             b == OldBlock(i, m)
             c == OldPlace(i, p, n, q)
             d == OldPlace(i, p, m, r)
  <2>1. /\ a \in 1 .. Len(bs) /\ c \in 1 .. Len(bs[a]) /\ s[n][q] = bs[a][c]
        /\ b \in 1 .. Len(bs) /\ d \in 1 .. Len(bs[b]) /\ s[m][r] = bs[b][d]
    BY <1>3, Zenon DEF FromOld
  <2> HIDE DEF a, b, c, d, s
  <2>2. bs[a][c] = bs[b][d] /\ bs[a][c] # Br
    BY <2>1, Zenon
  <2>3. a = b /\ c = d
    BY <2>1, <2>2, OnePlace, Zenon
  <2> QED BY <2>3 DEF a, b, c, d
<1>5. (n = i => q < p) /\ (m = i => r < p)
  BY <1>3 DEF FromOld
<1>6. q \in Nat /\ q > 0 /\ r \in Nat /\ r > 0
  <2>1. s[n] \in Seq(Instr) /\ s[m] \in Seq(Instr)
    <3>1. s \in Seq(Seq(Instr))
      BY <1>1, SplitBlocks, Zenon DEF Blocks
    <3> QED BY <3>1, <1>2
  <2> HIDE DEF s
  <2> QED BY <2>1, LenProperties
<1> HIDE DEF s
<1> QED BY <1>1, <1>4, <1>5, <1>6 DEF OldBlock, OldPlace

\* Cutting neither loses an instruction nor makes one, but the branch.
LEMMA InstructionsAt ==
  ASSUME NEW bs \in Blocks, NEW i
  PROVE  i \in Instructions(bs)
           <=> \E n \in 1 .. Len(bs) : \E q \in 1 .. Len(bs[n]) : bs[n][q] = i
<1>1. DOMAIN bs = 1 .. Len(bs) /\ \A n \in 1 .. Len(bs) : bs[n] \in Seq(Instr)
  BY LenProperties DEF Blocks
<1>2. \A n \in 1 .. Len(bs) : DOMAIN bs[n] = 1 .. Len(bs[n])
  BY <1>1, LenProperties
<1>3. i \in Instructions(bs) <=> \E n \in DOMAIN bs : i \in Range(bs[n])
  BY DEF Instructions
<1>4. \A n \in 1 .. Len(bs) :
        i \in Range(bs[n]) <=> \E q \in 1 .. Len(bs[n]) : bs[n][q] = i
  <2> TAKE n \in 1 .. Len(bs)
  <2>1. i \in Range(bs[n]) <=> \E q \in DOMAIN bs[n] : bs[n][q] = i
    BY DEF Range
  <2> QED BY <2>1, <1>2
<1> QED BY <1>1, <1>3, <1>4

LEMMA SplitKeeps ==
  ASSUME NEW bs \in Blocks, NEW i \in 1 .. Len(bs), NEW p \in 1 .. Len(bs[i])
  PROVE  Instructions(SplitBlock(bs, i, p)) = Instructions(bs) \cup {Br}
<1> DEFINE s == SplitBlock(bs, i, p)
<1>1. s \in Blocks /\ TwoFor(bs, i, FirstHalf(bs[i], p), SecondHalf(bs[i], p), s)
  BY SplitBlocks, Zenon
<1>2. /\ bs[i] \in Seq(Instr) /\ Len(bs) \in Nat /\ Len(bs[i]) \in Nat
      /\ \A n \in 1 .. Len(bs) : bs[n] \in Seq(Instr)
  BY LenProperties DEF Blocks
<1>3. ASSUME NEW j \in Instructions(s) PROVE j \in Instructions(bs) \cup {Br}
  <2>1. Len(s) = Len(bs) + 1
    BY <1>1, Zenon DEF TwoFor
  <2>2. PICK m \in 1 .. Len(bs) + 1 : \E q \in 1 .. Len(s[m]) : s[m][q] = j
    <3> HIDE DEF s
    <3>1. \E m \in 1 .. Len(s) : \E q \in 1 .. Len(s[m]) : s[m][q] = j
      BY <1>1, <1>3, InstructionsAt, Zenon
    <3> QED BY <3>1, <2>1
  <2>3. PICK q \in 1 .. Len(s[m]) : s[m][q] = j
    BY <2>2
  <2>4. CASE j = Br
    BY <2>4
  <2>5. CASE j # Br
    <3>1. FromOld(bs, i, p, s, m, q, OldBlock(i, m), OldPlace(i, p, m, q))
      BY <2>3, <2>5, SplitPlaces, Zenon
    <3> QED BY <2>3, <3>1, InstructionsAt, Zenon DEF FromOld
  <2> QED BY <2>4, <2>5
<1>4. ASSUME NEW n \in 1 .. Len(bs), NEW q \in 1 .. Len(bs[n])
      PROVE  bs[n][q] \in Instructions(s)
  <2>1. /\ NewBlock(i, p, n, q) \in 1 .. Len(s)
        /\ NewPlace(i, p, n, q) \in 1 .. Len(s[NewBlock(i, p, n, q)])
        /\ s[NewBlock(i, p, n, q)][NewPlace(i, p, n, q)] = bs[n][q]
    BY SplitNewPlaces, Zenon
  <2> HIDE DEF s
  <2> QED BY <2>1, <1>1, InstructionsAt, Zenon
<1>5. Br \in Instructions(s)
  <2>1. /\ Len(s) = Len(bs) + 1 /\ s[i] = FirstHalf(bs[i], p)
        /\ Len(FirstHalf(bs[i], p)) = p /\ FirstHalf(bs[i], p)[p] = Br
    BY <1>1, <1>2, Halves, Zenon DEF TwoFor
  <2> HIDE DEF s
  <2>2. i \in 1 .. Len(s) /\ p \in 1 .. Len(s[i]) /\ s[i][p] = Br
    BY <2>1, <1>2
  <2> QED BY <2>2, <1>1, InstructionsAt, Zenon
<1>6. ASSUME NEW j \in Instructions(bs) PROVE j \in Instructions(s)
  <2> HIDE DEF s
  <2>1. PICK n \in 1 .. Len(bs) : \E q \in 1 .. Len(bs[n]) : bs[n][q] = j
    BY InstructionsAt, Zenon
  <2> QED BY <2>1, <1>4
<1> HIDE DEF s
<1>7. Instructions(s) = Instructions(bs) \cup {Br}
  BY <1>3, <1>5, <1>6
<1> QED BY <1>7 DEF s

\* A sequence of one, with something put in front of it.
LEMMA InsertAtOne ==
  ASSUME NEW S, NEW b \in Seq(S), Len(b) = 1, NEW x \in S
  PROVE  b[1] \in S /\ InsertAt(b, Len(b), x) = <<x, b[1]>>
<1> DEFINE y == b[1]
<1>1. y \in S
  <2>1. 1 \in 1 .. Len(b)
    OBVIOUS
  <2> QED BY <2>1, ElementOfSeq, Zenon
<1>2. <<x>> \in Seq(S) /\ <<y>> \in Seq(S) /\ <<x, y>> \in Seq(S)
  BY <1>1
<1>3. SubSeq(b, 1, 0) = << >>
  BY SubSeqEmpty
<1>4. SubSeq(b, 1, 1) = b
  BY SubSeqFull
<1> HIDE DEF y
<1>5. << >> \o <<x>> = <<x>>
  BY <1>2, ConcatEmptySeq, Zenon
<1>6. <<x>> \o b = <<x, y>>
  <2>1. /\ <<x>> \o b \in Seq(S)
        /\ Len(<<x>> \o b) = Len(<<x>>) + Len(b)
        /\ \A i \in 1 .. Len(<<x>>) + Len(b) :
             (<<x>> \o b)[i] = IF i <= Len(<<x>>) THEN <<x>>[i] ELSE b[i - Len(<<x>>)]
    BY <1>2, ConcatProperties, Zenon
  <2>2. Len(<<x>>) = 1 /\ Len(<<x, y>>) = 2 /\ <<x>>[1] = x
    BY <1>2
  <2>3. \A i \in 1 .. 2 : (<<x>> \o b)[i] = <<x, y>>[i]
    BY <2>1, <2>2 DEF y
  <2>4. Len(<<x>> \o b) = 2
    BY <2>1, <2>2
  <2> QED BY <1>2, <2>1, <2>2, <2>3, <2>4, SeqEqual, Zenon
<1>7. InsertAt(b, 1, x) = (SubSeq(b, 1, 0) \o <<x>>) \o SubSeq(b, 1, 1)
  BY DEF InsertAt
<1> QED BY <1>1, <1>3, <1>4, <1>5, <1>6, <1>7, Zenon DEF y

\* A new barrier in a block that holds a terminator alone.
LEMMA CreateAlone ==
  ASSUME NEW bs \in Blocks, NEW k \in 1 .. Len(bs), Len(bs[k]) = 1,
         NEW bar \in Instr
  PROVE  /\ CreateBarrier(bs, k, bar) \in Blocks
         /\ Len(CreateBarrier(bs, k, bar)) = Len(bs)
         /\ CreateBarrier(bs, k, bar)[k] = <<bar, bs[k][1]>>
         /\ \A m \in 1 .. Len(bs) : m # k => CreateBarrier(bs, k, bar)[m] = bs[m]
<1> DEFINE b == bs[k]
<1>1. bs[k] \in Seq(Instr) /\ DOMAIN bs = 1 .. Len(bs) /\ bs \in Seq(Seq(Instr))
  BY LenProperties DEF Blocks
<1>2. b[1] \in Instr /\ InsertAt(b, Len(b), bar) = <<bar, b[1]>>
  BY <1>1, InsertAtOne, Zenon
<1>3. InsertAt(bs[k], Len(bs[k]), bar) = <<bar, b[1]>>
  BY <1>2
<1>4. CreateBarrier(bs, k, bar) = [bs EXCEPT ![k] = <<bar, b[1]>>]
  BY <1>3 DEF CreateBarrier
<1>5. <<bar, b[1]>> \in Seq(Instr)
  BY <1>2
<1> DEFINE T == Seq(Instr)
           c == <<bar, b[1]>>
<1>6. bs \in Seq(T) /\ c \in T
  BY <1>1, <1>5
<1> HIDE DEF T, c
<1>7. [bs EXCEPT ![k] = c] \in Seq(T) /\ Len([bs EXCEPT ![k] = c]) = Len(bs)
  BY <1>6, ExceptSeq
<1>8. \A m \in 1 .. Len(bs) : m # k => [bs EXCEPT ![k] = c][m] = bs[m]
  BY <1>1
<1>9. [bs EXCEPT ![k] = c][k] = c
  BY <1>1
<1> QED BY <1>4, <1>7, <1>8, <1>9, Zenon DEF Blocks, T, c

LEMMA CreateSound ==
  ASSUME NEW bs, Shaped(bs), Distinct(bs), NEW k \in 1 .. Len(bs), Len(bs[k]) = 1,
         NEW bar \in Instr, IsBarrier(bar), bar \notin Instructions(bs)
  PROVE  /\ Shaped(CreateBarrier(bs, k, bar))
         /\ Distinct(CreateBarrier(bs, k, bar))
         /\ Instructions(CreateBarrier(bs, k, bar)) = Instructions(bs) \cup {bar}
<1> DEFINE r == CreateBarrier(bs, k, bar)
           t == bs[k][1]
<1>1. bs \in Blocks
  BY DEF Shaped
<1>2. /\ r \in Blocks /\ Len(r) = Len(bs) /\ r[k] = <<bar, t>>
      /\ \A m \in 1 .. Len(bs) : m # k => r[m] = bs[m]
  BY <1>1, CreateAlone, Zenon
<1>3. Len(bs) \in Nat /\ Len(bs) > 0
  BY LenProperties DEF Blocks, Shaped
<1>4. Ends(t) /\ ~Ends(bar) /\ bar # Br
  BY Additions DEF Shaped, Ends, IsBarrier
<1>5. \A m \in 1 .. Len(bs) : \A q \in 1 .. Len(bs[m]) : bs[m][q] # bar
  BY <1>1, InstructionsAt, Zenon
<1>6. Len(r[k]) = 2 /\ r[k][1] = bar /\ r[k][2] = t
  BY <1>2
<1> HIDE DEF r, t
<1>7. ASSUME NEW m \in 1 .. Len(bs)
      PROVE  /\ Len(r[m]) > 0
             /\ \A q \in 1 .. Len(r[m]) : Ends(r[m][q]) <=> q = Len(r[m])
  <2>1. CASE m = k
    BY <2>1, <1>4, <1>6
  <2>2. CASE m # k
    <3>1. r[m] = bs[m]
      BY <2>2, <1>2
    <3> QED BY <3>1, Zenon DEF Shaped
  <2> QED BY <2>1, <2>2
<1>8. Shaped(r)
  BY <1>2, <1>3, <1>7 DEF Shaped
<1>9. ASSUME NEW m \in 1 .. Len(bs), NEW q \in 1 .. Len(r[m])
      PROVE  \/ m = k /\ q = 1 /\ r[m][q] = bar
             \/ \E p \in 1 .. Len(bs[m]) : /\ r[m][q] = bs[m][p]
                                           /\ p = IF m = k THEN 1 ELSE q
                                           /\ m = k => q = 2
  <2>1. CASE m = k
    BY <2>1, <1>6 DEF t
  <2>2. CASE m # k
    <3>1. r[m] = bs[m]
      BY <2>2, <1>2
    <3> QED BY <2>2, <3>1
  <2> QED BY <2>1, <2>2
<1>10. Distinct(r)
  <2> SUFFICES ASSUME NEW n \in 1 .. Len(bs), NEW m \in 1 .. Len(bs),
                      NEW q \in 1 .. Len(r[n]), NEW p \in 1 .. Len(r[m]),
                      r[n][q] = r[m][p], r[n][q] # Br
               PROVE  n = m /\ q = p
    BY <1>2 DEF Distinct
  <2>1. CASE r[n][q] = bar
    <3>1. n = k /\ q = 1
      <4>1. \A a \in 1 .. Len(bs[n]) : bs[n][a] # r[n][q]
        BY <2>1, <1>5
      <4> QED BY <4>1, <1>9, Zenon
    <3>2. m = k /\ p = 1
      <4>1. r[m][p] = bar
        BY <2>1
      <4>2. \A a \in 1 .. Len(bs[m]) : bs[m][a] # r[m][p]
        BY <4>1, <1>5
      <4> QED BY <4>2, <1>9, Zenon
    <3> QED BY <3>1, <3>2
  <2>2. CASE r[n][q] # bar
    <3>1. PICK a \in 1 .. Len(bs[n]) : /\ r[n][q] = bs[n][a]
                                       /\ a = IF n = k THEN 1 ELSE q
                                       /\ n = k => q = 2
      BY <2>2, <1>9
    <3>2. PICK b \in 1 .. Len(bs[m]) : /\ r[m][p] = bs[m][b]
                                       /\ b = IF m = k THEN 1 ELSE p
                                       /\ m = k => p = 2
      BY <2>2, <1>9
    <3>3. n = m /\ a = b
      <4>1. bs[n][a] = bs[m][b] /\ bs[n][a] # Br
        BY <3>1, <3>2
      <4> QED BY <4>1, OnePlace, Zenon
    <3> QED BY <3>1, <3>2, <3>3
  <2> QED BY <2>1, <2>2
<1>11. ASSUME NEW j PROVE j \in Instructions(r) <=> j \in Instructions(bs) \cup {bar}
  <2>1. ASSUME j \in Instructions(r) PROVE j \in Instructions(bs) \cup {bar}
    <3>1. \E m \in 1 .. Len(r) : \E q \in 1 .. Len(r[m]) : r[m][q] = j
      <4>1. r \in Blocks
        BY <1>2
      <4> QED BY <4>1, <2>1, InstructionsAt, Zenon
    <3>2. PICK m \in 1 .. Len(bs) : \E q \in 1 .. Len(r[m]) : r[m][q] = j
      BY <3>1, <1>2
    <3>3. PICK q \in 1 .. Len(r[m]) : r[m][q] = j
      BY <3>2
    <3>4. CASE j = bar
      BY <3>4
    <3>5. CASE j # bar
      <4>1. \E p \in 1 .. Len(bs[m]) : bs[m][p] = j
        BY <3>3, <3>5, <1>9
      <4> QED BY <4>1, <1>1, InstructionsAt, Zenon
    <3> QED BY <3>4, <3>5
  <2>2. ASSUME j \in Instructions(bs) PROVE j \in Instructions(r)
    <3>1. PICK m \in 1 .. Len(bs) : \E q \in 1 .. Len(bs[m]) : bs[m][q] = j
      BY <2>2, <1>1, InstructionsAt, Zenon
    <3>2. PICK q \in 1 .. Len(bs[m]) : bs[m][q] = j
      BY <3>1
    <3>3. CASE m = k
      <4>1. q = 1 /\ j = t
        BY <3>2, <3>3 DEF t
      <4>2. 2 \in 1 .. Len(r[k]) /\ r[k][2] = j
        BY <4>1, <1>6
      <4> QED BY <4>2, <1>2, InstructionsAt, Zenon
    <3>4. CASE m # k
      <4>1. q \in 1 .. Len(r[m]) /\ r[m][q] = j
        BY <3>2, <3>4, <1>2, Zenon
      <4> QED BY <4>1, <1>2, InstructionsAt, Zenon
    <3> QED BY <3>3, <3>4
  <2>3. bar \in Instructions(r)
    <3>1. 1 \in 1 .. Len(r[k]) /\ r[k][1] = bar
      BY <1>6
    <3> QED BY <3>1, <1>2, InstructionsAt, Zenon
  <2> QED BY <2>1, <2>2, <2>3
<1>12. Instructions(r) = Instructions(bs) \cup {bar}
  BY <1>11
<1> QED BY <1>8, <1>10, <1>12 DEF r

-----------------------------------------------------------------------------
(***************************************************************************)
(* What holds of the blocks phase by phase, block by block.                *)
(***************************************************************************)
\* No two returns come from one block of the source.
Rets(bs) ==
  \A i, j \in Instructions(bs) :
    i.op = "ret" => i.id[1] # 0 /\ (j.op = "ret" /\ i.id[1] = j.id[1] => i = j)

\* A barrier added for a return is in front of it, and nothing else is.
Placed(b) ==
  \A q \in 1 .. Len(b) :
    IsBarrier(b[q]) /\ b[q].id[1] = 0 =>
      \/ b[q].id[2] = 0
      \/ Len(b) = 2 /\ q = 1 /\ b[2].op = "ret" /\ b[2].id[1] = b[q].id[2]

Guarded(b) == b[Len(b)].op = "ret" => JustABarrier(b)

\* Every barrier of b that T does not hold is alone.
Isolated(b, T) ==
  \A q \in 1 .. Len(b) : IsBarrier(b[q]) /\ b[q] \notin T => JustABarrier(b)

Reaches(bs, n, m) ==
  /\ m > n /\ JustABarrier(bs[m])
  /\ \A j \in n .. m - 1 : bs[j] = <<Br>>

LeadsToBarrier(bs) ==
  \A n \in 1 .. Len(bs) :
    bs[n] = <<Br>> => \E m \in 1 .. Len(bs) : Reaches(bs, n, m)

\* A block is replaced by two: which of the new blocks is which.
LEMMA NewBlocks ==
  ASSUME NEW bs, Len(bs) \in Nat, NEW i \in 1 .. Len(bs), NEW x, NEW y, NEW s,
         TwoFor(bs, i, x, y, s), NEW m \in 1 .. Len(s)
  PROVE  \/ m < i /\ m \in 1 .. Len(bs) /\ s[m] = bs[m]
         \/ m = i /\ s[m] = x
         \/ m = i + 1 /\ s[m] = y
         \/ m > i + 1 /\ m - 1 \in 1 .. Len(bs) /\ s[m] = bs[m - 1]
<1>1. /\ Len(s) = Len(bs) + 1 /\ s[i] = x /\ s[i + 1] = y
      /\ \A t \in 1 .. i - 1 : s[t] = bs[t]
      /\ \A t \in i + 2 .. Len(bs) + 1 : s[t] = bs[t - 1]
  BY DEF TwoFor
<1>2. CASE m < i
  <2>1. m \in 1 .. i - 1 /\ m \in 1 .. Len(bs)
    BY <1>1, <1>2
  <2> QED BY <2>1, <1>1, <1>2
<1>3. CASE m > i + 1
  <2>1. m \in i + 2 .. Len(bs) + 1 /\ m - 1 \in 1 .. Len(bs)
    BY <1>1, <1>3
  <2> QED BY <2>1, <1>1, <1>3
<1>4. CASE m = i \/ m = i + 1
  BY <1>1, <1>4
<1> QED BY <1>2, <1>3, <1>4

LEMMA TwoForLeads ==
  ASSUME NEW bs, Len(bs) \in Nat, NEW i \in 1 .. Len(bs), NEW x, NEW y, NEW s,
         TwoFor(bs, i, x, y, s), LeadsToBarrier(bs),
         bs[i] # <<Br>>, y # <<Br>>,
         x = <<Br>> => JustABarrier(y),
         JustABarrier(bs[i]) => JustABarrier(x) \/ (x = <<Br>> /\ JustABarrier(y))
  PROVE  LeadsToBarrier(s)
<1>1. /\ Len(s) = Len(bs) + 1 /\ s[i] = x /\ s[i + 1] = y
      /\ \A t \in 1 .. i - 1 : s[t] = bs[t]
      /\ \A t \in i + 2 .. Len(bs) + 1 : s[t] = bs[t - 1]
  BY DEF TwoFor
<1> SUFFICES ASSUME NEW n \in 1 .. Len(s), s[n] = <<Br>>
             PROVE  \E m \in 1 .. Len(s) : Reaches(s, n, m)
  BY DEF LeadsToBarrier
<1>2. CASE n < i
  <2>1. n \in 1 .. i - 1 /\ n \in 1 .. Len(bs)
    BY <1>1, <1>2
  <2>2. bs[n] = <<Br>>
    BY <1>1, <2>1
  <2>3. PICK m \in 1 .. Len(bs) : /\ m > n /\ JustABarrier(bs[m])
                                  /\ \A j \in n .. m - 1 : bs[j] = <<Br>>
    BY <2>1, <2>2 DEF LeadsToBarrier, Reaches
  <2>4. m <= i
    <3> SUFFICES ASSUME m > i PROVE FALSE
      BY <2>3
    <3>1. i \in n .. m - 1
      BY <1>2
    <3> QED BY <3>1, <2>3
  <2>5. \A j \in n .. m - 1 : s[j] = <<Br>>
    <3> TAKE j \in n .. m - 1
    <3>1. j \in 1 .. i - 1
      BY <2>1, <2>4
    <3>2. s[j] = bs[j]
      BY <3>1, <1>1
    <3> QED BY <3>2, <2>3
  <2>6. CASE m < i
    <3>1. m \in 1 .. i - 1 /\ m \in 1 .. Len(s)
      BY <2>6, <1>1
    <3>2. JustABarrier(s[m])
      BY <3>1, <1>1, <2>3
    <3>3. Reaches(s, n, m)
      BY <3>2, <2>3, <2>5 DEF Reaches
    <3> QED BY <3>1, <3>3, Zenon
  <2>7. CASE m = i /\ JustABarrier(x)
    <3>1. Reaches(s, n, i) /\ i \in 1 .. Len(s)
      BY <2>7, <1>1, <2>3, <2>5 DEF Reaches
    <3> QED BY <3>1, Zenon
  <2>8. CASE m = i /\ x = <<Br>> /\ JustABarrier(y)
    <3>1. i + 1 \in 1 .. Len(s) /\ i + 1 > n
      BY <1>1, <1>2
    <3>2. \A j \in n .. (i + 1) - 1 : s[j] = <<Br>>
      BY <2>5, <2>8, <1>1, <1>2
    <3>3. JustABarrier(s[i + 1])
      BY <2>8, <1>1
    <3>4. Reaches(s, n, i + 1)
      BY <3>1, <3>2, <3>3 DEF Reaches
    <3> QED BY <3>1, <3>4, Zenon
  <2> QED BY <2>3, <2>4, <2>6, <2>7, <2>8
<1>3. CASE n = i
  <2>1. x = <<Br>> /\ JustABarrier(y)
    BY <1>1, <1>3
  <2>2. i + 1 \in 1 .. Len(s) /\ \A j \in n .. (i + 1) - 1 : j = i
    BY <1>1, <1>3
  <2>3. Reaches(s, n, i + 1)
    BY <2>1, <2>2, <1>1, <1>3 DEF Reaches
  <2> QED BY <2>2, <2>3, Zenon
<1>4. CASE n > i + 1
  <2> DEFINE k == n - 1
  <2>1. n \in i + 2 .. Len(bs) + 1 /\ k \in 1 .. Len(bs)
    BY <1>1, <1>4
  <2>2. bs[k] = <<Br>>
    BY <1>1, <2>1
  <2>3. PICK m \in 1 .. Len(bs) : /\ m > k /\ JustABarrier(bs[m])
                                  /\ \A j \in k .. m - 1 : bs[j] = <<Br>>
    BY <2>1, <2>2 DEF LeadsToBarrier, Reaches
  <2>4. m + 1 \in i + 2 .. Len(bs) + 1 /\ m + 1 \in 1 .. Len(s) /\ m + 1 > n
    BY <1>1, <1>4, <2>3
  <2>5. JustABarrier(s[m + 1])
    <3>1. s[m + 1] = bs[(m + 1) - 1] /\ (m + 1) - 1 = m
      BY <2>4, <1>1
    <3> QED BY <3>1, <2>3
  <2>6. \A j \in n .. (m + 1) - 1 : s[j] = <<Br>>
    <3> TAKE j \in n .. (m + 1) - 1
    <3>1. j \in i + 2 .. Len(bs) + 1 /\ j - 1 \in k .. m - 1
      BY <1>4, <2>4
    <3>2. s[j] = bs[j - 1]
      BY <3>1, <1>1
    <3> QED BY <3>1, <3>2, <2>3
  <2>7. Reaches(s, n, m + 1)
    BY <2>4, <2>5, <2>6 DEF Reaches
  <2> QED BY <2>4, <2>7, Zenon
<1>5. CASE n = i + 1
  BY <1>1, <1>5
<1> QED BY <1>1, <1>2, <1>3, <1>4, <1>5

Sound(bs) == Shaped(bs) /\ Distinct(bs) /\ Rets(bs)

\* Cutting a sound function, and putting a new barrier into it.
LEMMA SplitSound ==
  ASSUME NEW bs, Sound(bs), NEW i \in 1 .. Len(bs), NEW p \in 1 .. Len(bs[i])
  PROVE  Sound(SplitBlock(bs, i, p))
<1>1. Shaped(SplitBlock(bs, i, p)) /\ Distinct(SplitBlock(bs, i, p))
  BY SplitShaped, SplitDistinct, Zenon DEF Sound
<1>2. Instructions(SplitBlock(bs, i, p)) = Instructions(bs) \cup {Br} /\ Br.op # "ret"
  BY SplitKeeps, Additions, Zenon DEF Sound, Shaped
<1>3. Rets(SplitBlock(bs, i, p))
  BY <1>2 DEF Sound, Rets
<1> QED BY <1>1, <1>3 DEF Sound

LEMMA CreateStaysSound ==
  ASSUME NEW bs, Sound(bs), NEW k \in 1 .. Len(bs), Len(bs[k]) = 1,
         NEW bar \in Instr, IsBarrier(bar), bar \notin Instructions(bs)
  PROVE  /\ Sound(CreateBarrier(bs, k, bar))
         /\ Instructions(CreateBarrier(bs, k, bar)) = Instructions(bs) \cup {bar}
<1>1. /\ Shaped(CreateBarrier(bs, k, bar)) /\ Distinct(CreateBarrier(bs, k, bar))
      /\ Instructions(CreateBarrier(bs, k, bar)) = Instructions(bs) \cup {bar}
  BY CreateSound, Zenon DEF Sound
<1>2. Rets(CreateBarrier(bs, k, bar))
  BY <1>1 DEF Sound, Rets, IsBarrier
<1> QED BY <1>1, <1>2 DEF Sound

\* The function the pass is given.
LEMMA SourceSound ==
  ASSUME NEW f \in Functions
  PROVE  /\ Sound(f) /\ LeadsToBarrier(f) /\ Br \notin Instructions(f)
         /\ \A j \in Instructions(f) : j.id[1] # 0
<1>1. f \in Seq(Seq([op : Ops \ {"br"}, id : Nat \X Nat])) /\ f # << >>
  BY FunctionsAssumption
<1> DEFINE I == [op : Ops \ {"br"}, id : Nat \X Nat]
<1>2. I \subseteq Instr
  BY DEF Instr
<1>3. Seq(I) \subseteq Seq(Instr)
  BY <1>2, SeqMonotonic, Zenon
<1>4. Seq(Seq(I)) \subseteq Seq(Seq(Instr))
  BY <1>3, SeqMonotonic, Zenon
<1>5. f \in Blocks /\ f \in Seq(Seq(I))
  BY <1>1, <1>4 DEF Blocks
<1>6. /\ Len(f) \in Nat /\ Len(f) > 0 /\ DOMAIN f = 1 .. Len(f)
      /\ \A n \in 1 .. Len(f) : f[n] \in Seq(I)
  <2> DEFINE T == Seq(I)
  <2> HIDE DEF T
  <2>1. f \in Seq(T)
    BY <1>5 DEF T
  <2>2. Len(f) \in Nat \ {0} /\ DOMAIN f = 1 .. Len(f)
    BY <2>1, <1>1, EmptySeq, LenProperties
  <2>3. \A n \in 1 .. Len(f) : f[n] \in T
    BY <2>1, ElementOfSeq
  <2>4. Len(f) \in Nat /\ Len(f) > 0
    BY <2>2
  <2> QED BY <2>2, <2>3, <2>4, Zenon DEF T
<1>7. ASSUME NEW n \in 1 .. Len(f)
      PROVE  /\ Len(f[n]) \in Nat /\ Len(f[n]) > 0 /\ DOMAIN f[n] = 1 .. Len(f[n])
             /\ \A q \in 1 .. Len(f[n]) : f[n][q] \in I
  <2>1. f[n] \in Seq(I) /\ f[n] # << >>
    BY <1>6, FunctionsAssumption
  <2> HIDE DEF I
  <2>2. Len(f[n]) \in Nat \ {0} /\ DOMAIN f[n] = 1 .. Len(f[n])
    BY <2>1, EmptySeq, LenProperties
  <2> QED BY <2>1, <2>2, ElementOfSeq
<1>8. \A n \in 1 .. Len(f) : \A q \in 1 .. Len(f[n]) :
        /\ f[n][q] \in I /\ f[n][q].id = <<n, q>> /\ f[n][q].op # "br"
        /\ f[n][q].op \in {"jump", "ret"} <=> q = Len(f[n])
  <2> TAKE n \in 1 .. Len(f)
  <2> TAKE q \in 1 .. Len(f[n])
  <2>1. n \in DOMAIN f /\ q \in DOMAIN f[n] /\ f[n][q] \in I
    BY <1>6, <1>7
  <2>2. f[n][q].op # "br"
    BY <2>1
  <2> HIDE DEF I
  <2> QED BY <2>1, <2>2, FunctionsAssumption, Zenon
<1> HIDE DEF I
<1>9. Shaped(f)
  BY <1>5, <1>6, <1>7, <1>8 DEF Shaped, Ends
<1>10. Distinct(f)
  <2> SUFFICES ASSUME NEW n \in 1 .. Len(f), NEW m \in 1 .. Len(f),
                      NEW q \in 1 .. Len(f[n]), NEW r \in 1 .. Len(f[m]),
                      f[n][q] = f[m][r]
               PROVE  n = m /\ q = r
    BY DEF Distinct
  <2>1. <<n, q>> = <<m, r>>
    BY <1>8
  <2> QED BY <2>1
<1>11. ASSUME NEW j \in Instructions(f)
       PROVE  \E n \in 1 .. Len(f) : \E q \in 1 .. Len(f[n]) : f[n][q] = j
  BY <1>5, InstructionsAt, Zenon
<1>12. ASSUME NEW j \in Instructions(f)
       PROVE  /\ j.id[1] # 0 /\ j.op # "br"
              /\ j.op = "ret" =>
                  \E n \in 1 .. Len(f) : j.id[1] = n /\ j = f[n][Len(f[n])]
  <2>1. PICK n \in 1 .. Len(f) : \E q \in 1 .. Len(f[n]) : f[n][q] = j
    BY <1>11
  <2>2. PICK q \in 1 .. Len(f[n]) : f[n][q] = j
    BY <2>1
  <2>3. j.id[1] = n /\ j.op # "br" /\ (j.op = "ret" => q = Len(f[n]))
    BY <2>2, <1>8
  <2> QED BY <2>2, <2>3
<1>13. Rets(f)
  BY <1>12 DEF Rets
<1>14. Br \notin Instructions(f)
  BY <1>12, Additions
<1>15. LeadsToBarrier(f)
  <2> SUFFICES ASSUME NEW n \in 1 .. Len(f), f[n] = <<Br>>
               PROVE  FALSE
    BY DEF LeadsToBarrier
  <2>1. 1 \in 1 .. Len(f[n]) /\ f[n][1] = Br
    OBVIOUS
  <2> QED BY <2>1, <1>8, Additions
<1> QED BY <1>9, <1>10, <1>12, <1>13, <1>14, <1>15 DEF Sound

-----------------------------------------------------------------------------
(***************************************************************************)
(* What each step of the pass makes.                                       *)
(***************************************************************************)
\* A new barrier in a half that holds a terminator alone.
LEMMA CreatedTwoFor ==
  ASSUME NEW bs \in Blocks, NEW i \in 1 .. Len(bs), NEW x, NEW y, NEW s \in Blocks,
         TwoFor(bs, i, x, y, s), NEW bar \in Instr
  PROVE  /\ Len(x) = 1 => TwoFor(bs, i, <<bar, x[1]>>, y, CreateBarrier(s, i, bar))
         /\ Len(y) = 1 => TwoFor(bs, i, x, <<bar, y[1]>>, CreateBarrier(s, i + 1, bar))
<1>1. /\ Len(s) = Len(bs) + 1 /\ s[i] = x /\ s[i + 1] = y
      /\ \A t \in 1 .. i - 1 : s[t] = bs[t]
      /\ \A t \in i + 2 .. Len(bs) + 1 : s[t] = bs[t - 1]
  BY DEF TwoFor
<1>2. Len(bs) \in Nat
  BY LenProperties DEF Blocks
<1>3. i \in 1 .. Len(s) /\ i + 1 \in 1 .. Len(s) /\ i # i + 1
  BY <1>1, <1>2
<1>4. ASSUME NEW k \in {i, i + 1}, Len(s[k]) = 1
      PROVE  /\ Len(CreateBarrier(s, k, bar)) = Len(bs) + 1
             /\ CreateBarrier(s, k, bar)[k] = <<bar, s[k][1]>>
             /\ \A m \in 1 .. Len(s) : m # k => CreateBarrier(s, k, bar)[m] = s[m]
  <2>1. k \in 1 .. Len(s)
    BY <1>3
  <2> QED BY <2>1, <1>1, <1>4, CreateAlone
<1>5. ASSUME NEW k \in {i, i + 1}, Len(s[k]) = 1
      PROVE  /\ \A t \in 1 .. i - 1 : CreateBarrier(s, k, bar)[t] = bs[t]
             /\ \A t \in i + 2 .. Len(bs) + 1 : CreateBarrier(s, k, bar)[t] = bs[t - 1]
  <2> DEFINE r == CreateBarrier(s, k, bar)
  <2>1. \A m \in 1 .. Len(s) : m # k => r[m] = s[m]
    BY <1>4, <1>5
  <2> HIDE DEF r
  <2>2. ASSUME NEW t \in 1 .. i - 1 PROVE r[t] = bs[t]
    <3>1. t \in 1 .. Len(s) /\ t # k
      BY <1>1, <1>2
    <3> QED BY <3>1, <2>1, <1>1
  <2>3. ASSUME NEW t \in i + 2 .. Len(bs) + 1 PROVE r[t] = bs[t - 1]
    <3>1. t \in 1 .. Len(s) /\ t # k
      BY <1>1, <1>2
    <3> QED BY <3>1, <2>1, <1>1
  <2> QED BY <2>2, <2>3 DEF r
<1>6. ASSUME Len(x) = 1
      PROVE  TwoFor(bs, i, <<bar, x[1]>>, y, CreateBarrier(s, i, bar))
  <2>1. Len(s[i]) = 1
    BY <1>1, <1>6
  <2>2. CreateBarrier(s, i, bar)[i + 1] = y
    BY <2>1, <1>1, <1>3, <1>4
  <2> QED BY <2>1, <2>2, <1>1, <1>4, <1>5 DEF TwoFor
<1>7. ASSUME Len(y) = 1
      PROVE  TwoFor(bs, i, x, <<bar, y[1]>>, CreateBarrier(s, i + 1, bar))
  <2>1. Len(s[i + 1]) = 1
    BY <1>1, <1>7
  <2>2. CreateBarrier(s, i + 1, bar)[i] = x
    BY <2>1, <1>1, <1>3, <1>4
  <2> QED BY <2>1, <2>2, <1>1, <1>4, <1>5 DEF TwoFor
<1> QED BY <1>6, <1>7

LEMMA EntryMade ==
  ASSUME NEW f \in Functions, ~JustABarrier(f[1])
  PROVE  LET r == CreateBarrier(SplitBlock(f, 1, 1), 1, EntryBarrier)
         IN /\ Sound(r) /\ LeadsToBarrier(r) /\ Len(r) = Len(f) + 1
            /\ JustABarrier(r[1])
            /\ \A n \in 1 .. Len(r) : Placed(r[n])
            /\ \A n \in 2 .. Len(f) + 1 : r[n] = f[n - 1]
<1> DEFINE s == SplitBlock(f, 1, 1)
           r == CreateBarrier(s, 1, EntryBarrier)
           x == <<EntryBarrier, Br>>
           y == SecondHalf(f[1], 1)
<1>1. /\ Sound(f) /\ LeadsToBarrier(f) /\ Br \notin Instructions(f)
      /\ \A j \in Instructions(f) : j.id[1] # 0
  BY SourceSound
<1>2. f \in Blocks /\ Len(f) \in Nat /\ Len(f) > 0
  BY <1>1, LenProperties DEF Sound, Shaped, Blocks
<1>3. 1 \in 1 .. Len(f)
  BY <1>2
<1>4. /\ f[1] \in Seq(Instr) /\ Len(f[1]) \in Nat /\ Len(f[1]) > 0
      /\ 1 \in 1 .. Len(f[1])
  BY <1>1, <1>2, <1>3, LenProperties DEF Sound, Shaped, Blocks
<1>5. s \in Blocks /\ TwoFor(f, 1, FirstHalf(f[1], 1), y, s)
  BY <1>2, <1>3, <1>4, SplitBlocks, Zenon
<1>6. Len(FirstHalf(f[1], 1)) = 1 /\ FirstHalf(f[1], 1)[1] = Br
  BY <1>4, Halves, Zenon
<1>7. y = f[1]
  BY <1>4, SubSeqFull, Zenon DEF SecondHalf
<1>8. TwoFor(f, 1, x, y, r)
  <2>1. Len(FirstHalf(f[1], 1)) = 1 =>
          TwoFor(f, 1, <<EntryBarrier, FirstHalf(f[1], 1)[1]>>, y, r)
    BY <1>2, <1>3, <1>5, Additions, CreatedTwoFor, Zenon
  <2> QED BY <2>1, <1>6, Zenon
<1>9. Instructions(s) = Instructions(f) \cup {Br} /\ Sound(s)
  BY <1>1, <1>2, <1>3, <1>4, SplitKeeps, SplitSound, Zenon
<1>10. 1 \in 1 .. Len(s) /\ Len(s[1]) = 1
  BY <1>2, <1>5, <1>6 DEF TwoFor
<1>11. EntryBarrier \notin Instructions(s)
  BY <1>1, <1>9, Additions DEF IsBarrier
<1>12. Sound(r)
  BY <1>9, <1>10, <1>11, Additions, CreateStaysSound, Zenon
<1>13. JustABarrier(x) /\ y # <<Br>> /\ f[1] # <<Br>> /\ x # <<Br>>
  <2>1. JustABarrier(x) /\ Len(x) = 2 /\ Len(<<Br>>) = 1
    BY Additions DEF JustABarrier
  <2>2. f[1] # <<Br>>
    <3>1. f[1][1] \in Instructions(f)
      BY <1>2, <1>3, <1>4, InstructionsAt, Zenon
    <3> QED BY <3>1, <1>1
  <2> QED BY <2>1, <2>2, <1>7
<1> HIDE DEF r, s, x, y
<1>14. LeadsToBarrier(r)
  BY <1>1, <1>2, <1>3, <1>8, <1>13, TwoForLeads
<1>15. Len(r) = Len(f) + 1 /\ r[1] = x
  BY <1>8 DEF TwoFor
<1>16. ASSUME NEW n \in 1 .. Len(f) PROVE Placed(f[n])
  <2>1. \A q \in 1 .. Len(f[n]) : f[n][q].id[1] # 0
    BY <1>1, <1>2, InstructionsAt
  <2> QED BY <2>1 DEF Placed
<1>17. Placed(x)
  BY Additions DEF x, Placed, IsBarrier
<1>18. ASSUME NEW n \in 1 .. Len(r) PROVE Placed(r[n])
  BY <1>2, <1>3, <1>7, <1>8, <1>16, <1>17, NewBlocks
<1>19. ASSUME NEW n \in 2 .. Len(f) + 1 PROVE r[n] = f[n - 1]
  <2>1. (n = 2 /\ n - 1 = 1) \/ n \in 3 .. Len(f) + 1
    BY <1>2
  <2>2. r[2] = y /\ \A t \in 3 .. Len(f) + 1 : r[t] = f[t - 1]
    BY <1>8 DEF TwoFor
  <2> QED BY <1>7, <2>1, <2>2
<1> QED BY <1>12, <1>13, <1>14, <1>15, <1>18, <1>19 DEF r, s

\* A block is cut in front of the only barrier it holds, or inside.
CutsWell(b, p) ==
  \/ p = 1 /\ JustABarrier(b)
  \/ p > 1 /\ p < Len(b) /\ ~JustABarrier(b)

HalvesOf(b, p, x, y) ==
  /\ b \in Seq(Instr) /\ Len(b) \in Nat /\ Ends(b[Len(b)])
  /\ x \in Seq(Instr) /\ y \in Seq(Instr)
  /\ Len(x) = p /\ x[Len(x)] = Br /\ Guarded(x)
  /\ Len(y) = Len(b) - p + 1 /\ y[Len(y)] = b[Len(b)]
  /\ p = 1 => y = b
  /\ \A q \in 1 .. Len(x) : IsBarrier(x[q]) => q < p /\ x[q] = b[q]
  /\ \A q \in 1 .. Len(y) : p + q - 1 \in 1 .. Len(b) /\ y[q] = b[p + q - 1]

LEMMA HalfFacts ==
  ASSUME NEW bs, Sound(bs), NEW i \in 1 .. Len(bs), NEW p \in 1 .. Len(bs[i])
  PROVE  HalvesOf(bs[i], p, FirstHalf(bs[i], p), SecondHalf(bs[i], p))
<1> DEFINE b == bs[i]
           x == FirstHalf(b, p)
           y == SecondHalf(b, p)
<1>1. b \in Seq(Instr) /\ Len(b) \in Nat /\ Len(b) > 0
  BY LenProperties DEF Sound, Shaped, Blocks
<1>2. Ends(b[Len(b)])
  <2>1. Len(b) \in 1 .. Len(b)
    BY <1>1
  <2> QED BY <2>1, Zenon DEF Sound, Shaped
<1>3. /\ x \in Seq(Instr) /\ y \in Seq(Instr)
      /\ Len(x) = p /\ x[p] = Br
      /\ \A q \in 1 .. p - 1 : x[q] = b[q]
      /\ Len(y) = Len(b) - p + 1
      /\ \A q \in 1 .. Len(b) - p + 1 : y[q] = b[p + q - 1]
  BY <1>1, Halves, Zenon
<1>4. p = 1 => y = b
  BY <1>1, SubSeqFull, Zenon DEF SecondHalf
<1> HIDE DEF b, x, y
<1>5. p \in Nat /\ p > 0 /\ p <= Len(b)
  BY <1>1 DEF b
<1>6. y[Len(y)] = b[Len(b)]
  <2>1. Len(y) \in 1 .. Len(b) - p + 1 /\ p + Len(y) - 1 = Len(b)
    BY <1>1, <1>3, <1>5
  <2> QED BY <2>1, <1>3
<1>7. Guarded(x)
  BY <1>3, Additions DEF Guarded
<1>8. ASSUME NEW q \in 1 .. Len(x), IsBarrier(x[q]) PROVE q < p /\ x[q] = b[q]
  <2>1. q # p
    BY <1>3, <1>8, Additions DEF IsBarrier
  <2>2. q \in 1 .. p - 1
    BY <2>1, <1>3, <1>5
  <2> QED BY <2>2, <1>3, <1>5
<1>9. ASSUME NEW q \in 1 .. Len(y)
      PROVE  p + q - 1 \in 1 .. Len(b) /\ y[q] = b[p + q - 1]
  <2>1. q \in 1 .. Len(b) - p + 1 /\ p + q - 1 \in 1 .. Len(b)
    BY <1>1, <1>3, <1>5
  <2> QED BY <2>1, <1>3
<1>10. HalvesOf(b, p, x, y)
  BY <1>1, <1>2, <1>3, <1>4, <1>6, <1>7, <1>8, <1>9 DEF HalvesOf
<1> QED BY <1>10, Zenon DEF b, x, y

LEMMA CutMade ==
  ASSUME NEW bs, Sound(bs), LeadsToBarrier(bs),
         NEW i \in 1 .. Len(bs), NEW p \in 1 .. Len(bs[i]), CutsWell(bs[i], p)
  PROVE  LET s == SplitBlock(bs, i, p)
         IN /\ Sound(s) /\ LeadsToBarrier(s) /\ Len(s) = Len(bs) + 1
            /\ TwoFor(bs, i, FirstHalf(bs[i], p), SecondHalf(bs[i], p), s)
            /\ Instructions(s) = Instructions(bs) \cup {Br}
<1> DEFINE s == SplitBlock(bs, i, p)
           b == bs[i]
           x == FirstHalf(b, p)
           y == SecondHalf(b, p)
<1>1. bs \in Blocks /\ Len(bs) \in Nat
  BY LenProperties DEF Sound, Shaped, Blocks
<1>2. TwoFor(bs, i, x, y, s)
  BY <1>1, SplitBlocks, Zenon
<1>3. Sound(s) /\ Instructions(s) = Instructions(bs) \cup {Br}
  BY <1>1, SplitSound, SplitKeeps, Zenon
<1>4. /\ Len(b) \in Nat /\ Len(x) = p /\ Len(y) = Len(b) - p + 1 /\ (p = 1 => y = b)
      /\ x \in Seq(Instr) /\ x[Len(x)] = Br /\ p \in Nat
  <2>1. HalvesOf(b, p, x, y)
    BY HalfFacts, Zenon
  <2>2. p \in Nat
    OBVIOUS
  <2> QED BY <2>1, <2>2, Zenon DEF HalvesOf
<1>5. Len(<<Br>>) = 1 /\ <<Br>>[1] = Br /\ CutsWell(b, p)
  OBVIOUS
<1> HIDE DEF s, b, x, y
<1>6. b # <<Br>> /\ y # <<Br>>
  <2>1. CASE p = 1 /\ JustABarrier(b)
    <3>1. Len(b) = 2 /\ y = b
      BY <2>1, <1>4, Zenon DEF JustABarrier
    <3>2. Len(b) # 1 /\ Len(y) # 1
      BY ONLY <3>1
    <3> QED BY <3>2, <1>5, Zenon
  <2>2. CASE p > 1 /\ p < Len(b)
    <3>1. \A k, j \in Nat : j > 1 /\ j < k => k # 1 /\ k - j + 1 # 1
      OBVIOUS
    <3>2. Len(b) # 1 /\ Len(y) # 1
      BY <3>1, <2>2, <1>4, Zenon
    <3> QED BY <3>2, <1>5, Zenon
  <2> QED BY <1>5, <2>1, <2>2, Zenon DEF CutsWell
<1>7. x = <<Br>> => JustABarrier(y)
  BY <1>4, <1>5 DEF CutsWell
<1>8. JustABarrier(b) => x = <<Br>> /\ JustABarrier(y)
  <2> SUFFICES ASSUME JustABarrier(b) PROVE x = <<Br>> /\ JustABarrier(y)
    OBVIOUS
  <2>1. p = 1
    BY <1>5 DEF CutsWell
  <2>2. x \in Seq(Instr) /\ x[1] = Br /\ Len(x) = 1
    BY <2>1, <1>4
  <2>3. x = <<Br>>
    <3>1. <<Br>> \in Seq(Instr)
      BY Additions
    <3> QED BY <3>1, <2>2, <1>5, SeqEqual
  <2> QED BY <2>1, <2>3, <1>4
<1>9. LeadsToBarrier(s)
  BY <1>1, <1>2, <1>6, <1>7, <1>8, TwoForLeads DEF b
<1>10. Len(s) = Len(bs) + 1
  BY <1>2 DEF TwoFor
<1> QED BY <1>2, <1>3, <1>9, <1>10 DEF s, b, x, y

LEMMA ExitMade ==
  ASSUME NEW bs, Sound(bs), LeadsToBarrier(bs), NEW i \in 1 .. Len(bs),
         JustABarrier(bs[1]), \A n \in 1 .. Len(bs) : Placed(bs[n]),
         \A n \in 1 .. Len(bs) : n < i => Guarded(bs[n]),
         Last(bs[i]).op = "ret", ~JustABarrier(bs[i])
  PROVE  LET r == SplitExit(bs, i, ExitBarrier(Last(bs[i])))
         IN /\ Sound(r) /\ LeadsToBarrier(r) /\ Len(r) = Len(bs) + 1
            /\ JustABarrier(r[1])
            /\ \A n \in 1 .. Len(r) : Placed(r[n]) /\ (n < i + 1 => Guarded(r[n]))
            /\ JustABarrier(r[i + 1])
            /\ \A n \in i + 2 .. Len(bs) + 1 : r[n] = bs[n - 1]
<1> DEFINE b == bs[i]
           len == Len(b)
           ret == b[len]
           bar == ExitBarrier(ret)
           r == SplitExit(bs, i, bar)
<1>1. bs \in Blocks /\ Len(bs) \in Nat
  BY LenProperties DEF Sound, Shaped, Blocks
<1>2. /\ b \in Seq(Instr) /\ len \in Nat /\ len > 0 /\ len \in 1 .. len
      /\ \A q \in 1 .. len : b[q] \in Instr
  BY <1>1, LenProperties DEF Sound, Shaped, Blocks
<1>3. ret \in Instr /\ ret.op = "ret" /\ Last(bs[i]) = ret /\ ~JustABarrier(b)
  BY <1>2 DEF Last
<1>4. Placed(b)
  OBVIOUS
<1>5. i # 1 /\ 1 \in 1 .. i - 1
  BY <1>1
<1>6. r = SplitExit(bs, i, ExitBarrier(Last(bs[i])))
  BY <1>3
<1>7. Len(b) = len
  OBVIOUS
<1>8. bs[i] = b
  OBVIOUS
<1> HIDE DEF b, len, ret, bar
\* No barrier in this block was added for a return.
<1>9. ASSUME NEW q \in 1 .. len, IsBarrier(b[q]), b[q].id[1] = 0
      PROVE  b[q].id[2] = 0
  <2>1. \/ b[q].id[2] = 0
        \/ Len(b) = 2 /\ q = 1
    BY <1>4, <1>7, <1>9 DEF Placed
  <2>2. ~(Len(b) = 2 /\ q = 1)
    BY <1>3, <1>9 DEF JustABarrier
  <2> QED BY <2>1, <2>2
<1>10. ASSUME NEW x, NEW y, TwoFor(bs, i, x, y, r), Sound(r), LeadsToBarrier(r),
             Placed(x), Placed(y), Guarded(x), JustABarrier(y)
      PROVE  /\ Sound(r) /\ LeadsToBarrier(r) /\ Len(r) = Len(bs) + 1
             /\ JustABarrier(r[1])
             /\ \A n \in 1 .. Len(r) : Placed(r[n]) /\ (n < i + 1 => Guarded(r[n]))
             /\ JustABarrier(r[i + 1])
             /\ \A n \in i + 2 .. Len(bs) + 1 : r[n] = bs[n - 1]
  <2> HIDE DEF r
  <2>1. Len(r) = Len(bs) + 1 /\ r[1] = bs[1]
    BY <1>5, <1>10 DEF TwoFor
  <2>2. ASSUME NEW n \in 1 .. Len(r)
        PROVE  Placed(r[n]) /\ (n < i + 1 => Guarded(r[n]))
    <3>1. \/ n < i /\ n \in 1 .. Len(bs) /\ r[n] = bs[n]
          \/ n = i /\ r[n] = x
          \/ n = i + 1 /\ r[n] = y
          \/ n > i + 1 /\ n - 1 \in 1 .. Len(bs) /\ r[n] = bs[n - 1]
      BY <1>1, <1>10, NewBlocks
    <3> QED BY <3>1, <1>1, <1>10
  <2>3. r[i + 1] = y /\ \A n \in i + 2 .. Len(bs) + 1 : r[n] = bs[n - 1]
    BY <1>10 DEF TwoFor
  <2> QED BY <2>1, <2>2, <2>3, <1>10
<1>11. ASSUME NEW p \in 1 .. len
       PROVE  /\ FirstHalf(b, p) \in Seq(Instr) /\ Len(FirstHalf(b, p)) = p
              /\ Guarded(FirstHalf(b, p)) /\ Placed(FirstHalf(b, p))
              /\ Len(SecondHalf(b, p)) = len - p + 1
              /\ \A q \in 1 .. Len(SecondHalf(b, p)) :
                   p + q - 1 \in 1 .. len /\ SecondHalf(b, p)[q] = b[p + q - 1]
              /\ Placed(SecondHalf(b, p))
  <2>1. p \in 1 .. Len(bs[i])
    BY <1>7 DEF b
  <2> DEFINE x == FirstHalf(b, p)
             y == SecondHalf(b, p)
  <2>2. /\ x \in Seq(Instr) /\ Len(x) = p /\ Guarded(x)
        /\ Len(y) = Len(b) - p + 1
        /\ \A q \in 1 .. Len(x) : IsBarrier(x[q]) => q < p /\ x[q] = b[q]
        /\ \A q \in 1 .. Len(y) : p + q - 1 \in 1 .. Len(b) /\ y[q] = b[p + q - 1]
    <3>1. HalvesOf(b, p, x, y)
      BY <2>1, HalfFacts, Zenon DEF b
    <3> QED BY <3>1, Zenon DEF HalvesOf
  <2>3. Placed(FirstHalf(b, p))
    <3> SUFFICES ASSUME NEW q \in 1 .. Len(FirstHalf(b, p)),
                        IsBarrier(FirstHalf(b, p)[q]),
                        FirstHalf(b, p)[q].id[1] = 0
                 PROVE  FirstHalf(b, p)[q].id[2] = 0
      BY DEF Placed
    <3>1. q < p /\ FirstHalf(b, p)[q] = b[q]
      BY <2>2
    <3>2. q \in 1 .. len
      BY <3>1, <2>2, <1>2
    <3> QED BY <3>1, <3>2, <1>9
  <2>4. Placed(SecondHalf(b, p))
    <3> SUFFICES ASSUME NEW q \in 1 .. Len(SecondHalf(b, p)),
                        IsBarrier(SecondHalf(b, p)[q]),
                        SecondHalf(b, p)[q].id[1] = 0
                 PROVE  SecondHalf(b, p)[q].id[2] = 0
      BY DEF Placed
    <3>1. p + q - 1 \in 1 .. len /\ SecondHalf(b, p)[q] = b[p + q - 1]
      BY <2>2, <1>7
    <3> QED BY <3>1, <1>9
  <2> QED BY <2>2, <2>3, <2>4, <1>7
<1>12. CASE EndsWithBarrier(b)
  <2> DEFINE p == len - 1
  <2>1. len > 1 /\ IsBarrier(b[p]) /\ p \in 1 .. len
    BY <1>2, <1>7, <1>12 DEF EndsWithBarrier
  <2>2. len # 2
    BY <2>1, <1>3, <1>7 DEF JustABarrier
  <2>3. r = SplitBlock(bs, i, p)
    BY <1>12 DEF SplitExit, b, len
  <2>4. CutsWell(bs[i], p) /\ p \in 1 .. Len(bs[i])
    BY <2>1, <2>2, <1>2, <1>3, <1>7 DEF CutsWell, b
  <2> HIDE DEF p, r
  <2>5. /\ Sound(r) /\ LeadsToBarrier(r)
        /\ TwoFor(bs, i, FirstHalf(bs[i], p), SecondHalf(bs[i], p), r)
    BY <2>3, <2>4, CutMade
  <2>6. TwoFor(bs, i, FirstHalf(b, p), SecondHalf(b, p), r)
    BY <2>5 DEF b
  <2>7. /\ Sound(r) /\ LeadsToBarrier(r) /\ Len(r) = Len(bs) + 1 /\ JustABarrier(r[1])
        /\ \A n \in 1 .. Len(r) : Placed(r[n]) /\ (n < i + 1 => Guarded(r[n]))
        /\ JustABarrier(r[i + 1])
        /\ \A n \in i + 2 .. Len(bs) + 1 : r[n] = bs[n - 1]
    <3>1. JustABarrier(SecondHalf(b, p))
      <4>1. /\ Len(SecondHalf(b, p)) = len - p + 1
            /\ \A q \in 1 .. Len(SecondHalf(b, p)) : SecondHalf(b, p)[q] = b[p + q - 1]
        BY <2>1, <1>11
      <4>2. len - p + 1 = 2 /\ p + 1 - 1 = p
        BY <2>1, <1>2 DEF p
      <4>3. Len(SecondHalf(b, p)) = 2 /\ SecondHalf(b, p)[1] = b[p]
        BY <4>1, <4>2
      <4> QED BY <4>3, <2>1 DEF JustABarrier
    <3> QED BY <2>1, <2>5, <2>6, <3>1, <1>10, <1>11
  <2> QED BY <2>7, <1>6
<1>13. CASE ~EndsWithBarrier(b)
  <2> DEFINE s == SplitBlock(bs, i, len)
             x == FirstHalf(b, len)
             y == SecondHalf(b, len)
             z == <<bar, ret>>
  <2>1. r = CreateBarrier(s, i + 1, bar)
    BY <1>13 DEF SplitExit, b, len
  <2>2. len \in 1 .. Len(bs[i])
    BY <1>2, <1>7 DEF b
  <2>3. s \in Blocks /\ TwoFor(bs, i, x, y, s)
    BY <1>1, <1>8, <2>2, SplitBlocks, Zenon
  <2>4. /\ Sound(s) /\ Instructions(s) = Instructions(bs) \cup {Br}
    BY <1>1, <2>2, SplitSound, SplitKeeps, Zenon
  <2>5. Len(y) = 1 /\ y[1] = ret
    <3>1. Len(y) = len - len + 1 /\ \A q \in 1 .. Len(y) : y[q] = b[len + q - 1]
      BY <1>2, <1>11
    <3>2. 1 \in 1 .. Len(y) /\ len - len + 1 = 1 /\ len + 1 - 1 = len
      BY <3>1, <1>2
    <3> QED BY <3>1, <3>2 DEF ret
  <2>6. /\ bar \in Instr /\ IsBarrier(bar) /\ bar.id = <<0, ret.id[1]>>
    BY <1>3, Additions DEF bar
  <2>7. i + 1 \in 1 .. Len(s) /\ Len(s[i + 1]) = 1
    BY <2>3, <2>5, <1>1 DEF TwoFor
  <2>8. ret \in Instructions(bs) /\ ret.id[1] # 0
    <3>1. ret \in Instructions(bs)
      BY <1>1, <1>8, <2>2, InstructionsAt, Zenon DEF ret
    <3> QED BY <3>1, <1>3 DEF Sound, Rets
  <2>9. bar \notin Instructions(s)
    <3>1. bar # Br
      BY <2>6, Additions DEF IsBarrier
    <3> SUFFICES ASSUME bar \in Instructions(bs) PROVE FALSE
      BY <3>1, <2>4
    <3>2. PICK n \in 1 .. Len(bs) : \E q \in 1 .. Len(bs[n]) : bs[n][q] = bar
      BY <1>1, InstructionsAt, Zenon
    <3>3. PICK q \in 1 .. Len(bs[n]) : bs[n][q] = bar
      BY <3>2
    <3>4. Placed(bs[n])
      OBVIOUS
    <3>5. /\ Len(bs[n]) = 2 /\ q = 1 /\ bs[n][2].op = "ret"
          /\ bs[n][2].id[1] = ret.id[1]
      <4>1. IsBarrier(bs[n][q]) /\ bs[n][q].id[1] = 0 /\ bs[n][q].id[2] = ret.id[1]
        BY <3>3, <2>6
      <4>2. \/ bs[n][q].id[2] = 0
            \/ /\ Len(bs[n]) = 2 /\ q = 1 /\ bs[n][2].op = "ret"
               /\ bs[n][2].id[1] = bs[n][q].id[2]
        BY <3>4, <4>1, Zenon DEF Placed
      <4> QED BY <4>1, <4>2, <2>8, Zenon
    <3>6. bs[n][2] \in Instructions(bs)
      <4>1. 2 \in 1 .. Len(bs[n])
        BY <3>5
      <4> QED BY <4>1, <1>1, InstructionsAt, Zenon
    <3>7. bs[n][2] = ret
      BY <3>5, <3>6, <2>8, <1>3 DEF Sound, Rets
    <3>8. n = i /\ len = 2
      <4>1. 2 \in 1 .. Len(bs[n]) /\ bs[n][2] = bs[i][len] /\ bs[n][2] # Br
        BY <3>5, <3>7, <1>8, <1>3, Additions DEF ret
      <4>2. Distinct(bs) /\ len \in 1 .. Len(bs[i])
        BY <2>2 DEF Sound
      <4> QED BY <4>1, <4>2, OnePlace, Zenon
    <3> QED BY <3>3, <3>5, <3>8, <2>6, <1>8, <1>3 DEF JustABarrier
  <2>10. Sound(r)
    BY <2>1, <2>4, <2>6, <2>7, <2>9, CreateStaysSound
  <2>11. TwoFor(bs, i, x, z, r)
    <3> HIDE DEF s, x, y, z, r
    <3>1. Len(y) = 1 => TwoFor(bs, i, x, <<bar, y[1]>>, CreateBarrier(s, i + 1, bar))
      BY <1>1, <2>3, <2>6, CreatedTwoFor, Zenon
    <3>2. z = <<bar, y[1]>>
      BY <2>5 DEF z
    <3> QED BY <3>1, <3>2, <2>1, <2>5, Zenon
  <2>12. JustABarrier(z) /\ Len(z) = 2 /\ z[1] = bar /\ z[2] = ret
    BY <2>6 DEF JustABarrier
  <2>13. z # <<Br>> /\ b # <<Br>>
    <3>1. Len(<<Br>>) = 1 /\ <<Br>>[1] = Br
      OBVIOUS
    <3>2. b # <<Br>>
      BY <3>1, <1>2, <1>3, <1>7, Additions DEF ret
    <3> QED BY <3>1, <3>2, <2>12
  <2>14. Placed(z)
    BY <2>6, <2>12, <1>3 DEF Placed, IsBarrier
  <2> HIDE DEF r, s, x, y, z
  <2>15. LeadsToBarrier(r)
    BY <2>11, <2>12, <2>13, <1>1, <1>3, <1>8, TwoForLeads
  <2>16. Placed(x) /\ Guarded(x)
    BY <1>2, <1>11 DEF x
  <2>17. /\ Sound(r) /\ LeadsToBarrier(r) /\ Len(r) = Len(bs) + 1 /\ JustABarrier(r[1])
         /\ \A n \in 1 .. Len(r) : Placed(r[n]) /\ (n < i + 1 => Guarded(r[n]))
         /\ JustABarrier(r[i + 1])
         /\ \A n \in i + 2 .. Len(bs) + 1 : r[n] = bs[n - 1]
    BY <2>10, <2>11, <2>12, <2>14, <2>15, <2>16, <1>10
  <2> QED BY <2>17, <1>6
<1> QED BY <1>12, <1>13

\* One turn of the loop over BarrierSet.
LEMMA BarrierMade ==
  ASSUME NEW bs, Sound(bs), LeadsToBarrier(bs), JustABarrier(bs[1]),
         NEW T, \A n \in 1 .. Len(bs) : Guarded(bs[n]) /\ Isolated(bs[n], T),
         NEW i \in 1 .. Len(bs), NEW p \in 1 .. Len(bs[i]), IsBarrier(bs[i][p])
  PROVE  LET r == SplitBeforeBarrier(SplitAfterBarrier(bs, i, p), i, p)
         IN /\ Sound(r) /\ LeadsToBarrier(r) /\ JustABarrier(r[1])
            /\ Len(r) >= Len(bs) /\ Instructions(bs) \subseteq Instructions(r)
            /\ \A n \in 1 .. Len(r) : /\ Guarded(r[n])
                                      /\ Isolated(r[n], T \ {bs[i][p]})
<1> DEFINE bar == bs[i][p]
           Holds(s, U) == /\ Sound(s) /\ LeadsToBarrier(s) /\ JustABarrier(s[1])
                          /\ Len(s) \in Nat /\ Len(s) >= Len(bs)
                          /\ Instructions(bs) \subseteq Instructions(s)
                          /\ \A n \in 1 .. Len(s) : Guarded(s[n]) /\ Isolated(s[n], U)
<1>1. Len(bs) \in Nat /\ bs[i] \in Seq(Instr) /\ Len(bs[i]) \in Nat
  BY LenProperties DEF Sound, Shaped, Blocks
<1>2. p # Len(bs[i]) /\ p < Len(bs[i])
  <2>1. ~Ends(bar)
    BY DEF Ends, IsBarrier
  <2>2. p # Len(bs[i])
    BY <2>1, Zenon DEF Sound, Shaped
  <2> QED BY <2>2, <1>1
<1>3. bar # Br
  BY Additions DEF IsBarrier
\* What a cut does to the blocks that are not cut.
<1>4. ASSUME NEW s, Holds(s, T), NEW U, NEW j \in 1 .. Len(s), NEW q \in 1 .. Len(s[j]),
             CutsWell(s[j], q), ~(j = 1 /\ q = 1),
             Guarded(SecondHalf(s[j], q)),
             Isolated(FirstHalf(s[j], q), U), Isolated(SecondHalf(s[j], q), U),
             \A n \in 1 .. Len(s) : n # j => Isolated(s[n], U)
      PROVE  Holds(SplitBlock(s, j, q), U)
  <2> DEFINE r == SplitBlock(s, j, q)
  <2>1. /\ Sound(r) /\ LeadsToBarrier(r) /\ Len(r) = Len(s) + 1
        /\ TwoFor(s, j, FirstHalf(s[j], q), SecondHalf(s[j], q), r)
        /\ Instructions(r) = Instructions(s) \cup {Br}
    BY <1>4, CutMade
  <2>2. Guarded(FirstHalf(s[j], q))
    <3>1. HalvesOf(s[j], q, FirstHalf(s[j], q), SecondHalf(s[j], q))
      BY <1>4, HalfFacts, Zenon
    <3> QED BY <3>1, Zenon DEF HalvesOf
  <2> HIDE DEF r
  <2>3. JustABarrier(r[1])
    <3>1. j # 1
      BY <1>4 DEF CutsWell
    <3>2. 1 \in 1 .. j - 1
      BY <3>1, <1>4
    <3> QED BY <3>2, <2>1, <1>4 DEF TwoFor
  <2>4. ASSUME NEW n \in 1 .. Len(r) PROVE Guarded(r[n]) /\ Isolated(r[n], U)
    <3>1. \/ n < j /\ n \in 1 .. Len(s) /\ r[n] = s[n]
          \/ n = j /\ r[n] = FirstHalf(s[j], q)
          \/ n = j + 1 /\ r[n] = SecondHalf(s[j], q)
          \/ n > j + 1 /\ n - 1 \in 1 .. Len(s) /\ r[n] = s[n - 1]
      <4>1. Len(s) \in Nat /\ j \in 1 .. Len(s) /\ n \in 1 .. Len(r)
        BY <1>4
      <4> DEFINE x == FirstHalf(s[j], q)
                 y == SecondHalf(s[j], q)
      <4>2. TwoFor(s, j, x, y, r)
        BY <2>1
      <4> HIDE DEF x, y, Holds
      <4>3. \/ n < j /\ n \in 1 .. Len(s) /\ r[n] = s[n]
            \/ n = j /\ r[n] = x
            \/ n = j + 1 /\ r[n] = y
            \/ n > j + 1 /\ n - 1 \in 1 .. Len(s) /\ r[n] = s[n - 1]
        BY ONLY <4>1, <4>2, NewBlocks
      <4> QED BY <4>3 DEF x, y
    <3> QED BY <3>1, <2>2, <1>4
  <2>5. Holds(r, U)
    BY <2>1, <2>3, <2>4, <1>1, <1>4
  <2> QED BY <2>5 DEF r
<1>5. Holds(bs, T)
  BY <1>1
<1>6. PICK s : s = SplitAfterBarrier(bs, i, p)
  OBVIOUS
\* Behind the barrier.
<1>7. Holds(s, T) /\ i \in 1 .. Len(s) /\ s[i] \in Seq(Instr) /\ Len(s[i]) = p + 1
      /\ s[i][p] = bar
  <2>1. CASE p + 1 = Len(bs[i])
    <3>1. s = bs
      BY <2>1, <1>6 DEF SplitAfterBarrier
    <3> QED BY <3>1, <2>1, <1>1, <1>5
  <2>2. CASE p + 1 # Len(bs[i])
    <3>1. PICK q \in 1 .. Len(bs[i]) : q = p + 1
      BY <1>1, <1>2
    <3> DEFINE x == FirstHalf(bs[i], q)
               y == SecondHalf(bs[i], q)
    <3>2. s = SplitBlock(bs, i, q)
      BY <2>2, <3>1, <1>6 DEF SplitAfterBarrier
    <3>3. q > 1 /\ q < Len(bs[i]) /\ Len(bs[i]) # 2
      <4>1. \A j, k \in Nat : j > 0 /\ j < k /\ j + 1 # k =>
              j + 1 > 1 /\ j + 1 < k /\ k # 2
        OBVIOUS
      <4>2. p \in Nat /\ p > 0
        BY <1>1
      <4> QED BY <4>1, <4>2, <2>2, <3>1, <1>1, <1>2, Zenon
    <3>4. ~JustABarrier(bs[i])
      BY <3>3 DEF JustABarrier
    <3>5. /\ x \in Seq(Instr) /\ Len(x) = q /\ Len(y) = Len(bs[i]) - q + 1
          /\ y[Len(y)] = bs[i][Len(bs[i])]
          /\ \A t \in 1 .. Len(x) : IsBarrier(x[t]) => t < q /\ x[t] = bs[i][t]
          /\ \A t \in 1 .. Len(y) : q + t - 1 \in 1 .. Len(bs[i])
                                    /\ y[t] = bs[i][q + t - 1]
      <4>1. HalvesOf(bs[i], q, x, y)
        BY HalfFacts, Zenon
      <4> QED BY <4>1, Zenon DEF HalvesOf
    <3>6. x[p] = bs[i][p]
      <4>1. /\ \A t \in 1 .. q - 1 : x[t] = bs[i][t]
        BY <3>3, <1>1, Halves
      <4>2. p \in 1 .. q - 1
        BY <3>1, <1>1
      <4> QED BY <4>1, <4>2
    <3> HIDE DEF x, y
    <3>7. Guarded(bs[i]) /\ Isolated(bs[i], T)
      OBVIOUS
    <3>8. Guarded(y)
      BY <3>4, <3>5, <3>7 DEF Guarded
    <3>9. Isolated(x, T)
      <4> SUFFICES ASSUME NEW t \in 1 .. Len(x), IsBarrier(x[t]), x[t] \notin T
                   PROVE  FALSE
        BY DEF Isolated
      <4>1. t < q /\ x[t] = bs[i][t]
        BY <3>5
      <4>2. t \in 1 .. Len(bs[i])
        BY <4>1, <3>3, <3>5, <1>1
      <4> QED BY <4>1, <4>2, <3>4, <3>7 DEF Isolated
    <3>10. Isolated(y, T)
      BY <3>4, <3>5, <3>7 DEF Isolated
    <3>11. \A n \in 1 .. Len(bs) : n # i => Isolated(bs[n], T)
      OBVIOUS
    <3>12. CutsWell(bs[i], q) /\ ~(i = 1 /\ q = 1)
      BY <3>3, <3>4 DEF CutsWell
    <3>13. Holds(SplitBlock(bs, i, q), T)
      <4> HIDE DEF Holds
      <4> QED BY <3>3, <3>8, <3>9, <3>10, <3>11, <3>12, <1>4, <1>5 DEF x, y
    <3>14. s[i] = x /\ Len(s) = Len(bs) + 1
      <4>1. TwoFor(bs, i, FirstHalf(bs[i], q), SecondHalf(bs[i], q),
                   SplitBlock(bs, i, q))
        BY <3>3, SplitBlocks DEF Sound, Shaped
      <4> QED BY <4>1, <3>2 DEF TwoFor, x
    <3>15. Holds(s, T)
      BY <3>2, <3>13
    <3>16. s[i] \in Seq(Instr) /\ Len(s[i]) = p + 1 /\ s[i][p] = bar
      BY <3>1, <3>5, <3>6, <3>14
    <3>17. i \in 1 .. Len(s)
      BY <3>14, <1>1
    <3> HIDE DEF Holds
    <3> QED BY <3>15, <3>16, <3>17, Zenon
  <2> QED BY <2>1, <2>2
<1>8. PICK r : r = SplitBeforeBarrier(s, i, p)
  OBVIOUS
<1> DEFINE U == T \ {bar}
\* The barrier is in one place only.
<1>9. ASSUME NEW n \in 1 .. Len(s), NEW q \in 1 .. Len(s[n]), s[n][q] = bar
      PROVE  n = i /\ q = p
  <2>1. p \in 1 .. Len(s[i])
    BY <1>1, <1>7
  <2>2. Distinct(s) /\ i \in 1 .. Len(s)
    BY <1>7 DEF Sound
  <2>3. s[n][q] = s[i][p] /\ s[n][q] # Br
    BY <1>3, <1>7, <1>9
  <2> HIDE DEF Holds
  <2> QED BY <2>1, <2>2, <2>3, OnePlace, Zenon
<1>10. \A n \in 1 .. Len(s) : n # i => Isolated(s[n], U)
  BY <1>7, <1>9 DEF Isolated
<1> HIDE DEF bar, U
\* In front of it.
<1>11. Holds(r, U)
  <2>1. CASE i = 1 /\ p = 1
    <3>1. r = s
      BY <2>1, <1>8 DEF SplitBeforeBarrier
    <3>2. Isolated(s[1], U)
      BY <1>7 DEF Isolated
    <3> QED BY <3>1, <3>2, <2>1, <1>7, <1>10
  <2>2. CASE ~(i = 1 /\ p = 1)
    <3> DEFINE x == FirstHalf(s[i], p)
               y == SecondHalf(s[i], p)
    <3>1. r = SplitBlock(s, i, p)
      BY <2>2, <1>8 DEF SplitBeforeBarrier
    <3>2. p \in 1 .. Len(s[i]) /\ p < Len(s[i])
      BY <1>1, <1>7
    <3>3. CutsWell(s[i], p)
      <4>1. CASE p = 1
        BY <4>1, <1>7 DEF CutsWell, JustABarrier, bar
      <4>2. CASE p # 1
        <5>1. p > 1 /\ Len(s[i]) # 2
          BY <4>2, <1>1, <1>7
        <5> QED BY <5>1, <3>2 DEF CutsWell, JustABarrier
      <4> QED BY <4>1, <4>2
    <3>4. /\ Len(x) = p /\ Len(y) = Len(s[i]) - p + 1
          /\ \A t \in 1 .. Len(x) : IsBarrier(x[t]) => t < p /\ x[t] = s[i][t]
          /\ \A t \in 1 .. Len(y) : y[t] = s[i][p + t - 1]
      <4>1. Sound(s) /\ i \in 1 .. Len(s) /\ p \in 1 .. Len(s[i])
        BY <1>7, <3>2
      <4>2. HalvesOf(s[i], p, x, y)
        BY <4>1, HalfFacts, Zenon
      <4> QED BY <4>2, Zenon DEF HalvesOf
    <3> HIDE DEF x, y
    <3>5. JustABarrier(y)
      <4>1. Len(y) = 2 /\ 1 \in 1 .. Len(y) /\ p + 1 - 1 = p
        BY <3>4, <1>1, <1>7
      <4> QED BY <4>1, <3>4, <1>7 DEF JustABarrier, bar
    <3>6. Guarded(y) /\ Isolated(y, U)
      BY <3>5 DEF Guarded, Isolated
    <3>7. Isolated(x, U)
      <4> SUFFICES ASSUME NEW t \in 1 .. Len(x), IsBarrier(x[t]), x[t] \notin U
                   PROVE  FALSE
        BY DEF Isolated
      <4>1. t < p /\ x[t] = s[i][t]
        BY <3>4
      <4>2. t \in 1 .. Len(s[i]) /\ t # p
        BY <4>1, <3>2, <3>4, <1>1
      <4>3. x[t] # bar /\ x[t] \notin T
        BY <4>1, <4>2, <1>7, <1>9 DEF U
      <4>4. JustABarrier(s[i])
        BY <4>1, <4>2, <4>3, <1>7 DEF Isolated
      <4>5. p = 1
        <5>1. p + 1 = 2
          BY <4>4, <1>7 DEF JustABarrier
        <5> QED BY <5>1, <1>1
      <4> QED BY <4>1, <4>5
    <3> HIDE DEF Holds
    <3>8. i \in 1 .. Len(s)
      BY <1>7
    <3>9. Holds(SplitBlock(s, i, p), U)
      BY <2>2, <3>2, <3>3, <3>6, <3>7, <3>8, <1>4, <1>7, <1>10 DEF x, y
    <3> QED BY <3>1, <3>9
  <2> QED BY <2>1, <2>2
<1> QED BY <1>6, <1>8, <1>11 DEF U, bar

-----------------------------------------------------------------------------
(***************************************************************************)
(* The inductive invariant: the blocks are sound, empty blocks lead to a   *)
(* barrier, and each phase has done its part.                              *)
(***************************************************************************)
PhaseInv ==
  /\ pc = "entry" => blocks = source /\ scan = 1
  /\ pc # "entry" => JustABarrier(blocks[1])
  /\ pc = "exits" => \A n \in 1 .. Len(blocks) :
                       Placed(blocks[n]) /\ (n < scan => Guarded(blocks[n]))
  /\ pc \in {"entry", "exits", "done"} => todo = {}
  /\ pc \in {"split", "done"} => \A n \in 1 .. Len(blocks) :
                                   Guarded(blocks[n]) /\ Isolated(blocks[n], todo)

IInv ==
  /\ source \in Functions
  /\ pc \in {"entry", "exits", "split", "done"}
  /\ scan \in 1 .. Len(blocks) + 1
  /\ todo \subseteq {i \in Instructions(blocks) : IsBarrier(i)}
  /\ Sound(blocks) /\ LeadsToBarrier(blocks)
  /\ PhaseInv

LEMMA InitIInv == Init => IInv
<1> SUFFICES ASSUME Init PROVE IInv
  OBVIOUS
<1>1. source \in Functions /\ blocks = source /\ pc = "entry" /\ scan = 1 /\ todo = {}
  BY DEF Init
<1>2. Sound(blocks) /\ LeadsToBarrier(blocks)
  BY <1>1, SourceSound
<1>3. 1 \in 1 .. Len(blocks) + 1
  BY <1>2, LenProperties DEF Sound, Shaped, Blocks
<1> QED BY <1>1, <1>2, <1>3 DEF IInv, PhaseInv

LEMMA EntryIInv == IInv /\ HiveOffEntry => IInv'
<1> SUFFICES ASSUME IInv, HiveOffEntry PROVE IInv'
  OBVIOUS
<1>1. /\ pc = "entry" /\ pc' = "exits" /\ source' = source /\ scan' = scan
      /\ todo' = todo /\ todo = {} /\ blocks = source /\ scan = 1
      /\ source \in Functions /\ Sound(blocks) /\ LeadsToBarrier(blocks)
  BY DEF IInv, PhaseInv, HiveOffEntry
<1>2. Sound(blocks') /\ LeadsToBarrier(blocks') /\ JustABarrier(blocks'[1])
      /\ \A n \in 1 .. Len(blocks') : Placed(blocks'[n])
  <2>1. CASE JustABarrier(blocks[1])
    <3>1. blocks' = blocks
      BY <2>1 DEF HiveOffEntry
    <3>2. ASSUME NEW n \in 1 .. Len(blocks) PROVE Placed(blocks[n])
      <4>1. \A j \in Instructions(blocks) : j.id[1] # 0
        BY <1>1, SourceSound
      <4>2. \A q \in 1 .. Len(blocks[n]) : blocks[n][q] \in Instructions(blocks)
        BY <1>1, InstructionsAt, Zenon DEF Sound, Shaped
      <4> QED BY <4>1, <4>2 DEF Placed
    <3> QED BY <2>1, <3>1, <3>2, <1>1
  <2>2. CASE ~JustABarrier(blocks[1])
    <3>1. blocks' = CreateBarrier(SplitBlock(source, 1, 1), 1, EntryBarrier)
      BY <2>2, <1>1 DEF HiveOffEntry
    <3>2. ~JustABarrier(source[1])
      BY <2>2, <1>1
    <3> QED BY <3>1, <3>2, <1>1, EntryMade
  <2> QED BY <2>1, <2>2
<1>3. scan' \in 1 .. Len(blocks') + 1 /\ \A n \in 1 .. Len(blocks') : ~(n < scan')
  <2>1. Len(blocks') \in Nat
    BY <1>2, LenProperties DEF Sound, Shaped, Blocks
  <2> QED BY <2>1, <1>1
<1> QED BY <1>1, <1>2, <1>3 DEF IInv, PhaseInv

LEMMA ExitIInv == IInv /\ HiveOffExit => IInv'
<1> SUFFICES ASSUME IInv, HiveOffExit PROVE IInv'
  OBVIOUS
<1>1. /\ pc = "exits" /\ pc' = "exits" /\ source' = source /\ scan' = scan + 1
      /\ todo' = todo /\ todo = {} /\ scan <= Len(blocks)
      /\ source \in Functions /\ Sound(blocks) /\ LeadsToBarrier(blocks)
      /\ JustABarrier(blocks[1]) /\ scan \in 1 .. Len(blocks) + 1
      /\ \A n \in 1 .. Len(blocks) :
           Placed(blocks[n]) /\ (n < scan => Guarded(blocks[n]))
  BY DEF IInv, PhaseInv, HiveOffExit
<1>2. Len(blocks) \in Nat
  BY <1>1, LenProperties DEF Sound, Shaped, Blocks
<1>3. scan \in 1 .. Len(blocks)
  BY <1>1, <1>2
<1>4. /\ Sound(blocks') /\ LeadsToBarrier(blocks') /\ JustABarrier(blocks'[1])
      /\ Len(blocks') \in Nat /\ Len(blocks') >= Len(blocks)
      /\ \A n \in 1 .. Len(blocks') :
           Placed(blocks'[n]) /\ (n < scan + 1 => Guarded(blocks'[n]))
  <2>1. CASE Last(blocks[scan]).op = "ret" /\ ~JustABarrier(blocks[scan])
    <3>1. blocks' = SplitExit(blocks, scan, ExitBarrier(Last(blocks[scan])))
      BY <2>1 DEF HiveOffExit
    <3>2. /\ Sound(blocks') /\ LeadsToBarrier(blocks') /\ Len(blocks') = Len(blocks) + 1
          /\ JustABarrier(blocks'[1])
          /\ \A n \in 1 .. Len(blocks') :
               Placed(blocks'[n]) /\ (n < scan + 1 => Guarded(blocks'[n]))
      BY <2>1, <3>1, <1>1, <1>3, ExitMade
    <3> QED BY <3>2, <1>2
  <2>2. CASE ~(Last(blocks[scan]).op = "ret" /\ ~JustABarrier(blocks[scan]))
    <3>1. blocks' = blocks
      BY <2>2 DEF HiveOffExit
    <3>2. Guarded(blocks[scan])
      BY <2>2 DEF Guarded, Last
    <3>3. ASSUME NEW n \in 1 .. Len(blocks), n < scan + 1 PROVE Guarded(blocks[n])
      <4>1. n < scan \/ n = scan
        BY <3>3, <1>3
      <4> QED BY <4>1, <3>2, <1>1
    <3> QED BY <3>1, <3>3, <1>1, <1>2
  <2> QED BY <2>1, <2>2
<1>5. scan' \in 1 .. Len(blocks') + 1
  BY <1>1, <1>2, <1>3, <1>4
<1> QED BY <1>1, <1>4, <1>5 DEF IInv, PhaseInv

LEMMA CollectIInv == IInv /\ CollectBarriers => IInv'
<1> SUFFICES ASSUME IInv, CollectBarriers PROVE IInv'
  OBVIOUS
<1>1. /\ pc = "exits" /\ pc' = "split" /\ source' = source /\ blocks' = blocks
      /\ todo' = {i \in Instructions(blocks) : IsBarrier(i)} /\ scan' = 1
      /\ scan > Len(blocks) /\ scan \in 1 .. Len(blocks) + 1
      /\ source \in Functions /\ Sound(blocks) /\ LeadsToBarrier(blocks)
      /\ JustABarrier(blocks[1])
      /\ \A n \in 1 .. Len(blocks) :
           Placed(blocks[n]) /\ (n < scan => Guarded(blocks[n]))
  BY DEF IInv, PhaseInv, CollectBarriers
<1>2. Len(blocks) \in Nat
  BY <1>1, LenProperties DEF Sound, Shaped, Blocks
<1>3. 1 \in 1 .. Len(blocks) + 1 /\ \A n \in 1 .. Len(blocks) : n < scan
  BY <1>1, <1>2
<1>4. ASSUME NEW n \in 1 .. Len(blocks) PROVE Isolated(blocks[n], todo')
  <2>1. \A q \in 1 .. Len(blocks[n]) : blocks[n][q] \in Instructions(blocks)
    BY <1>1, InstructionsAt, Zenon DEF Sound, Shaped
  <2> QED BY <2>1, <1>1 DEF Isolated
<1> QED BY <1>1, <1>3, <1>4 DEF IInv, PhaseInv

LEMMA ProcessIInv == ASSUME NEW i PROVE IInv /\ ProcessBarrier(i) => IInv'
<1> SUFFICES ASSUME IInv, ProcessBarrier(i) PROVE IInv'
  OBVIOUS
<1> DEFINE n == Block(blocks, i)
           p == Position(blocks[n], i)
<1>1. /\ pc = "split" /\ pc' = "split" /\ source' = source /\ scan' = scan
      /\ todo' = todo \ {i} /\ i \in todo
      /\ scan \in 1 .. Len(blocks) + 1
      /\ todo \subseteq {j \in Instructions(blocks) : IsBarrier(j)}
      /\ source \in Functions /\ Sound(blocks) /\ LeadsToBarrier(blocks)
      /\ JustABarrier(blocks[1])
      /\ \A k \in 1 .. Len(blocks) : Guarded(blocks[k]) /\ Isolated(blocks[k], todo)
  BY DEF IInv, PhaseInv, ProcessBarrier
<1>2. blocks' = SplitBeforeBarrier(SplitAfterBarrier(blocks, n, p), n, p)
  BY DEF ProcessBarrier
<1>3. blocks \in Blocks /\ Len(blocks) \in Nat /\ DOMAIN blocks = 1 .. Len(blocks)
  BY <1>1, LenProperties DEF Sound, Shaped, Blocks
<1>4. IsBarrier(i) /\ \E m \in DOMAIN blocks : i \in Range(blocks[m])
  BY <1>1 DEF Instructions
<1>5. n \in DOMAIN blocks /\ i \in Range(blocks[n])
  BY <1>4, Zenon DEF Block
<1>6. blocks[n] \in Seq(Instr)
  BY <1>3, <1>5 DEF Blocks
<1>7. p \in DOMAIN blocks[n] /\ blocks[n][p] = i
  <2>1. \E q \in DOMAIN blocks[n] : blocks[n][q] = i
    BY <1>5 DEF Range
  <2> QED BY <2>1, Zenon DEF Position
<1> HIDE DEF n, p
<1>8. n \in 1 .. Len(blocks) /\ p \in 1 .. Len(blocks[n])
  BY <1>3, <1>5, <1>6, <1>7, LenProperties
<1>9. /\ Sound(blocks') /\ LeadsToBarrier(blocks') /\ JustABarrier(blocks'[1])
      /\ Len(blocks') >= Len(blocks)
      /\ Instructions(blocks) \subseteq Instructions(blocks')
      /\ \A k \in 1 .. Len(blocks') : Guarded(blocks'[k]) /\ Isolated(blocks'[k], todo')
  <2>1. IsBarrier(blocks[n][p])
    BY <1>4, <1>7
  <2>2. LET r == SplitBeforeBarrier(SplitAfterBarrier(blocks, n, p), n, p)
        IN /\ Sound(r) /\ LeadsToBarrier(r) /\ JustABarrier(r[1])
           /\ Len(r) >= Len(blocks) /\ Instructions(blocks) \subseteq Instructions(r)
           /\ \A k \in 1 .. Len(r) : /\ Guarded(r[k])
                                     /\ Isolated(r[k], todo \ {blocks[n][p]})
    BY <2>1, <1>1, <1>8, BarrierMade
  <2> QED BY <2>2, <1>1, <1>2, <1>7
<1>10. scan' \in 1 .. Len(blocks') + 1
  <2>1. Len(blocks') \in Nat
    BY <1>9, LenProperties DEF Sound, Shaped, Blocks
  <2> QED BY <2>1, <1>1, <1>3, <1>9
<1>11. todo' \subseteq {j \in Instructions(blocks') : IsBarrier(j)}
  BY <1>1, <1>9
<1> QED BY <1>1, <1>9, <1>10, <1>11 DEF IInv, PhaseInv

LEMMA NextIInv == IInv /\ [Next]_vars => IInv'
<1> SUFFICES ASSUME IInv, [Next]_vars PROVE IInv'
  OBVIOUS
<1>1. CASE HiveOffEntry
  BY <1>1, EntryIInv
<1>2. CASE HiveOffExit
  BY <1>2, ExitIInv
<1>3. CASE CollectBarriers
  BY <1>3, CollectIInv
<1>4. CASE \E i \in todo : ProcessBarrier(i)
  BY <1>4, ProcessIInv
<1>5. CASE Finish
  BY <1>5 DEF Finish, IInv, PhaseInv
<1>6. CASE UNCHANGED vars
  BY <1>6 DEF vars, IInv, PhaseInv
<1>7. CASE Done
  BY <1>6, <1>7 DEF Done
<1> QED BY <1>1, <1>2, <1>3, <1>4, <1>5, <1>6, <1>7 DEF Next

\* The invariant holds throughout the pass (runOnFunction, ProcessBarrier).
THEOREM SpecIInv == Spec => []IInv
BY InitIInv, NextIInv, PTL DEF Spec

-----------------------------------------------------------------------------
(***************************************************************************)
(* What it gives.                                                          *)
(***************************************************************************)
\* The blocks stay blocks: a terminator at the end of each and nowhere
\* else, and BarrierSet holds barriers of the function (runOnFunction).
THEOREM HiveOffTypeCorrect == Spec => []TypeOK
<1>1. IInv => TypeOK
  <2> SUFFICES ASSUME IInv PROVE TypeOK
    OBVIOUS
  <2>1. Shaped(blocks)
    BY DEF IInv, Sound
  <2>2. /\ DOMAIN blocks = 1 .. Len(blocks)
        /\ \A n \in 1 .. Len(blocks) : blocks[n] \in Seq(Instr)
    BY <2>1, LenProperties DEF Shaped, Blocks
  <2>3. ASSUME NEW n \in DOMAIN blocks, NEW q \in DOMAIN blocks[n]
        PROVE  /\ blocks[n][q].op \in Ops
               /\ blocks[n][q].op \in {"br", "jump", "ret"} <=> q = Len(blocks[n])
    <3>1. n \in 1 .. Len(blocks) /\ blocks[n] \in Seq(Instr)
      BY <2>2
    <3>2. DOMAIN blocks[n] = 1 .. Len(blocks[n])
      BY <3>1, LenProperties
    <3>3. q \in 1 .. Len(blocks[n]) /\ blocks[n][q] \in Instr
      BY <3>1, <3>2, ElementOfSeq
    <3>4. blocks[n][q].op \in {"br", "jump", "ret"} <=> q = Len(blocks[n])
      BY <2>1, <3>1, <3>3, Zenon DEF Shaped, Ends
    <3> QED BY <3>3, <3>4 DEF Instr
  <2> QED BY <2>3 DEF IInv, TypeOK
<1> QED BY <1>1, SpecIInv, PTL

\* When the pass is done, every barrier has a block of its own, and the
\* entry and each exit are such a block, whatever the order of BarrierSet
\* (verifyAnalysis, hive_off_barrier.cpp:159).
THEOREM HiveOffIsolation == Spec => []BarriersIsolated
<1>1. IInv => BarriersIsolated
  <2> SUFFICES ASSUME IInv, pc = "done" PROVE
        /\ \A n \in DOMAIN blocks : (\E i \in Range(blocks[n]) : IsBarrier(i))
                                      => JustABarrier(blocks[n])
        /\ JustABarrier(blocks[1])
        /\ \A n \in DOMAIN blocks : Last(blocks[n]).op = "ret"
                                      => JustABarrier(blocks[n])
    BY DEF BarriersIsolated
  <2>1. /\ JustABarrier(blocks[1]) /\ todo = {}
        /\ \A n \in 1 .. Len(blocks) : Guarded(blocks[n]) /\ Isolated(blocks[n], todo)
    BY DEF IInv, PhaseInv
  <2>2. DOMAIN blocks = 1 .. Len(blocks)
        /\ \A n \in 1 .. Len(blocks) : blocks[n] \in Seq(Instr)
    BY LenProperties DEF IInv, Sound, Shaped, Blocks
  <2>3. ASSUME NEW n \in DOMAIN blocks, NEW i \in Range(blocks[n]), IsBarrier(i)
        PROVE  JustABarrier(blocks[n])
    <3>1. DOMAIN blocks[n] = 1 .. Len(blocks[n])
      BY <2>2, LenProperties
    <3>2. PICK q \in 1 .. Len(blocks[n]) : blocks[n][q] = i
      BY <3>1 DEF Range
    <3> QED BY <3>2, <2>1, <2>2, <2>3 DEF Isolated
  <2>4. ASSUME NEW n \in DOMAIN blocks, Last(blocks[n]).op = "ret"
        PROVE  JustABarrier(blocks[n])
    BY <2>1, <2>2, <2>4 DEF Guarded, Last
  <2> QED BY <2>1, <2>3, <2>4
<1> QED BY <1>1, SpecIInv, PTL

\* A block the cuts leave empty leads to a barrier block, through empty
\* blocks only (SplitBlockBeforeBarrier).
THEOREM HiveOffEmptyLeads == Spec => []EmptyLeadsToBarrier
<1>1. IInv => EmptyLeadsToBarrier
  <2>1. ASSUME IInv PROVE LeadsToBarrier(blocks) /\ DOMAIN blocks = 1 .. Len(blocks)
    BY <2>1, LenProperties DEF IInv, Sound, Shaped, Blocks
  <2> QED BY <2>1 DEF EmptyLeadsToBarrier, LeadsToBarrier, Reaches
<1> QED BY <1>1, SpecIInv, PTL

-----------------------------------------------------------------------------
(***************************************************************************)
(* The scan ends.  The exits it has yet to cut are counted from the end of *)
(* the function, where a cut does not move them: each cut makes a block    *)
(* more and leaves an exit less.                                           *)
(***************************************************************************)
Exit(b) == Last(b).op = "ret" /\ ~JustABarrier(b)

Ahead(bs, k) == {d \in 0 .. Len(bs) - k : Exit(bs[Len(bs) - d])}

Returns(f) == {n \in DOMAIN f : Last(f[n]).op = "ret"}

LEMMA AheadFinite ==
  ASSUME NEW bs \in Blocks, NEW k \in Nat
  PROVE  IsFiniteSet(Ahead(bs, k)) /\ Cardinality(Ahead(bs, k)) \in Nat
<1>1. Len(bs) \in Nat
  BY LenProperties DEF Blocks
<1>2. IsFiniteSet(0 .. Len(bs) - k)
  BY <1>1, FS_Interval
<1>3. Ahead(bs, k) \subseteq 0 .. Len(bs) - k
  BY DEF Ahead
<1>4. IsFiniteSet(Ahead(bs, k))
  BY <1>2, <1>3, FS_Subset
<1> QED BY <1>4, FS_CardinalityType

\* Behind a block just made the exits are as far from the end as before.
LEMMA AheadShifted ==
  ASSUME NEW bs \in Blocks, NEW r, NEW i \in 0 .. Len(bs), Len(r) = Len(bs) + 1,
         JustABarrier(r[i + 1]), \A n \in i + 2 .. Len(bs) + 1 : r[n] = bs[n - 1]
  PROVE  Ahead(r, i + 1) = Ahead(bs, i + 1)
<1>1. Len(bs) \in Nat /\ i \in Nat
  BY LenProperties DEF Blocks
<1>2. ~Exit(r[i + 1])
  BY DEF Exit
<1>3. ASSUME NEW d \in 0 .. Len(bs) - i, d # Len(bs) - i
      PROVE  r[Len(r) - d] = bs[Len(bs) - d] /\ d \in 0 .. Len(bs) - (i + 1)
  <2>1. (Len(bs) + 1) - d \in i + 2 .. Len(bs) + 1 /\ ((Len(bs) + 1) - d) - 1 = Len(bs) - d
        /\ d \in 0 .. Len(bs) - (i + 1)
    BY <1>1, <1>3
  <2> QED BY <2>1
<1>4. (Len(bs) + 1) - (Len(bs) - i) = i + 1 /\ (Len(bs) + 1) - (i + 1) = Len(bs) - i
  BY <1>1
<1>5. ASSUME NEW d PROVE d \in Ahead(r, i + 1) <=> d \in Ahead(bs, i + 1)
  <2>1. ASSUME d \in Ahead(r, i + 1) PROVE d \in Ahead(bs, i + 1)
    <3>1. d \in 0 .. Len(bs) - i /\ Exit(r[Len(r) - d])
      BY <1>4, <2>1 DEF Ahead
    <3>2. d # Len(bs) - i
      BY <1>2, <1>4, <3>1
    <3> QED BY <1>3, <3>1, <3>2 DEF Ahead
  <2>2. ASSUME d \in Ahead(bs, i + 1) PROVE d \in Ahead(r, i + 1)
    <3>1. d \in 0 .. Len(bs) - (i + 1) /\ Exit(bs[Len(bs) - d])
      BY <2>2 DEF Ahead
    <3>2. d \in 0 .. Len(bs) - i /\ d # Len(bs) - i
      BY <1>1, <3>1
    <3> QED BY <1>3, <1>4, <3>1, <3>2 DEF Ahead
  <2> QED BY <2>1, <2>2
<1> QED BY <1>5

\* One step of the scan leaves the block it has looked at behind.
LEMMA AheadPassed ==
  ASSUME NEW bs \in Blocks, NEW i \in 1 .. Len(bs)
  PROVE  /\ Ahead(bs, i + 1) \subseteq Ahead(bs, i)
         /\ Cardinality(Ahead(bs, i + 1)) <= Cardinality(Ahead(bs, i))
         /\ Exit(bs[i]) => Cardinality(Ahead(bs, i + 1)) + 1 = Cardinality(Ahead(bs, i))
<1>1. Len(bs) \in Nat /\ i \in Nat
  BY LenProperties DEF Blocks
<1> DEFINE last == Len(bs) - i
<1>2. /\ last \in 0 .. Len(bs) - i /\ Len(bs) - last = i
      /\ \A d : d \in 0 .. Len(bs) - (i + 1) <=> d \in 0 .. Len(bs) - i /\ d # last
  BY <1>1
<1>3. Ahead(bs, i + 1) = Ahead(bs, i) \ {last}
  BY <1>2 DEF Ahead
<1>4. Exit(bs[i]) => last \in Ahead(bs, i)
  BY <1>2 DEF Ahead
<1> HIDE DEF last
<1>5. IsFiniteSet(Ahead(bs, i)) /\ Cardinality(Ahead(bs, i)) \in Nat
  BY <1>1, AheadFinite
<1>6. Cardinality(Ahead(bs, i) \ {last}) = IF last \in Ahead(bs, i) THEN Cardinality(Ahead(bs, i)) - 1
                                            ELSE Cardinality(Ahead(bs, i))
  BY <1>5, FS_RemoveElement
<1> DEFINE c == Cardinality(Ahead(bs, i))
           d == Cardinality(Ahead(bs, i + 1))
<1>7. d = IF last \in Ahead(bs, i) THEN c - 1 ELSE c
  BY <1>3, <1>6
<1>8. c \in Nat
  BY <1>5
<1>9. Ahead(bs, i + 1) \subseteq Ahead(bs, i)
  BY <1>3
<1>10. d <= c /\ (Exit(bs[i]) => d + 1 = c)
  <2> HIDE DEF c, d
  <2> QED BY <1>4, <1>7, <1>8
<1> QED BY <1>9, <1>10

\* At first there is an exit to cut for each return, at most.
LEMMA AheadFirst ==
  ASSUME NEW f \in Functions
  PROVE  /\ Cardinality(Returns(f)) \in Nat
         /\ Cardinality(Ahead(f, 1)) <= Cardinality(Returns(f))
<1>1. f \in Blocks /\ Len(f) \in Nat /\ DOMAIN f = 1 .. Len(f)
  BY SourceSound, LenProperties DEF Sound, Shaped, Blocks
<1>2. IsFiniteSet(Returns(f))
  <2>1. Returns(f) \subseteq 1 .. Len(f)
    BY <1>1 DEF Returns
  <2>2. IsFiniteSet(1 .. Len(f))
    BY <1>1, FS_Interval
  <2> QED BY <2>1, <2>2, FS_Subset
<1> DEFINE A == Ahead(f, 1)
           R == Returns(f)
           g == [d \in A |-> Len(f) - d]
<1>3. ASSUME NEW d \in A
      PROVE  d \in 0 .. Len(f) - 1 /\ Len(f) - d \in R
  <2>1. d \in 0 .. Len(f) - 1 /\ Exit(f[Len(f) - d])
    BY DEF Ahead
  <2>2. Len(f) - d \in 1 .. Len(f)
    BY <1>1, <2>1
  <2> QED BY <1>1, <2>1, <2>2 DEF Exit, Returns
<1> HIDE DEF A, R
<1>4. g \in [A -> R]
  BY <1>3
<1>5. \A c, d \in A : g[c] = g[d] => c = d
  BY <1>1, <1>3
<1>6. g \in Injection(A, R)
  BY <1>4, <1>5 DEF Injection, IsInjective
<1>7. Cardinality(A) <= Cardinality(R)
  <2> HIDE DEF g
  <2> QED BY <1>2, <1>6, FS_Injection DEF R
<1>8. Cardinality(R) \in Nat
  BY <1>2, FS_CardinalityType DEF R
<1> QED BY <1>7, <1>8 DEF A, R

CountInv ==
  pc \in {"entry", "exits"} =>
    Len(blocks) + Cardinality(Ahead(blocks, scan))
      <= Len(source) + Cardinality(Returns(source)) + (IF pc = "entry" THEN 0 ELSE 1)

LEMMA CountNext == IInv /\ CountInv /\ [Next]_vars => CountInv'
<1> SUFFICES ASSUME IInv, CountInv, [Next]_vars PROVE CountInv'
  OBVIOUS
<1>1. source \in Functions /\ blocks \in Blocks /\ Len(blocks) \in Nat /\ Len(source) \in Nat
      /\ Cardinality(Returns(source)) \in Nat
  BY SourceSound, AheadFirst, LenProperties DEF IInv, Sound, Shaped, Blocks
<1>2. CASE HiveOffEntry
  <2>1. /\ pc = "entry" /\ pc' = "exits" /\ source' = source /\ scan' = 1 /\ scan = 1
        /\ blocks = source
    BY <1>2 DEF HiveOffEntry, IInv, PhaseInv
  <2>2. /\ Len(blocks') <= Len(blocks) + 1 /\ Len(blocks') \in Nat
        /\ Ahead(blocks', 1) = Ahead(blocks, 1)
    <3>1. CASE JustABarrier(blocks[1])
      <4>1. blocks' = blocks
        BY <1>2, <3>1 DEF HiveOffEntry
      <4> QED BY <1>1, <4>1
    <3>2. CASE ~JustABarrier(blocks[1])
      <4> DEFINE r == CreateBarrier(SplitBlock(source, 1, 1), 1, EntryBarrier)
      <4>1. blocks' = r
        BY <1>2, <2>1, <3>2 DEF HiveOffEntry
      <4>2. ~JustABarrier(source[1])
        BY <2>1, <3>2
      <4>3. /\ Len(r) = Len(source) + 1 /\ JustABarrier(r[1])
            /\ \A n \in 2 .. Len(source) + 1 : r[n] = source[n - 1]
        BY <1>1, <4>2, EntryMade
      <4> HIDE DEF r
      <4>4. 0 \in 0 .. Len(source) /\ 0 + 1 = 1 /\ 0 + 2 = 2 /\ source \in Blocks
        BY <1>1, <2>1
      <4>5. Ahead(r, 0 + 1) = Ahead(source, 0 + 1)
        BY <4>3, <4>4, AheadShifted
      <4> QED BY <1>1, <2>1, <4>1, <4>3, <4>5
    <3> QED BY <3>1, <3>2
  <2>3. /\ Len(blocks) + Cardinality(Ahead(blocks, 1))
             <= Len(source) + Cardinality(Returns(source)) + 0
        /\ Cardinality(Ahead(blocks, 1)) \in Nat
    BY <1>1, <2>1, AheadFinite DEF CountInv
  <2>4. Len(blocks') + Cardinality(Ahead(blocks', 1))
          <= Len(source) + Cardinality(Returns(source)) + 1
    BY <1>1, <2>2, <2>3
  <2> QED BY <2>1, <2>4 DEF CountInv
<1>3. CASE HiveOffExit
  <2>1. /\ pc = "exits" /\ pc' = "exits" /\ source' = source /\ scan' = scan + 1
        /\ scan \in 1 .. Len(blocks) /\ scan \in Nat
    BY <1>1, <1>3 DEF HiveOffExit, IInv
  <2>2. /\ Len(blocks) + Cardinality(Ahead(blocks, scan))
             <= Len(source) + Cardinality(Returns(source)) + 1
        /\ Cardinality(Ahead(blocks, scan)) \in Nat
        /\ Cardinality(Ahead(blocks, scan + 1)) \in Nat
    <3>1. Len(blocks) + Cardinality(Ahead(blocks, scan))
            <= Len(source) + Cardinality(Returns(source)) + 1
      BY <2>1 DEF CountInv
    <3>2. scan \in Nat /\ scan + 1 \in Nat
      BY <2>1
    <3>3. Cardinality(Ahead(blocks, scan)) \in Nat
      BY <1>1, <3>2, AheadFinite
    <3>4. Cardinality(Ahead(blocks, scan + 1)) \in Nat
      BY <1>1, <3>2, AheadFinite
    <3> QED BY <3>1, <3>3, <3>4
  <2>3. Len(blocks') + Cardinality(Ahead(blocks', scan + 1))
          <= Len(blocks) + Cardinality(Ahead(blocks, scan))
    <3>1. CASE Exit(blocks[scan])
      <4> DEFINE r == SplitExit(blocks, scan, ExitBarrier(Last(blocks[scan])))
      <4>1. blocks' = r
        BY <1>3, <3>1 DEF HiveOffExit, Exit
      <4>2. /\ Sound(blocks) /\ LeadsToBarrier(blocks) /\ JustABarrier(blocks[1])
            /\ \A n \in 1 .. Len(blocks) : Placed(blocks[n])
            /\ \A n \in 1 .. Len(blocks) : n < scan => Guarded(blocks[n])
        BY <2>1 DEF IInv, PhaseInv
      <4>3. /\ Len(r) = Len(blocks) + 1 /\ JustABarrier(r[scan + 1])
            /\ \A n \in scan + 2 .. Len(blocks) + 1 : r[n] = blocks[n - 1]
        BY <2>1, <3>1, <4>2, ExitMade DEF Exit
      <4> HIDE DEF r
      <4>4. scan \in 0 .. Len(blocks)
        BY <1>1, <2>1
      <4>5. Ahead(r, scan + 1) = Ahead(blocks, scan + 1)
        BY <1>1, <4>3, <4>4, AheadShifted
      <4>6. Cardinality(Ahead(blocks, scan + 1)) + 1 = Cardinality(Ahead(blocks, scan))
        BY <1>1, <2>1, <3>1, AheadPassed
      <4> QED BY <1>1, <2>2, <4>1, <4>3, <4>5, <4>6
    <3>2. CASE ~Exit(blocks[scan])
      <4>1. blocks' = blocks
        BY <1>3, <3>2 DEF HiveOffExit, Exit
      <4>2. Cardinality(Ahead(blocks, scan + 1)) <= Cardinality(Ahead(blocks, scan))
        BY <1>1, <2>1, AheadPassed
      <4> QED BY <1>1, <2>2, <4>1, <4>2
    <3> QED BY <3>1, <3>2
  <2>4. Len(blocks') \in Nat /\ Cardinality(Ahead(blocks', scan + 1)) \in Nat
    <3>1. blocks' \in Blocks
      BY <1>3, ExitIInv DEF IInv, Sound, Shaped
    <3>2. scan + 1 \in Nat
      BY <2>1
    <3> QED BY <3>1, <3>2, AheadFinite, LenProperties DEF Blocks
  <2>5. Len(blocks') + Cardinality(Ahead(blocks', scan + 1))
          <= Len(source) + Cardinality(Returns(source)) + 1
    BY <1>1, <2>2, <2>3, <2>4
  <2> QED BY <2>1, <2>5 DEF CountInv
<1>4. CASE CollectBarriers
  BY <1>4 DEF CollectBarriers, CountInv
<1>5. CASE \E i \in todo : ProcessBarrier(i)
  BY <1>5 DEF ProcessBarrier, CountInv
<1>6. CASE Finish
  BY <1>6 DEF Finish, CountInv
<1>7. CASE UNCHANGED vars
  BY <1>7 DEF vars, CountInv
<1>8. CASE Done
  BY <1>7, <1>8 DEF Done
<1> QED BY <1>2, <1>3, <1>4, <1>5, <1>6, <1>7, <1>8 DEF Next

\* However many exits a function has, the loop at hive_off_barrier.cpp:57
\* cuts each of them once and none of the blocks it makes: it ends.
THEOREM HiveOffScanEnds == Spec => []ScanEnds
<1>1. Init => CountInv
  <2> SUFFICES ASSUME Init PROVE CountInv
    OBVIOUS
  <2>1. source \in Functions /\ blocks = source /\ pc = "entry" /\ scan = 1
    BY DEF Init
  <2>2. source \in Blocks /\ Len(source) \in Nat
    BY <2>1, SourceSound, LenProperties DEF Sound, Shaped, Blocks
  <2>3. /\ Cardinality(Ahead(source, 1)) <= Cardinality(Returns(source))
        /\ Cardinality(Returns(source)) \in Nat /\ Cardinality(Ahead(source, 1)) \in Nat
    BY <2>1, <2>2, AheadFirst, AheadFinite
  <2> QED BY <2>1, <2>2, <2>3 DEF CountInv
<1>2. IInv /\ CountInv /\ [Next]_vars => CountInv'
  BY CountNext
<1>3. IInv /\ CountInv => ScanEnds
  <2> SUFFICES ASSUME IInv, CountInv, pc = "exits"
               PROVE  Len(blocks) <= Len(source) + 1 + Cardinality(Returns(source))
    BY DEF ScanEnds, Returns
  <2>1. source \in Functions /\ blocks \in Blocks /\ Len(blocks) \in Nat /\ Len(source) \in Nat
        /\ Cardinality(Returns(source)) \in Nat /\ scan \in Nat
    BY SourceSound, AheadFirst, LenProperties DEF IInv, Sound, Shaped, Blocks
  <2>2. Cardinality(Ahead(blocks, scan)) \in Nat
    BY <2>1, AheadFinite
  <2>3. Len(blocks) + Cardinality(Ahead(blocks, scan))
          <= Len(source) + Cardinality(Returns(source)) + 1
    BY DEF CountInv
  <2> QED BY <2>1, <2>2, <2>3
<1> QED BY <1>1, <1>2, <1>3, SpecIInv, PTL DEF Spec

-----------------------------------------------------------------------------
(***************************************************************************)
(* The result is canonical.  The blocks are compared with the source by    *)
(* two relations between instructions: one is anywhere in front of the     *)
(* other, and one is right in front of the other in the same block.        *)
(***************************************************************************)
Earlier(bs, a, b) ==
  \E m, n \in 1 .. Len(bs) : \E q \in 1 .. Len(bs[m]), r \in 1 .. Len(bs[n]) :
    /\ m < n \/ (m = n /\ q < r)
    /\ a = bs[m][q] /\ b = bs[n][r]

Follows(bs, a, b) ==
  \E n \in 1 .. Len(bs) : \E q \in 1 .. Len(bs[n]) :
    /\ q + 1 \in 1 .. Len(bs[n])
    /\ a = bs[n][q] /\ b = bs[n][q + 1]

\* Nothing is lost, nothing is out of order, what stands together did so in
\* the source, or is a return and its barrier, and what is joined stays so.
Reads(f, bs) ==
  /\ Instructions(f) \subseteq Instructions(bs)
  /\ Instructions(bs) \subseteq Wanted(f) \cup {Br}
  /\ \A a, b : Earlier(bs, a, b) /\ a # Br /\ b # Br => InFront(a, b)
  /\ \A a, b : Follows(bs, a, b) /\ b # Br
                 => Follows(f, a, b) \/ (b.op = "ret" /\ a = ExitBarrier(b))
  /\ \A a, b : Follows(f, a, b) /\ Joined(a, b) => Follows(bs, a, b)

LEMMA ShapeFacts ==
  ASSUME NEW bs, Shaped(bs)
  PROVE  /\ bs \in Blocks /\ Len(bs) \in Nat /\ Len(bs) > 0 /\ DOMAIN bs = 1 .. Len(bs)
         /\ \A n \in 1 .. Len(bs) :
              /\ bs[n] \in Seq(Instr) /\ DOMAIN bs[n] = 1 .. Len(bs[n])
              /\ Len(bs[n]) \in Nat /\ Len(bs[n]) > 0
         /\ \A n \in 1 .. Len(bs) : \A q \in 1 .. Len(bs[n]) :
              bs[n][q] \in Instr /\ (Ends(bs[n][q]) <=> q = Len(bs[n]))
<1>1. bs \in Blocks /\ Len(bs) \in Nat /\ Len(bs) > 0 /\ DOMAIN bs = 1 .. Len(bs)
  BY LenProperties DEF Shaped, Blocks
<1>2. ASSUME NEW n \in 1 .. Len(bs)
      PROVE  /\ bs[n] \in Seq(Instr) /\ DOMAIN bs[n] = 1 .. Len(bs[n])
             /\ Len(bs[n]) \in Nat /\ Len(bs[n]) > 0
             /\ \A q \in 1 .. Len(bs[n]) : bs[n][q] \in Instr
  <2>1. bs[n] \in Seq(Instr)
    BY <1>1 DEF Blocks
  <2>2. Len(bs[n]) > 0
    BY DEF Shaped
  <2> QED BY <2>1, <2>2, LenProperties, ElementOfSeq
<1>3. \A n \in 1 .. Len(bs) : \A q \in 1 .. Len(bs[n]) : Ends(bs[n][q]) <=> q = Len(bs[n])
  BY DEF Shaped
<1> QED BY <1>1, <1>2, <1>3

\* What a cut does to the two relations.
LEMMA SplitEarlier ==
  ASSUME NEW bs, Shaped(bs), NEW i \in 1 .. Len(bs), NEW p \in 1 .. Len(bs[i]),
         NEW a, NEW b, Earlier(SplitBlock(bs, i, p), a, b), a # Br, b # Br
  PROVE  Earlier(bs, a, b)
<1> DEFINE s == SplitBlock(bs, i, p)
<1>1. bs \in Blocks /\ Len(bs) \in Nat /\ Len(bs[i]) \in Nat
  BY ShapeFacts
<1>2. Shaped(s) /\ Len(s) = Len(bs) + 1
  BY <1>1, SplitShaped, SplitBlocks, Zenon DEF TwoFor
<1>3. PICK m \in 1 .. Len(s), n \in 1 .. Len(s) :
        \E q \in 1 .. Len(s[m]), r \in 1 .. Len(s[n]) :
          /\ m < n \/ (m = n /\ q < r)
          /\ a = s[m][q] /\ b = s[n][r]
  BY DEF Earlier
<1>4. PICK q \in 1 .. Len(s[m]), r \in 1 .. Len(s[n]) :
          /\ m < n \/ (m = n /\ q < r)
          /\ a = s[m][q] /\ b = s[n][r]
  BY <1>3
<1>5. /\ q \in Nat /\ q > 0 /\ r \in Nat /\ r > 0 /\ q <= Len(s[m])
      /\ Len(s[m]) \in Nat /\ Len(s[n]) \in Nat
  BY <1>2, ShapeFacts
<1>6. m \in 1 .. Len(bs) + 1 /\ n \in 1 .. Len(bs) + 1
  BY <1>2
<1>7. FromOld(bs, i, p, s, m, q, OldBlock(i, m), OldPlace(i, p, m, q))
  BY <1>1, <1>4, <1>6, SplitPlaces, Zenon
<1>8. FromOld(bs, i, p, s, n, r, OldBlock(i, n), OldPlace(i, p, n, r))
  BY <1>1, <1>4, <1>6, SplitPlaces, Zenon
<1>9. m = i => q < p
  BY <1>7 DEF FromOld
<1> HIDE DEF s
<1>10. \/ OldBlock(i, m) < OldBlock(i, n)
       \/ OldBlock(i, m) = OldBlock(i, n) /\ OldPlace(i, p, m, q) < OldPlace(i, p, n, r)
  <2> USE <1>1, <1>4, <1>5, <1>6
  <2>1. CASE m = n
    BY <2>1 DEF OldBlock, OldPlace
  <2>2. CASE m = i /\ n = i + 1
    <3>1. OldPlace(i, p, m, q) = q /\ OldPlace(i, p, n, r) = p + r - 1
      BY <2>2 DEF OldPlace
    <3>2. OldBlock(i, m) = OldBlock(i, n)
      BY <2>2 DEF OldBlock
    <3> QED BY <3>1, <3>2, <2>2, <1>9
  <2>3. CASE m < n /\ ~(m = i /\ n = i + 1)
    BY <2>3 DEF OldBlock
  <2> QED BY <2>1, <2>2, <2>3
<1>11. /\ OldBlock(i, m) \in 1 .. Len(bs) /\ OldPlace(i, p, m, q) \in 1 .. Len(bs[OldBlock(i, m)])
       /\ a = bs[OldBlock(i, m)][OldPlace(i, p, m, q)]
       /\ OldBlock(i, n) \in 1 .. Len(bs) /\ OldPlace(i, p, n, r) \in 1 .. Len(bs[OldBlock(i, n)])
       /\ b = bs[OldBlock(i, n)][OldPlace(i, p, n, r)]
  BY <1>4, <1>7, <1>8, Zenon DEF FromOld
<1> QED BY <1>10, <1>11, Zenon DEF Earlier

LEMMA SplitFollows ==
  ASSUME NEW bs, Shaped(bs), NEW i \in 1 .. Len(bs), NEW p \in 1 .. Len(bs[i]),
         NEW a, NEW b
  PROVE  /\ Follows(SplitBlock(bs, i, p), a, b) /\ b # Br => Follows(bs, a, b)
         /\ Follows(bs, a, b) => \/ Follows(SplitBlock(bs, i, p), a, b)
                                 \/ p > 1 /\ a = bs[i][p - 1] /\ b = bs[i][p]
<1> DEFINE s == SplitBlock(bs, i, p)
<1>1. bs \in Blocks /\ Len(bs) \in Nat /\ Len(bs[i]) \in Nat
  BY ShapeFacts
<1>2. Shaped(s) /\ Len(s) = Len(bs) + 1
  BY <1>1, SplitShaped, SplitBlocks, Zenon DEF TwoFor
<1>3. ASSUME Follows(s, a, b), b # Br PROVE Follows(bs, a, b)
  <2>1. PICK m \in 1 .. Len(s) : \E q \in 1 .. Len(s[m]) :
          /\ q + 1 \in 1 .. Len(s[m])
          /\ a = s[m][q] /\ b = s[m][q + 1]
    BY <1>3 DEF Follows
  <2>2. PICK q \in 1 .. Len(s[m]) :
          /\ q + 1 \in 1 .. Len(s[m])
          /\ a = s[m][q] /\ b = s[m][q + 1]
    BY <2>1
  <2>3. m \in 1 .. Len(bs) + 1 /\ m \in Nat
    BY <1>2
  <2>4. q \in Nat /\ Len(s[m]) \in Nat /\ q # Len(s[m]) /\ ~Ends(a)
    <3>1. Len(s[m]) \in Nat /\ (Ends(s[m][q]) <=> q = Len(s[m]))
      BY <1>2, ShapeFacts
    <3> HIDE DEF s
    <3>2. q \in Nat /\ q # Len(s[m])
      BY <3>1, <2>2
    <3> QED BY <3>1, <3>2, <2>2
  <2>5. a # Br
    BY <2>4, Additions DEF Ends
  <2>6. FromOld(bs, i, p, s, m, q, OldBlock(i, m), OldPlace(i, p, m, q))
    BY <1>1, <2>2, <2>3, <2>5, SplitPlaces, Zenon
  <2>7. FromOld(bs, i, p, s, m, q + 1, OldBlock(i, m), OldPlace(i, p, m, q + 1))
    BY <1>1, <1>3, <2>2, <2>3, SplitPlaces, Zenon
  <2>8. OldPlace(i, p, m, q + 1) = OldPlace(i, p, m, q) + 1
    BY <1>1, <2>3, <2>4 DEF OldPlace
  <2>9. /\ OldBlock(i, m) \in 1 .. Len(bs)
        /\ OldPlace(i, p, m, q) \in 1 .. Len(bs[OldBlock(i, m)])
        /\ OldPlace(i, p, m, q) + 1 \in 1 .. Len(bs[OldBlock(i, m)])
        /\ a = bs[OldBlock(i, m)][OldPlace(i, p, m, q)]
        /\ b = bs[OldBlock(i, m)][OldPlace(i, p, m, q) + 1]
    BY <2>2, <2>6, <2>7, <2>8, Zenon DEF FromOld
  <2> QED BY <2>9, Zenon DEF Follows
<1>4. ASSUME Follows(bs, a, b), ~(p > 1 /\ a = bs[i][p - 1] /\ b = bs[i][p])
      PROVE  Follows(s, a, b)
  <2>1. PICK n \in 1 .. Len(bs) : \E q \in 1 .. Len(bs[n]) :
          /\ q + 1 \in 1 .. Len(bs[n])
          /\ a = bs[n][q] /\ b = bs[n][q + 1]
    BY <1>4 DEF Follows
  <2>2. PICK q \in 1 .. Len(bs[n]) :
          /\ q + 1 \in 1 .. Len(bs[n])
          /\ a = bs[n][q] /\ b = bs[n][q + 1]
    BY <2>1
  <2>3. /\ NewBlock(i, p, n, q) \in 1 .. Len(s)
        /\ NewPlace(i, p, n, q) \in 1 .. Len(s[NewBlock(i, p, n, q)])
        /\ s[NewBlock(i, p, n, q)][NewPlace(i, p, n, q)] = bs[n][q]
    BY <1>1, SplitNewPlaces, Zenon
  <2>4. /\ NewPlace(i, p, n, q + 1) \in 1 .. Len(s[NewBlock(i, p, n, q + 1)])
        /\ s[NewBlock(i, p, n, q + 1)][NewPlace(i, p, n, q + 1)] = bs[n][q + 1]
    BY <1>1, <2>2, SplitNewPlaces, Zenon
  <2>5. ~(n = i /\ q + 1 = p) /\ q \in Nat /\ p \in Nat
    <3>1. q \in Nat /\ q > 0 /\ p \in Nat
      BY <1>1
    <3>2. ASSUME n = i, q + 1 = p PROVE FALSE
      <4>1. p > 1 /\ p - 1 = q
        BY <3>1, <3>2
      <4> QED BY <4>1, <3>2, <2>2, <1>4
    <3> QED BY <3>1, <3>2
  <2>6. /\ NewBlock(i, p, n, q + 1) = NewBlock(i, p, n, q)
        /\ NewPlace(i, p, n, q + 1) = NewPlace(i, p, n, q) + 1
    BY <1>1, <2>5 DEF NewBlock, NewPlace
  <2> QED BY <2>2, <2>3, <2>4, <2>6, Zenon DEF Follows
<1> QED BY <1>3, <1>4

\* What a barrier put in front of the terminator of an empty block does.
LEMMA CreateEarlier ==
  ASSUME NEW bs, Shaped(bs), NEW k \in 1 .. Len(bs), Len(bs[k]) = 1,
         NEW bar \in Instr, NEW a, NEW b,
         Earlier(CreateBarrier(bs, k, bar), a, b)
  PROVE  \/ Earlier(bs, a, b)
         \/ a = bar /\ \E n \in k .. Len(bs) : \E r \in 1 .. Len(bs[n]) : b = bs[n][r]
         \/ b = bar /\ \E m \in 1 .. k - 1 : \E q \in 1 .. Len(bs[m]) : a = bs[m][q]
<1> DEFINE r == CreateBarrier(bs, k, bar)
           t == bs[k][1]
<1>1. bs \in Blocks /\ Len(bs) \in Nat /\ k \in Nat
  BY ShapeFacts
<1>2. /\ Len(r) = Len(bs) /\ r[k] = <<bar, t>>
      /\ \A m \in 1 .. Len(bs) : m # k => r[m] = bs[m]
  BY <1>1, CreateAlone, Zenon
<1>3. Len(r[k]) = 2 /\ r[k][1] = bar /\ r[k][2] = t
  BY <1>2
<1>4. PICK m \in 1 .. Len(bs), n \in 1 .. Len(bs) :
        \E q \in 1 .. Len(r[m]), u \in 1 .. Len(r[n]) :
          /\ m < n \/ (m = n /\ q < u)
          /\ a = r[m][q] /\ b = r[n][u]
  BY <1>2 DEF Earlier
<1>5. PICK q \in 1 .. Len(r[m]), u \in 1 .. Len(r[n]) :
          /\ m < n \/ (m = n /\ q < u)
          /\ a = r[m][q] /\ b = r[n][u]
  BY <1>4
<1>6. 1 \in 1 .. Len(bs[k]) /\ m \in Nat /\ n \in Nat /\ m > 0 /\ n > 0 /\ m <= Len(bs) /\ n <= Len(bs)
  BY <1>1
<1> HIDE DEF r
<1>7. CASE m # k /\ n # k
  <2>1. r[m] = bs[m] /\ r[n] = bs[n]
    BY <1>2, <1>7
  <2>2. Earlier(bs, a, b)
    BY <2>1, <1>5, Zenon DEF Earlier
  <2> QED BY <2>2
<1>8. CASE m # k /\ n = k
  <2>1. r[m] = bs[m] /\ m < n
    BY <1>2, <1>5, <1>8
  <2>2. b = bar \/ b = t
    BY <1>3, <1>5, <1>8
  <2>3. CASE b = t
    <3>1. Earlier(bs, a, b)
      BY <2>1, <2>3, <1>5, <1>6, <1>8, Zenon DEF Earlier, t
    <3> QED BY <3>1
  <2>4. CASE b = bar
    <3>1. m \in 1 .. k - 1
      BY <2>1, <1>6, <1>8
    <3> QED BY <3>1, <2>1, <2>4, <1>5
  <2> QED BY <2>2, <2>3, <2>4
<1>9. CASE m = k /\ n # k
  <2>1. r[n] = bs[n] /\ m < n
    BY <1>2, <1>5, <1>9
  <2>2. a = bar \/ a = t
    BY <1>3, <1>5, <1>9
  <2>3. CASE a = t
    <3>1. Earlier(bs, a, b)
      BY <2>1, <2>3, <1>5, <1>6, <1>9, Zenon DEF Earlier, t
    <3> QED BY <3>1
  <2>4. CASE a = bar
    <3>1. n \in k .. Len(bs)
      BY <2>1, <1>6, <1>9
    <3> QED BY <3>1, <2>1, <2>4, <1>5
  <2> QED BY <2>2, <2>3, <2>4
<1>10. CASE m = k /\ n = k
  <2>1. a = bar /\ b = t
    BY <1>3, <1>5, <1>10
  <2>2. k \in k .. Len(bs)
    BY <1>1
  <2> QED BY <2>1, <2>2, <1>6 DEF t
<1> QED BY <1>7, <1>8, <1>9, <1>10

LEMMA CreateFollows ==
  ASSUME NEW bs, Shaped(bs), NEW k \in 1 .. Len(bs), Len(bs[k]) = 1,
         NEW bar \in Instr, NEW a, NEW b
  PROVE  /\ Follows(CreateBarrier(bs, k, bar), a, b)
              => Follows(bs, a, b) \/ (a = bar /\ b = bs[k][1])
         /\ Follows(bs, a, b) => Follows(CreateBarrier(bs, k, bar), a, b)
<1> DEFINE r == CreateBarrier(bs, k, bar)
           t == bs[k][1]
<1>1. bs \in Blocks /\ Len(bs) \in Nat
  BY ShapeFacts
<1>2. /\ Len(r) = Len(bs) /\ r[k] = <<bar, t>>
      /\ \A m \in 1 .. Len(bs) : m # k => r[m] = bs[m]
  BY <1>1, CreateAlone, Zenon
<1>3. Len(r[k]) = 2 /\ r[k][1] = bar /\ r[k][2] = t
  BY <1>2
<1> HIDE DEF r
<1>4. ASSUME Follows(r, a, b) PROVE Follows(bs, a, b) \/ (a = bar /\ b = t)
  <2>1. PICK m \in 1 .. Len(bs) : \E q \in 1 .. Len(r[m]) :
          /\ q + 1 \in 1 .. Len(r[m])
          /\ a = r[m][q] /\ b = r[m][q + 1]
    BY <1>2, <1>4 DEF Follows
  <2>2. PICK q \in 1 .. Len(r[m]) :
          /\ q + 1 \in 1 .. Len(r[m])
          /\ a = r[m][q] /\ b = r[m][q + 1]
    BY <2>1
  <2>3. CASE m = k
    <3>1. q = 1 /\ q + 1 = 2
      BY <1>3, <2>2, <2>3
    <3> QED BY <3>1, <1>3, <2>2, <2>3
  <2>4. CASE m # k
    <3>1. r[m] = bs[m]
      BY <1>2, <2>4
    <3>2. Follows(bs, a, b)
      BY <3>1, <2>2, Zenon DEF Follows
    <3> QED BY <3>2
  <2> QED BY <2>3, <2>4
<1>5. ASSUME Follows(bs, a, b) PROVE Follows(r, a, b)
  <2>1. PICK m \in 1 .. Len(bs) : \E q \in 1 .. Len(bs[m]) :
          /\ q + 1 \in 1 .. Len(bs[m])
          /\ a = bs[m][q] /\ b = bs[m][q + 1]
    BY <1>5 DEF Follows
  <2>2. m # k
    BY <2>1
  <2>3. r[m] = bs[m] /\ m \in 1 .. Len(r)
    BY <1>2, <2>2
  <2> QED BY <2>1, <2>3, Zenon DEF Follows
<1> QED BY <1>4, <1>5 DEF r, t

\* The source, instruction by instruction.
LEMMA SourceFacts ==
  ASSUME NEW f \in Functions
  PROVE  /\ f \in Blocks /\ Len(f) \in Nat /\ Len(f) > 0 /\ DOMAIN f = 1 .. Len(f)
         /\ \A n \in 1 .. Len(f) :
              /\ Len(f[n]) \in Nat /\ Len(f[n]) > 0
              /\ \A q \in 1 .. Len(f[n]) :
                   /\ f[n][q] \in Instr /\ f[n][q] # Br /\ f[n][q].id = <<n, q>>
                   /\ f[n][q].op \in {"jump", "ret"} <=> q = Len(f[n])
<1>1. Shaped(f) /\ Br \notin Instructions(f)
  BY SourceSound DEF Sound
<1>2. ASSUME NEW n \in 1 .. Len(f), NEW q \in 1 .. Len(f[n])
      PROVE  /\ f[n][q] # Br /\ f[n][q].id = <<n, q>>
             /\ f[n][q].op \in {"jump", "ret"} <=> q = Len(f[n])
  <2>1. n \in DOMAIN f /\ q \in DOMAIN f[n]
    BY <1>1, ShapeFacts
  <2>2. f[n][q] # Br
    BY <1>1, InstructionsAt, Zenon DEF Shaped
  <2> QED BY <2>1, <2>2, FunctionsAssumption, Zenon
<1>3. ASSUME NEW n \in 1 .. Len(f)
      PROVE  /\ Len(f[n]) \in Nat /\ Len(f[n]) > 0
             /\ \A q \in 1 .. Len(f[n]) : f[n][q] \in Instr
  BY <1>1, ShapeFacts
<1>4. f \in Blocks /\ Len(f) \in Nat /\ Len(f) > 0 /\ DOMAIN f = 1 .. Len(f)
  BY <1>1, ShapeFacts
<1> QED BY <1>2, <1>3, <1>4, Zenon

\* What is wanted is an instruction of the source, the barrier of the entry
\* or that of a return.
LEMMA WantedCases ==
  ASSUME NEW f \in Functions, NEW a
  PROVE  a \in Wanted(f) <=>
           \/ \E n \in 1 .. Len(f) : \E q \in 1 .. Len(f[n]) : a = f[n][q]
           \/ a = EntryBarrier /\ ~JustABarrier(f[1])
           \/ \E n \in 1 .. Len(f) : /\ f[n][Len(f[n])].op = "ret" /\ ~EndsWithBarrier(f[n])
                                     /\ a = ExitBarrier(f[n][Len(f[n])])
<1>1. f \in Blocks /\ DOMAIN f = 1 .. Len(f)
  BY SourceFacts
<1>2. \A n \in 1 .. Len(f) : Last(f[n]) = f[n][Len(f[n])]
  BY DEF Last
<1>3. a \in Instructions(f) <=> \E n \in 1 .. Len(f) : \E q \in 1 .. Len(f[n]) : a = f[n][q]
  BY <1>1, InstructionsAt, Zenon
<1>4. a \in {ExitBarrier(Last(f[n])) :
              n \in {m \in DOMAIN f : Last(f[m]).op = "ret" /\ ~EndsWithBarrier(f[m])}}
        <=> \E n \in 1 .. Len(f) : /\ f[n][Len(f[n])].op = "ret" /\ ~EndsWithBarrier(f[n])
                                   /\ a = ExitBarrier(f[n][Len(f[n])])
  BY <1>1, <1>2
<1> QED BY <1>3, <1>4 DEF Wanted

\* The order of a return's barrier is that of the return.
LEMMA BarrierInFront ==
  ASSUME NEW f \in Functions, NEW n \in 1 .. Len(f), f[n][Len(f[n])].op = "ret",
         NEW a \in Wanted(f)
  PROVE  LET ret == f[n][Len(f[n])]
             bar == ExitBarrier(ret)
         IN /\ InFront(bar, ret)
            /\ InFront(a, ret) /\ a # bar => InFront(a, bar)
            /\ InFront(ret, a) => InFront(bar, a)
<1> DEFINE len == Len(f[n])
           ret == f[n][len]
           bar == ExitBarrier(ret)
<1>1. /\ len \in Nat /\ len > 0 /\ n \in Nat /\ n > 0 /\ ret.op = "ret"
      /\ len \in 1 .. len
  BY SourceFacts
<1>2. ret.id = <<n, len>>
  BY <1>1, SourceFacts
<1>3. bar.id = <<0, n>> /\ bar.op = "barrier"
  BY <1>2 DEF ExitBarrier
<1>4. Home(bar) = n /\ Home(ret) = n /\ bar.id[1] = 0 /\ ret.id[1] = n /\ ret.id[2] = len
  BY <1>1, <1>2, <1>3 DEF Home
<1>5. bar = [op |-> "barrier", id |-> <<0, n>>]
  BY <1>2 DEF ExitBarrier
<1>6. CASE \E m \in 1 .. Len(f) : \E q \in 1 .. Len(f[m]) : a = f[m][q]
  <2>1. PICK m \in 1 .. Len(f) : \E q \in 1 .. Len(f[m]) : a = f[m][q]
    BY <1>6
  <2>2. PICK q \in 1 .. Len(f[m]) : a = f[m][q]
    BY <2>1
  <2>3. /\ a.id[1] = m /\ a.id[2] = q /\ m \in Nat /\ m > 0 /\ q \in Nat
        /\ Len(f[m]) \in Nat /\ q <= Len(f[m])
        /\ (a.op = "ret" => q = Len(f[m]))
    BY <2>2, SourceFacts
  <2>4. Home(a) = m
    BY <2>3 DEF Home
  <2>5. m = n => Len(f[m]) = len
    OBVIOUS
  <2> HIDE DEF len, ret, bar
  <2> QED BY <1>1, <1>4, <2>3, <2>4, <2>5 DEF InFront, bar, ret, len
<1>7. CASE a = EntryBarrier
  <2>1. a.id[1] = 0 /\ Home(a) = 0
    BY <1>7 DEF EntryBarrier, Home
  <2> HIDE DEF len, ret, bar
  <2> QED BY <1>1, <1>3, <1>4, <2>1 DEF InFront, bar, ret, len
<1>8. CASE \E m \in 1 .. Len(f) : /\ f[m][Len(f[m])].op = "ret" /\ ~EndsWithBarrier(f[m])
                                  /\ a = ExitBarrier(f[m][Len(f[m])])
  <2>1. PICK m \in 1 .. Len(f) : a = ExitBarrier(f[m][Len(f[m])])
    BY <1>8
  <2>2. Len(f[m]) \in 1 .. Len(f[m]) /\ m \in Nat /\ m > 0
    BY SourceFacts
  <2>3. f[m][Len(f[m])].id = <<m, Len(f[m])>>
    BY <2>2, SourceFacts
  <2>4. a = [op |-> "barrier", id |-> <<0, m>>]
    BY <2>1, <2>3 DEF ExitBarrier
  <2>5. a.id[1] = 0 /\ Home(a) = m /\ (m = n => a = bar) /\ a.op # "ret"
    BY <2>4, <1>5 DEF Home
  <2> HIDE DEF len, ret, bar
  <2> QED BY <1>1, <1>3, <1>4, <2>2, <2>5 DEF InFront, bar, ret, len
<1> QED BY <1>6, <1>7, <1>8, WantedCases, Zenon

\* At first the blocks are the source.
LEMMA ReadsSource ==
  ASSUME NEW f \in Functions
  PROVE  Reads(f, f)
<1>1. Instructions(f) \subseteq Wanted(f)
  BY DEF Wanted
<1>2. ASSUME NEW a, NEW b, Earlier(f, a, b) PROVE InFront(a, b)
  <2>1. PICK m \in 1 .. Len(f), n \in 1 .. Len(f) :
          \E q \in 1 .. Len(f[m]), r \in 1 .. Len(f[n]) :
            /\ m < n \/ (m = n /\ q < r)
            /\ a = f[m][q] /\ b = f[n][r]
    BY <1>2 DEF Earlier
  <2>2. PICK q \in 1 .. Len(f[m]), r \in 1 .. Len(f[n]) :
            /\ m < n \/ (m = n /\ q < r)
            /\ a = f[m][q] /\ b = f[n][r]
    BY <2>1
  <2>3. a.id = <<m, q>> /\ b.id = <<n, r>>
    BY <2>2, SourceFacts
  <2>4. /\ a.id[1] = m /\ a.id[2] = q /\ b.id[1] = n /\ b.id[2] = r
        /\ m \in Nat /\ m > 0 /\ n \in Nat /\ n > 0
    BY <2>3, SourceFacts
  <2>5. Home(a) = m /\ Home(b) = n
    BY <2>4 DEF Home
  <2> QED BY <2>2, <2>4, <2>5 DEF InFront
<1> QED BY <1>1, <1>2, Zenon DEF Reads

\* A cut between instructions that are not joined changes nothing.
LEMMA ReadsSplit ==
  ASSUME NEW f, NEW bs, Shaped(bs), Reads(f, bs),
         NEW i \in 1 .. Len(bs), NEW p \in 1 .. Len(bs[i]),
         p > 1 => ~Joined(bs[i][p - 1], bs[i][p])
  PROVE  Reads(f, SplitBlock(bs, i, p))
<1> DEFINE s == SplitBlock(bs, i, p)
<1>1. Instructions(s) = Instructions(bs) \cup {Br}
  BY ShapeFacts, SplitKeeps, Zenon
<1>2. /\ Instructions(f) \subseteq Instructions(bs)
      /\ Instructions(bs) \subseteq Wanted(f) \cup {Br}
      /\ \A a, b : Earlier(bs, a, b) /\ a # Br /\ b # Br => InFront(a, b)
      /\ \A a, b : Follows(bs, a, b) /\ b # Br
                     => Follows(f, a, b) \/ (b.op = "ret" /\ a = ExitBarrier(b))
      /\ \A a, b : Follows(f, a, b) /\ Joined(a, b) => Follows(bs, a, b)
  BY DEF Reads
<1>3. \A a, b : Earlier(s, a, b) /\ a # Br /\ b # Br => InFront(a, b)
  BY <1>2, SplitEarlier, Zenon
<1>4. \A a, b : Follows(s, a, b) /\ b # Br
                  => Follows(f, a, b) \/ (b.op = "ret" /\ a = ExitBarrier(b))
  BY <1>2, SplitFollows, Zenon
<1>5. ASSUME NEW a, NEW b, Follows(f, a, b), Joined(a, b) PROVE Follows(s, a, b)
  <2>1. Follows(bs, a, b)
    BY <1>2, <1>5, Zenon
  <2>2. \/ Follows(s, a, b)
        \/ p > 1 /\ a = bs[i][p - 1] /\ b = bs[i][p]
    BY <2>1, SplitFollows
  <2>3. ~(p > 1 /\ a = bs[i][p - 1] /\ b = bs[i][p])
    BY <1>5
  <2> QED BY <2>2, <2>3
<1> HIDE DEF s
<1>6. Reads(f, s)
  BY <1>1, <1>2, <1>3, <1>4, <1>5 DEF Reads
<1> QED BY <1>6 DEF s

\* Nor does a barrier that is wanted, put where it is wanted.
LEMMA ReadsCreate ==
  ASSUME NEW f, NEW bs, Sound(bs), Reads(f, bs),
         NEW k \in 1 .. Len(bs), Len(bs[k]) = 1,
         NEW bar \in Wanted(f), bar \in Instr, IsBarrier(bar), bar \notin Instructions(bs),
         bs[k][1] = Br \/ (bs[k][1].op = "ret" /\ bar = ExitBarrier(bs[k][1])),
         \A m \in 1 .. k - 1 : \A q \in 1 .. Len(bs[m]) :
           bs[m][q] # Br => InFront(bs[m][q], bar),
         \A n \in k .. Len(bs) : \A r \in 1 .. Len(bs[n]) :
           bs[n][r] # Br => InFront(bar, bs[n][r])
  PROVE  Reads(f, CreateBarrier(bs, k, bar))
<1> DEFINE s == CreateBarrier(bs, k, bar)
           t == bs[k][1]
<1>1. Instructions(s) = Instructions(bs) \cup {bar}
  BY CreateStaysSound, Zenon
<1>2. /\ Instructions(f) \subseteq Instructions(bs)
      /\ Instructions(bs) \subseteq Wanted(f) \cup {Br}
      /\ \A a, b : Earlier(bs, a, b) /\ a # Br /\ b # Br => InFront(a, b)
      /\ \A a, b : Follows(bs, a, b) /\ b # Br
                     => Follows(f, a, b) \/ (b.op = "ret" /\ a = ExitBarrier(b))
      /\ \A a, b : Follows(f, a, b) /\ Joined(a, b) => Follows(bs, a, b)
  BY DEF Reads
<1>3. Shaped(bs) /\ (t = Br \/ (t.op = "ret" /\ bar = ExitBarrier(t)))
  BY DEF Sound
<1>4. ASSUME NEW a, NEW b, Earlier(s, a, b), a # Br, b # Br PROVE InFront(a, b)
  <2>1. \/ Earlier(bs, a, b)
        \/ a = bar /\ \E n \in k .. Len(bs) : \E r \in 1 .. Len(bs[n]) : b = bs[n][r]
        \/ b = bar /\ \E m \in 1 .. k - 1 : \E q \in 1 .. Len(bs[m]) : a = bs[m][q]
    BY <1>3, <1>4, CreateEarlier
  <2>2. CASE Earlier(bs, a, b)
    BY <2>2, <1>2, <1>4, Zenon
  <2>3. CASE a = bar /\ \E n \in k .. Len(bs) : \E r \in 1 .. Len(bs[n]) : b = bs[n][r]
    BY <2>3, <1>4
  <2>4. CASE b = bar /\ \E m \in 1 .. k - 1 : \E q \in 1 .. Len(bs[m]) : a = bs[m][q]
    <3>1. PICK m \in 1 .. k - 1 : \E q \in 1 .. Len(bs[m]) : a = bs[m][q]
      BY <2>4
    <3>2. PICK q \in 1 .. Len(bs[m]) : a = bs[m][q]
      BY <3>1
    <3> HIDE DEF s
    <3> QED BY <3>2, <2>4, <1>4
  <2> HIDE DEF s
  <2> QED BY <2>1, <2>2, <2>3, <2>4, Zenon
<1>5. ASSUME NEW a, NEW b, Follows(s, a, b), b # Br
      PROVE  Follows(f, a, b) \/ (b.op = "ret" /\ a = ExitBarrier(b))
  <2>1. Follows(bs, a, b) \/ (a = bar /\ b = t)
    BY <1>3, <1>5, CreateFollows, Zenon
  <2> HIDE DEF s, t
  <2> QED BY <2>1, <1>2, <1>3, <1>5, Zenon
<1>6. \A a, b : Follows(f, a, b) /\ Joined(a, b) => Follows(s, a, b)
  BY <1>2, <1>3, CreateFollows, Zenon
<1> HIDE DEF s
<1>7. Reads(f, s)
  BY <1>1, <1>2, <1>4, <1>5, <1>6 DEF Reads
<1> QED BY <1>7 DEF s

LEMMA ReadsEntry ==
  ASSUME NEW f \in Functions, ~JustABarrier(f[1])
  PROVE  LET r == CreateBarrier(SplitBlock(f, 1, 1), 1, EntryBarrier)
         IN Reads(f, r) /\ EntryBarrier \in Instructions(r)
<1> DEFINE s == SplitBlock(f, 1, 1)
           r == CreateBarrier(s, 1, EntryBarrier)
<1>1. /\ Sound(f) /\ Shaped(f) /\ Reads(f, f) /\ Br \notin Instructions(f)
      /\ \A j \in Instructions(f) : j.id[1] # 0
  BY SourceSound, ReadsSource DEF Sound
<1>2. 1 \in 1 .. Len(f) /\ 1 \in 1 .. Len(f[1]) /\ f \in Blocks /\ Len(f) \in Nat
  BY <1>1, ShapeFacts
<1>3. Sound(s) /\ Instructions(s) = Instructions(f) \cup {Br}
  BY <1>1, <1>2, SplitSound, SplitKeeps, Zenon
<1>4. Reads(f, s)
  BY <1>1, <1>2, ReadsSplit
<1>5. /\ Len(s) = Len(f) + 1 /\ s[1] = FirstHalf(f[1], 1)
      /\ FirstHalf(f[1], 1)[1] = Br /\ Len(FirstHalf(f[1], 1)) = 1
  <2>1. f[1] \in Seq(Instr)
    BY <1>1, <1>2, ShapeFacts
  <2>2. FirstHalf(f[1], 1)[1] = Br /\ Len(FirstHalf(f[1], 1)) = 1
    BY <2>1, <1>2, Halves, Zenon
  <2>3. Len(s) = Len(f) + 1 /\ s[1] = FirstHalf(f[1], 1)
    <3>1. TwoFor(f, 1, FirstHalf(f[1], 1), SecondHalf(f[1], 1), s)
      BY <1>2, SplitBlocks, Zenon
    <3> HIDE DEF s
    <3> QED BY <3>1, Zenon DEF TwoFor
  <2> QED BY <2>2, <2>3
<1>6. /\ EntryBarrier \in Instr /\ IsBarrier(EntryBarrier) /\ EntryBarrier \in Wanted(f)
      /\ EntryBarrier.id = <<0, 0>>
  BY Additions, WantedCases
<1>7. EntryBarrier \notin Instructions(s)
  BY <1>1, <1>3, <1>6, Additions DEF IsBarrier
<1>8. ASSUME NEW j \in Instructions(s), j # Br PROVE InFront(EntryBarrier, j)
  <2>1. j \in Instructions(f)
    BY <1>3, <1>8
  <2>2. PICK n \in 1 .. Len(f) : \E q \in 1 .. Len(f[n]) : j = f[n][q]
    BY <1>2, <2>1, InstructionsAt, Zenon
  <2>3. j.id[1] = n /\ n \in Nat /\ n > 0
    BY <1>2, <2>2, SourceFacts
  <2>4. Home(j) = n /\ Home(EntryBarrier) = 0
    BY <1>6, <2>3 DEF Home
  <2> QED BY <2>3, <2>4 DEF InFront
<1>9. /\ \A m \in 1 .. 1 - 1 : \A q \in 1 .. Len(s[m]) :
           s[m][q] # Br => InFront(s[m][q], EntryBarrier)
      /\ \A n \in 1 .. Len(s) : \A u \in 1 .. Len(s[n]) :
           s[n][u] # Br => InFront(EntryBarrier, s[n][u])
  <2>1. ASSUME NEW n \in 1 .. Len(s), NEW u \in 1 .. Len(s[n]), s[n][u] # Br
        PROVE  InFront(EntryBarrier, s[n][u])
    <3>1. s[n][u] \in Instructions(s)
      BY <1>3, InstructionsAt, Zenon DEF Sound, Shaped
    <3> QED BY <3>1, <2>1, <1>8
  <2>2. 1 .. 1 - 1 = {}
    OBVIOUS
  <2> QED BY <2>1, <2>2
<1>10. 1 \in 1 .. Len(s) /\ Len(s[1]) = 1 /\ s[1][1] = Br
  BY <1>2, <1>5
<1> HIDE DEF s
<1>11. Reads(f, r)
  BY <1>3, <1>4, <1>6, <1>7, <1>9, <1>10, ReadsCreate
<1>12. EntryBarrier \in Instructions(r)
  <2>1. Instructions(r) = Instructions(s) \cup {EntryBarrier}
    <3>1. /\ Sound(s) /\ 1 \in 1 .. Len(s) /\ Len(s[1]) = 1
          /\ EntryBarrier \in Instr /\ IsBarrier(EntryBarrier)
          /\ EntryBarrier \notin Instructions(s)
      BY <1>3, <1>6, <1>7, <1>10
    <3> QED BY ONLY <3>1, CreateStaysSound
  <2> QED BY <2>1
<1> QED BY <1>11, <1>12 DEF s

\* The return of an exit block is the last instruction of a block of the
\* source, and a barrier in front of it there is in front of it still.
LEMMA ReturnOf ==
  ASSUME NEW f \in Functions, NEW bs, Sound(bs), Reads(f, bs), NEW i \in 1 .. Len(bs),
         bs[i][Len(bs[i])].op = "ret"
  PROVE  \E n \in 1 .. Len(f) :
           /\ bs[i][Len(bs[i])] = f[n][Len(f[n])]
           /\ EndsWithBarrier(f[n]) => EndsWithBarrier(bs[i])
<1> DEFINE b == bs[i]
           len == Len(b)
           ret == b[len]
<1>1. /\ Shaped(bs) /\ bs \in Blocks /\ len \in Nat /\ len > 0 /\ len \in 1 .. len
      /\ ret.op = "ret"
  BY ShapeFacts DEF Sound
<1>2. ret # Br
  BY <1>1, Additions
<1>3. ret \in Instructions(bs)
  BY <1>1, InstructionsAt, Zenon
<1>4. ret \in Wanted(f)
  BY <1>2, <1>3 DEF Reads
<1>5. PICK n \in 1 .. Len(f) : \E q \in 1 .. Len(f[n]) : ret = f[n][q]
  <2>1. ret # EntryBarrier /\ \A j : ret # ExitBarrier(j)
    BY <1>1 DEF EntryBarrier, ExitBarrier
  <2> HIDE DEF ret
  <2> QED BY <2>1, <1>4, WantedCases
<1>6. PICK q \in 1 .. Len(f[n]) : ret = f[n][q]
  BY <1>5
<1>7. q = Len(f[n]) /\ Len(f[n]) \in Nat
  BY <1>1, <1>6, SourceFacts
<1>8. ASSUME EndsWithBarrier(f[n]) PROVE EndsWithBarrier(b)
  <2> DEFINE x == f[n][Len(f[n]) - 1]
  <2>1. Len(f[n]) > 1 /\ IsBarrier(x)
    BY <1>8 DEF EndsWithBarrier
  <2>2. Len(f[n]) - 1 \in 1 .. Len(f[n]) /\ (Len(f[n]) - 1) + 1 = Len(f[n])
    BY <1>7, <2>1
  <2>3. Follows(f, x, ret)
    BY <2>2, <1>6, <1>7, Zenon DEF Follows
  <2>4. Joined(x, ret)
    BY <1>1, <2>1 DEF Joined, IsBarrier
  <2>5. Follows(bs, x, ret)
    BY <2>3, <2>4, Zenon DEF Reads
  <2>6. PICK m \in 1 .. Len(bs) : \E r \in 1 .. Len(bs[m]) :
          r + 1 \in 1 .. Len(bs[m]) /\ x = bs[m][r] /\ ret = bs[m][r + 1]
    BY <2>5 DEF Follows
  <2>7. PICK r \in 1 .. Len(bs[m]) :
          r + 1 \in 1 .. Len(bs[m]) /\ x = bs[m][r] /\ ret = bs[m][r + 1]
    BY <2>6
  <2>8. bs[i][len] = bs[m][r + 1] /\ bs[i][len] # Br /\ Distinct(bs)
    BY <2>7, <1>2 DEF Sound
  <2>9. i = m /\ len = r + 1
    <3>1. /\ Distinct(bs) /\ i \in 1 .. Len(bs) /\ m \in 1 .. Len(bs)
          /\ len \in 1 .. Len(bs[i]) /\ r + 1 \in 1 .. Len(bs[m])
          /\ bs[i][len] = bs[m][r + 1] /\ bs[i][len] # Br
      BY <2>7, <2>8, <1>1
    <3> HIDE DEF len, x
    <3> QED BY ONLY <3>1, OnePlace
  <2> HIDE DEF x
  <2>10. len > 1 /\ b[len - 1] = x
    BY <2>7, <2>9, <1>1
  <2> QED BY <2>1, <2>10 DEF EndsWithBarrier
<1> QED BY <1>6, <1>7, <1>8

\* So its barrier is wanted, and not there yet.
LEMMA ReadsExit ==
  ASSUME NEW f \in Functions, NEW bs, Sound(bs), Reads(f, bs), NEW i \in 1 .. Len(bs),
         \A n \in 1 .. Len(bs) : Placed(bs[n]),
         Last(bs[i]).op = "ret", ~JustABarrier(bs[i])
  PROVE  /\ Reads(f, SplitExit(bs, i, ExitBarrier(Last(bs[i]))))
         /\ Instructions(bs) \subseteq Instructions(SplitExit(bs, i, ExitBarrier(Last(bs[i]))))
<1> DEFINE b == bs[i]
           len == Len(b)
           ret == b[len]
           bar == ExitBarrier(ret)
<1>1. /\ Shaped(bs) /\ bs \in Blocks /\ Len(bs) \in Nat /\ b \in Seq(Instr)
      /\ len \in Nat /\ len > 0 /\ len \in 1 .. len
      /\ ret \in Instr /\ ret.op = "ret" /\ Last(b) = ret
  BY ShapeFacts DEF Sound, Last
<1>2. CASE EndsWithBarrier(b)
  <2>1. len - 1 \in 1 .. len /\ IsBarrier(b[len - 1])
    BY <1>1, <1>2 DEF EndsWithBarrier
  <2>2. ~Joined(b[(len - 1) - 1], b[len - 1])
    BY <2>1 DEF Joined
  <2>3. Reads(f, SplitBlock(bs, i, len - 1))
    BY <2>1, <2>2, <1>1, ReadsSplit
  <2>4. Instructions(SplitBlock(bs, i, len - 1)) = Instructions(bs) \cup {Br}
    BY <2>1, <1>1, SplitKeeps, Zenon
  <2> QED BY <2>3, <2>4, <1>2 DEF SplitExit
<1>3. CASE ~EndsWithBarrier(b)
  <2> DEFINE s == SplitBlock(bs, i, len)
  <2>1. len > 1 => ~Joined(b[len - 1], ret)
    BY <1>1, <1>3 DEF Joined, EndsWithBarrier
  <2>2. Reads(f, s)
    BY <2>1, <1>1, ReadsSplit
  <2>3. Sound(s) /\ Instructions(s) = Instructions(bs) \cup {Br}
    BY <1>1, SplitSound, SplitKeeps, Zenon
  <2>4. /\ Len(s) = Len(bs) + 1 /\ Len(s[i + 1]) = 1 /\ s[i + 1][1] = ret
        /\ i + 1 \in 1 .. Len(s) /\ i \in Nat
    <3>1. Len(s) = Len(bs) + 1 /\ s[i + 1] = SecondHalf(b, len)
      BY <1>1, SplitBlocks, Zenon DEF TwoFor
    <3>2. /\ Len(SecondHalf(b, len)) = Len(b) - len + 1
          /\ \A q \in 1 .. Len(b) - len + 1 : SecondHalf(b, len)[q] = b[len + q - 1]
      BY <1>1, Halves, Zenon
    <3>3. 1 \in 1 .. len - len + 1 /\ len - len + 1 = 1 /\ len + 1 - 1 = len
      BY <1>1
    <3> HIDE DEF s
    <3> QED BY <1>1, <3>1, <3>2, <3>3
  <2>5. PICK n \in 1 .. Len(f) : ret = f[n][Len(f[n])] /\ ~EndsWithBarrier(f[n])
    <3>1. bs[i][Len(bs[i])].op = "ret"
      BY <1>1
    <3>2. PICK n \in 1 .. Len(f) : /\ bs[i][Len(bs[i])] = f[n][Len(f[n])]
                                   /\ EndsWithBarrier(f[n]) => EndsWithBarrier(bs[i])
      BY <3>1, ReturnOf
    <3> QED BY <3>2, <1>3
  <2>6. bar \in Instr /\ IsBarrier(bar) /\ bar.id = <<0, n>> /\ n # 0 /\ ret.id[1] = n
    <3>1. Len(f[n]) \in 1 .. Len(f[n])
      BY SourceFacts
    <3>2. ret.id = <<n, Len(f[n])>>
      BY <3>1, <2>5, SourceFacts
    <3> QED BY <3>2, <1>1, Additions
  <2>7. bar \in Wanted(f)
    BY <2>5, <1>1, WantedCases
  <2>8. bar \notin Instructions(bs)
    <3> SUFFICES ASSUME bar \in Instructions(bs) PROVE FALSE
      OBVIOUS
    <3>1. PICK m \in 1 .. Len(bs) : \E q \in 1 .. Len(bs[m]) : bs[m][q] = bar
      BY <1>1, InstructionsAt, Zenon
    <3>2. PICK q \in 1 .. Len(bs[m]) : bs[m][q] = bar
      BY <3>1
    <3>3. bar.id[1] = 0 /\ bar.id[2] = n
      BY <2>6
    <3>4. Len(bs[m]) = 2 /\ q = 1 /\ bs[m][2].op = "ret" /\ bs[m][2].id[1] = n
      <4> HIDE DEF bar
      <4> QED BY <3>2, <3>3, <2>6 DEF Placed
    <3>5. 2 \in 1 .. Len(bs[m]) /\ bs[m][2] \in Instructions(bs) /\ ret \in Instructions(bs)
      <4>1. 2 \in 1 .. Len(bs[m])
        BY <3>4
      <4> QED BY <4>1, <1>1, InstructionsAt, Zenon
    <3>6. bs[m][2] = ret
      BY <3>4, <3>5, <2>6, <1>1 DEF Sound, Rets
    <3>7. bs[m][2] = bs[i][len] /\ bs[m][2] # Br /\ Distinct(bs)
      BY <3>6, <1>1, Additions DEF Sound
    <3>8. m = i /\ 2 = len
      <4>1. /\ Distinct(bs) /\ i \in 1 .. Len(bs) /\ m \in 1 .. Len(bs)
            /\ len \in 1 .. Len(bs[i]) /\ 2 \in 1 .. Len(bs[m])
            /\ bs[m][2] = bs[i][len] /\ bs[m][2] # Br
        BY <3>5, <3>7, <1>1
      <4> HIDE DEF len
      <4> QED BY ONLY <4>1, OnePlace
    <3> QED BY <3>2, <3>4, <3>8, <2>6 DEF JustABarrier
  <2>9. bar \notin Instructions(s)
    BY <2>3, <2>6, <2>8, Additions DEF IsBarrier
  <2>10. ret # Br /\ InFront(bar, ret)
    BY <1>1, <2>5, <2>7, Additions, BarrierInFront
  <2> HIDE DEF s
  <2>11. ASSUME NEW m \in 1 .. Len(s), NEW q \in 1 .. Len(s[m]), s[m][q] # Br
         PROVE  /\ s[m][q] \in Wanted(f) /\ s[m][q] # bar
                /\ m < i + 1 => InFront(s[m][q], bar)
                /\ i + 1 < m => InFront(bar, s[m][q])
    <3>1. s[m][q] \in Instructions(s)
      BY <2>3, InstructionsAt, Zenon DEF Sound, Shaped
    <3>2. s[m][q] \in Wanted(f) /\ s[m][q] # bar
      BY <3>1, <2>2, <2>9, <2>11 DEF Reads
    <3>3. 1 \in 1 .. Len(s[i + 1]) /\ i + 1 \in 1 .. Len(s)
      BY <2>4
    <3>4. m < i + 1 => Earlier(s, s[m][q], ret)
      BY <3>3, <2>4, Zenon DEF Earlier
    <3>5. i + 1 < m => Earlier(s, ret, s[m][q])
      BY <3>3, <2>4, Zenon DEF Earlier
    <3>6. \A a, c : Earlier(s, a, c) /\ a # Br /\ c # Br => InFront(a, c)
      BY <2>2 DEF Reads
    <3>7. m < i + 1 => InFront(s[m][q], ret)
      BY <3>4, <3>6, <2>10, <2>11, Zenon
    <3>8. i + 1 < m => InFront(ret, s[m][q])
      BY <3>5, <3>6, <2>10, <2>11, Zenon
    <3>9. f[n][Len(f[n])].op = "ret"
      BY <1>1, <2>5
    <3>10. /\ InFront(s[m][q], ret) => InFront(s[m][q], bar)
           /\ InFront(ret, s[m][q]) => InFront(bar, s[m][q])
      BY <3>2, <3>9, <2>5, BarrierInFront
    <3> QED BY <3>2, <3>7, <3>8, <3>10
  <2>12. \A m \in 1 .. (i + 1) - 1 : \A q \in 1 .. Len(s[m]) :
           s[m][q] # Br => InFront(s[m][q], bar)
    <3> SUFFICES ASSUME NEW m \in 1 .. (i + 1) - 1, NEW q \in 1 .. Len(s[m]), s[m][q] # Br
                 PROVE  InFront(s[m][q], bar)
      OBVIOUS
    <3>1. m \in 1 .. Len(s) /\ m < i + 1
      BY <2>4, <1>1
    <3> QED BY <3>1, <2>11
  <2>13. \A m \in i + 1 .. Len(s) : \A q \in 1 .. Len(s[m]) :
           s[m][q] # Br => InFront(bar, s[m][q])
    <3> SUFFICES ASSUME NEW m \in i + 1 .. Len(s), NEW q \in 1 .. Len(s[m]), s[m][q] # Br
                 PROVE  InFront(bar, s[m][q])
      OBVIOUS
    <3>1. m \in 1 .. Len(s) /\ (m = i + 1 \/ i + 1 < m)
      BY <2>4, <1>1
    <3>2. CASE i + 1 < m
      BY <3>1, <3>2, <2>11
    <3>3. CASE m = i + 1
      <4>1. q = 1
        BY <3>3, <2>4
      <4> QED BY <4>1, <3>3, <2>4, <2>10
    <3> QED BY <3>1, <3>2, <3>3
  <2> HIDE DEF bar, ret, len, b
  <2>14. s[i + 1][1] = Br \/ (s[i + 1][1].op = "ret" /\ bar = ExitBarrier(s[i + 1][1]))
    BY <2>4, <1>1 DEF bar
  <2>15. Reads(f, CreateBarrier(s, i + 1, bar))
    BY <2>2, <2>3, <2>4, <2>6, <2>7, <2>9, <2>12, <2>13, <2>14, ReadsCreate
  <2>16. Instructions(CreateBarrier(s, i + 1, bar)) = Instructions(s) \cup {bar}
    BY <2>3, <2>4, <2>6, <2>9, CreateStaysSound
  <2>17. Instructions(bs) \subseteq Instructions(CreateBarrier(s, i + 1, bar))
    BY <2>3, <2>16
  <2>18. SplitExit(bs, i, ExitBarrier(Last(bs[i]))) = CreateBarrier(s, i + 1, bar)
    BY <1>1, <1>3 DEF SplitExit, s, bar, ret, len, b
  <2> QED BY <2>15, <2>17, <2>18
<1> QED BY <1>2, <1>3

LEMMA ReadsProcess ==
  ASSUME NEW f, NEW bs, Shaped(bs), Reads(f, bs),
         NEW i \in 1 .. Len(bs), NEW p \in 1 .. Len(bs[i]), IsBarrier(bs[i][p])
  PROVE  Reads(f, SplitBeforeBarrier(SplitAfterBarrier(bs, i, p), i, p))
<1> DEFINE b == bs[i]
           s == SplitAfterBarrier(bs, i, p)
<1>1. /\ bs \in Blocks /\ Len(bs) \in Nat /\ b \in Seq(Instr) /\ Len(b) \in Nat
      /\ \A q \in 1 .. Len(b) : Ends(b[q]) <=> q = Len(b)
  BY ShapeFacts
<1>2. p # Len(b) /\ p + 1 \in 1 .. Len(b)
  <2>1. p # Len(b)
    BY <1>1 DEF Ends, IsBarrier
  <2> QED BY <2>1, <1>1
<1>3. Shaped(s) /\ Reads(f, s) /\ i \in 1 .. Len(s) /\ p \in 1 .. Len(s[i]) /\ IsBarrier(s[i][p])
  <2>1. CASE p + 1 = Len(b)
    BY <2>1 DEF SplitAfterBarrier
  <2>2. CASE p + 1 # Len(b)
    <3>1. s = SplitBlock(bs, i, p + 1)
      BY <2>2 DEF SplitAfterBarrier
    <3>2. ~Joined(b[p], b[p + 1])
      BY <1>1, <1>2, <2>2 DEF Joined, Ends
    <3>3. (p + 1) - 1 = p
      BY <1>1
    <3>4. Reads(f, SplitBlock(bs, i, p + 1))
      BY <1>2, <3>2, <3>3, ReadsSplit
    <3>5. Shaped(SplitBlock(bs, i, p + 1))
      BY <1>2, SplitShaped
    <3>6. /\ Len(SplitBlock(bs, i, p + 1)) = Len(bs) + 1
          /\ SplitBlock(bs, i, p + 1)[i] = FirstHalf(b, p + 1)
      BY <1>1, <1>2, SplitBlocks, Zenon DEF TwoFor
    <3>7. Len(FirstHalf(b, p + 1)) = p + 1 /\ FirstHalf(b, p + 1)[p] = b[p]
      <4>1. /\ Len(FirstHalf(b, p + 1)) = p + 1
            /\ \A q \in 1 .. (p + 1) - 1 : FirstHalf(b, p + 1)[q] = b[q]
        BY <1>1, <1>2, Halves, Zenon
      <4>2. p \in 1 .. (p + 1) - 1
        BY <1>1
      <4> QED BY <4>1, <4>2
    <3> HIDE DEF s
    <3> QED BY <1>1, <3>1, <3>4, <3>5, <3>6, <3>7
  <2> QED BY <2>1, <2>2
<1> HIDE DEF s
<1>4. CASE i = 1 /\ p = 1
  BY <1>3, <1>4 DEF SplitBeforeBarrier, s
<1>5. CASE ~(i = 1 /\ p = 1)
  <2>1. ~Joined(s[i][p - 1], s[i][p])
    BY <1>3 DEF Joined
  <2>2. Reads(f, SplitBlock(s, i, p))
    BY <1>3, <2>1, ReadsSplit
  <2> QED BY <2>2, <1>5 DEF SplitBeforeBarrier, s
<1> QED BY <1>4, <1>5


CanonInv ==
  /\ Reads(source, blocks)
  /\ pc # "entry" => JustABarrier(source[1]) \/ EntryBarrier \in Instructions(blocks)

LEMMA CanonNext == IInv /\ CanonInv /\ [Next]_vars => CanonInv'
<1> SUFFICES ASSUME IInv, CanonInv, [Next]_vars PROVE CanonInv'
  OBVIOUS
<1>1. /\ source \in Functions /\ Reads(source, blocks) /\ Sound(blocks) /\ Shaped(blocks)
      /\ DOMAIN blocks = 1 .. Len(blocks) /\ Len(blocks) \in Nat
      /\ scan \in 1 .. Len(blocks) + 1
  BY ShapeFacts DEF IInv, CanonInv, Sound
<1>2. CASE HiveOffEntry
  <2>1. source' = source /\ blocks = source
    BY <1>2 DEF HiveOffEntry, IInv, PhaseInv
  <2>2. CASE JustABarrier(blocks[1])
    <3>1. blocks' = blocks
      BY <1>2, <2>2 DEF HiveOffEntry
    <3> QED BY <1>1, <2>1, <2>2, <3>1 DEF CanonInv
  <2>3. CASE ~JustABarrier(blocks[1])
    <3> DEFINE r == CreateBarrier(SplitBlock(source, 1, 1), 1, EntryBarrier)
    <3>1. blocks' = r
      BY <1>2, <2>1, <2>3 DEF HiveOffEntry
    <3>2. ~JustABarrier(source[1])
      BY <2>1, <2>3
    <3>3. Reads(source, r) /\ EntryBarrier \in Instructions(r)
      BY <1>1, <3>2, ReadsEntry
    <3> HIDE DEF r
    <3> QED BY <2>1, <3>1, <3>3 DEF CanonInv
  <2> QED BY <2>2, <2>3
<1>3. CASE HiveOffExit
  <2>1. source' = source /\ pc = "exits" /\ pc' = "exits" /\ scan \in 1 .. Len(blocks)
    BY <1>1, <1>3 DEF HiveOffExit
  <2>2. \A n \in 1 .. Len(blocks) : Placed(blocks[n])
    BY <2>1 DEF IInv, PhaseInv
  <2>3. Reads(source, blocks') /\ Instructions(blocks) \subseteq Instructions(blocks')
    <3>1. CASE Last(blocks[scan]).op = "ret" /\ ~JustABarrier(blocks[scan])
      <4>1. blocks' = SplitExit(blocks, scan, ExitBarrier(Last(blocks[scan])))
        BY <1>3, <3>1 DEF HiveOffExit
      <4> QED BY <4>1, <1>1, <2>1, <2>2, <3>1, ReadsExit
    <3>2. CASE ~(Last(blocks[scan]).op = "ret" /\ ~JustABarrier(blocks[scan]))
      <4>1. blocks' = blocks
        BY <1>3, <3>2 DEF HiveOffExit
      <4> QED BY <4>1, <1>1
    <3> QED BY <3>1, <3>2
  <2> QED BY <2>1, <2>3 DEF CanonInv
<1>4. CASE CollectBarriers
  BY <1>4 DEF CollectBarriers, CanonInv
<1>5. ASSUME NEW i \in todo, ProcessBarrier(i) PROVE CanonInv'
  <2> DEFINE n == Block(blocks, i)
             p == Position(blocks[n], i)
  <2>1. /\ source' = source /\ pc = "split" /\ pc' = "split"
        /\ blocks' = SplitBeforeBarrier(SplitAfterBarrier(blocks, n, p), n, p)
    BY <1>5 DEF ProcessBarrier
  <2>2. IsBarrier(i) /\ \E m \in DOMAIN blocks : i \in Range(blocks[m])
    BY <1>5 DEF IInv, Instructions
  <2>3. n \in DOMAIN blocks /\ i \in Range(blocks[n])
    BY <2>2, Zenon DEF Block
  <2>4. p \in DOMAIN blocks[n] /\ blocks[n][p] = i
    <3>1. \E q \in DOMAIN blocks[n] : blocks[n][q] = i
      BY <2>3 DEF Range
    <3> QED BY <3>1, Zenon DEF Position
  <2> HIDE DEF n, p
  <2>5. n \in 1 .. Len(blocks) /\ p \in 1 .. Len(blocks[n]) /\ IsBarrier(blocks[n][p])
    BY <1>1, <2>2, <2>3, <2>4, ShapeFacts
  <2>6. Reads(source, blocks')
    BY <1>1, <2>1, <2>5, ReadsProcess
  <2>7. Instructions(blocks) \subseteq Instructions(blocks')
    <3>1. /\ LeadsToBarrier(blocks) /\ JustABarrier(blocks[1])
          /\ \A k \in 1 .. Len(blocks) : Guarded(blocks[k]) /\ Isolated(blocks[k], todo)
      BY <2>1 DEF IInv, PhaseInv
    <3> DEFINE r == SplitBeforeBarrier(SplitAfterBarrier(blocks, n, p), n, p)
    <3>2. Instructions(blocks) \subseteq Instructions(r)
      BY <3>1, <1>1, <2>5, BarrierMade
    <3> QED BY <3>2, <2>1
  <2> QED BY <2>1, <2>6, <2>7 DEF CanonInv
<1>6. CASE Finish
  BY <1>6 DEF Finish, CanonInv
<1>7. CASE UNCHANGED vars
  BY <1>7 DEF vars, CanonInv
<1>8. CASE Done
  BY <1>7, <1>8 DEF Done
<1> QED BY <1>2, <1>3, <1>4, <1>5, <1>6, <1>7, <1>8 DEF Next

\* In the end every return has the barrier it lacked.
LEMMA NothingMissing ==
  ASSUME NEW f \in Functions, NEW bs, Sound(bs), Reads(f, bs),
         \A n \in 1 .. Len(bs) : Guarded(bs[n]),
         JustABarrier(f[1]) \/ EntryBarrier \in Instructions(bs)
  PROVE  Instructions(bs) \ {Br} = Wanted(f)
<1>1. Shaped(bs) /\ bs \in Blocks /\ f \in Blocks
  BY SourceFacts DEF Sound, Shaped
<1>2. Instructions(f) \subseteq Instructions(bs) /\ Instructions(bs) \subseteq Wanted(f) \cup {Br}
  BY DEF Reads
<1>3. ASSUME NEW n \in 1 .. Len(f), f[n][Len(f[n])].op = "ret", ~EndsWithBarrier(f[n])
      PROVE  ExitBarrier(f[n][Len(f[n])]) \in Instructions(bs)
  <2> DEFINE ret == f[n][Len(f[n])]
  <2>1. Len(f[n]) \in 1 .. Len(f[n]) /\ ret.op = "ret" /\ ret # Br
    BY <1>3, SourceFacts
  <2>2. ret \in Instructions(bs)
    <3>1. ret \in Instructions(f)
      BY <1>1, <2>1, InstructionsAt, Zenon
    <3> QED BY <3>1, <1>2
  <2>3. PICK m \in 1 .. Len(bs) : \E q \in 1 .. Len(bs[m]) : bs[m][q] = ret
    <3> HIDE DEF ret
    <3> QED BY <1>1, <2>2, InstructionsAt, Zenon
  <2>4. PICK q \in 1 .. Len(bs[m]) : bs[m][q] = ret
    BY <2>3
  <2>5. q = Len(bs[m])
    BY <1>1, <2>1, <2>4, ShapeFacts DEF Ends
  <2>6. Len(bs[m]) = 2 /\ IsBarrier(bs[m][1])
    BY <2>1, <2>4, <2>5 DEF Guarded, JustABarrier
  <2>7. 1 \in 1 .. Len(bs[m]) /\ 1 + 1 \in 1 .. Len(bs[m]) /\ bs[m][1 + 1] = ret
    BY <2>4, <2>5, <2>6
  <2>8. Follows(bs, bs[m][1], ret)
    BY <2>7, Zenon DEF Follows
  <2>9. CASE Follows(f, bs[m][1], ret)
    <3>1. PICK k \in 1 .. Len(f) : \E r \in 1 .. Len(f[k]) :
            r + 1 \in 1 .. Len(f[k]) /\ bs[m][1] = f[k][r] /\ ret = f[k][r + 1]
      BY <2>9 DEF Follows
    <3>2. PICK r \in 1 .. Len(f[k]) :
            r + 1 \in 1 .. Len(f[k]) /\ bs[m][1] = f[k][r] /\ ret = f[k][r + 1]
      BY <3>1
    <3>3. ret.id = <<n, Len(f[n])>> /\ f[k][r + 1].id = <<k, r + 1>>
      <4> HIDE DEF ret
      <4>1. f[k][r + 1].id = <<k, r + 1>>
        BY <3>2, SourceFacts
      <4>2. f[n][Len(f[n])].id = <<n, Len(f[n])>>
        BY <2>1, SourceFacts
      <4> QED BY <4>1, <4>2 DEF ret
    <3>4. k = n /\ r + 1 = Len(f[n]) /\ Len(f[n]) \in Nat /\ r \in Nat /\ r > 0
      BY <3>2, <3>3, SourceFacts
    <3>5. Len(f[n]) > 1 /\ IsBarrier(f[n][Len(f[n]) - 1])
      BY <2>6, <3>2, <3>4
    <3> QED BY <1>3, <3>5 DEF EndsWithBarrier
  <2>10. CASE bs[m][1] = ExitBarrier(ret)
    BY <1>1, <2>7, <2>10, InstructionsAt, Zenon
  <2> QED BY <2>1, <2>8, <2>9, <2>10 DEF Reads
<1>4. ASSUME NEW a \in Wanted(f) PROVE a \in Instructions(bs) /\ a # Br
  <2>1. CASE \E n \in 1 .. Len(f) : \E q \in 1 .. Len(f[n]) : a = f[n][q]
    <3>1. a \in Instructions(f)
      BY <1>1, <2>1, InstructionsAt, Zenon
    <3> QED BY <3>1, <2>1, <1>2, SourceFacts
  <2>2. CASE a = EntryBarrier /\ ~JustABarrier(f[1])
    BY <2>2, Additions DEF IsBarrier
  <2>3. CASE \E n \in 1 .. Len(f) : /\ f[n][Len(f[n])].op = "ret" /\ ~EndsWithBarrier(f[n])
                                     /\ a = ExitBarrier(f[n][Len(f[n])])
    BY <2>3, <1>3 DEF ExitBarrier, Br
  <2> QED BY <2>1, <2>2, <2>3, WantedCases, Zenon
<1> QED BY <1>2, <1>4

\* And the blocks are cut where two instructions are not joined.
LEMMA CutsCanonical ==
  ASSUME NEW f \in Functions, NEW bs, Sound(bs), Reads(f, bs),
         \A n \in 1 .. Len(bs) : Guarded(bs[n]) /\ Isolated(bs[n], {}),
         NEW n \in DOMAIN f, NEW p \in 1 .. Len(f[n]) - 1
  PROVE  (\E b \in Range(bs) : {f[n][p], f[n][p + 1]} \subseteq Range(b))
           <=> Joined(f[n][p], f[n][p + 1])
<1> DEFINE i == f[n][p]
           j == f[n][p + 1]
<1>1. /\ n \in 1 .. Len(f) /\ p \in 1 .. Len(f[n]) /\ p + 1 \in 1 .. Len(f[n])
      /\ p \in Nat
  BY SourceFacts
<1>2. /\ i.id = <<n, p>> /\ j.id = <<n, p + 1>> /\ i # Br /\ j # Br
      /\ j.op \in {"jump", "ret"} <=> p + 1 = Len(f[n])
      /\ i.op \notin {"jump", "ret"} /\ j.op # "br" /\ n \in Nat /\ n > 0
  <2>1. i.id = <<n, p>> /\ i # Br /\ (i.op \in {"jump", "ret"} <=> p = Len(f[n]))
    BY <1>1, SourceFacts
  <2>2. j.id = <<n, p + 1>> /\ j # Br /\ (j.op \in {"jump", "ret"} <=> p + 1 = Len(f[n]))
    BY <1>1, SourceFacts
  <2>3. p # Len(f[n]) /\ n \in Nat /\ n > 0
    BY <1>1, SourceFacts
  <2>4. Ends(j) <=> p + 1 = Len(f[n])
    BY <1>1, SourceSound DEF Sound, Shaped
  <2> HIDE DEF i, j
  <2> QED BY <2>1, <2>2, <2>3, <2>4 DEF Ends
<1>3. /\ Shaped(bs) /\ DOMAIN bs = 1 .. Len(bs) /\ Follows(f, i, j)
      /\ \A m \in 1 .. Len(bs) : DOMAIN bs[m] = 1 .. Len(bs[m]) /\ Len(bs[m]) \in Nat
  BY <1>1, ShapeFacts DEF Sound, Follows
<1>4. ASSUME Joined(i, j)
      PROVE  \E b \in Range(bs) : {i, j} \subseteq Range(b)
  <2>1. Follows(bs, i, j)
    BY <1>3, <1>4, Zenon DEF Reads
  <2> HIDE DEF i, j
  <2>2. PICK m \in 1 .. Len(bs) : \E q \in 1 .. Len(bs[m]) :
          q + 1 \in 1 .. Len(bs[m]) /\ i = bs[m][q] /\ j = bs[m][q + 1]
    BY <2>1 DEF Follows
  <2>3. i \in Range(bs[m]) /\ j \in Range(bs[m]) /\ bs[m] \in Range(bs)
    BY <2>2, <1>3 DEF Range
  <2> QED BY <2>3
<1>5. ASSUME NEW b \in Range(bs), i \in Range(b), j \in Range(b)
      PROVE  Joined(i, j)
  <2>1. PICK m \in 1 .. Len(bs) : bs[m] = b
    BY <1>3 DEF Range
  <2>2. PICK q \in 1 .. Len(bs[m]), r \in 1 .. Len(bs[m]) : bs[m][q] = i /\ bs[m][r] = j
    <3> HIDE DEF i, j
    <3> QED BY <1>3, <1>5, <2>1 DEF Range
  <2>3. q < r
    <3>1. q \in Nat /\ r \in Nat /\ q # r
      BY <1>2, <2>2
    <3>2. ASSUME r < q PROVE FALSE
      <4>1. Earlier(bs, j, i)
        BY <2>2, <3>2, Zenon DEF Earlier
      <4>2. InFront(j, i)
        BY <4>1, <1>2, Zenon DEF Reads
      <4>3. Home(i) = n /\ Home(j) = n /\ i.id[2] = p /\ j.id[2] = p + 1 /\ i.id[1] = n /\ j.id[1] = n
        BY <1>2 DEF Home
      <4> HIDE DEF i, j
      <4> QED BY <4>2, <4>3, <1>1, <1>2 DEF InFront
    <3> QED BY <3>1, <3>2
  <2>4. (Ends(i) <=> q = Len(bs[m])) /\ (Ends(j) <=> r = Len(bs[m]))
    BY <1>3, <2>2 DEF Shaped
  <2>5. IsBarrier(i) \/ IsBarrier(j) => JustABarrier(bs[m])
    BY <2>2 DEF Isolated
  <2>6. j.op = "ret" => JustABarrier(bs[m])
    <3>1. j.op = "ret" => r = Len(bs[m])
      BY <2>4 DEF Ends
    <3> QED BY <3>1, <2>2 DEF Guarded
  <2>7. JustABarrier(bs[m]) => q = 1 /\ r = 2 /\ r = Len(bs[m]) /\ IsBarrier(i)
    BY <2>2, <2>3 DEF JustABarrier
  <2>8. Ends(j) => j.op \in {"jump", "ret"} /\ ~IsBarrier(j)
    BY <1>2 DEF Ends, IsBarrier
  <2> HIDE DEF i, j
  <2> QED BY <2>4, <2>5, <2>6, <2>7, <2>8 DEF Joined
<1> QED BY <1>4, <1>5

\* Whatever the order of BarrierSet, the pass leaves every instruction, each
\* barrier that was missing, in the source's order, and cuts a block exactly
\* where two instructions must not stand together (runOnFunction).
THEOREM HiveOffCanonical == Spec => []ResultIsCanonical
<1>1. Init => CanonInv
  BY ReadsSource DEF Init, CanonInv
<1>2. IInv /\ CanonInv /\ [Next]_vars => CanonInv'
  BY CanonNext
<1>3. IInv /\ CanonInv => ResultIsCanonical
  <2> SUFFICES ASSUME IInv, CanonInv, pc = "done"
      PROVE /\ Instructions(blocks) \ {Br} = Wanted(source)
            /\ InOrder(blocks)
            /\ \A n \in DOMAIN source : \A p \in 1 .. Len(source[n]) - 1 :
                 (\E b \in Range(blocks) : {source[n][p], source[n][p + 1]} \subseteq Range(b))
                   <=> Joined(source[n][p], source[n][p + 1])
    BY DEF ResultIsCanonical
  <2>1. /\ source \in Functions /\ Sound(blocks) /\ Shaped(blocks) /\ Reads(source, blocks)
        /\ JustABarrier(source[1]) \/ EntryBarrier \in Instructions(blocks)
        /\ \A n \in 1 .. Len(blocks) : Guarded(blocks[n]) /\ Isolated(blocks[n], {})
    BY DEF IInv, PhaseInv, CanonInv, Sound
  <2>2. Instructions(blocks) \ {Br} = Wanted(source)
    BY <2>1, NothingMissing
  <2>3. InOrder(blocks)
    <3>1. /\ DOMAIN blocks = 1 .. Len(blocks)
          /\ \A n \in 1 .. Len(blocks) : DOMAIN blocks[n] = 1 .. Len(blocks[n])
      BY <2>1, ShapeFacts
    <3> SUFFICES ASSUME NEW m \in 1 .. Len(blocks), NEW n \in 1 .. Len(blocks),
                        NEW q \in 1 .. Len(blocks[m]), NEW r \in 1 .. Len(blocks[n]),
                        m < n \/ (m = n /\ q < r), blocks[m][q] # Br, blocks[n][r] # Br
                 PROVE  InFront(blocks[m][q], blocks[n][r])
      BY <3>1 DEF InOrder
    <3>2. Earlier(blocks, blocks[m][q], blocks[n][r])
      BY Zenon DEF Earlier
    <3> QED BY <3>2, <2>1, Zenon DEF Reads
  <2>4. ASSUME NEW n \in DOMAIN source, NEW p \in 1 .. Len(source[n]) - 1
        PROVE  (\E b \in Range(blocks) : {source[n][p], source[n][p + 1]} \subseteq Range(b))
                 <=> Joined(source[n][p], source[n][p + 1])
    BY <2>1, CutsCanonical
  <2> QED BY <2>2, <2>3, <2>4
<1> QED BY <1>1, <1>2, <1>3, SpecIInv, PTL DEF Spec
=============================================================================
