------------------------ MODULE PhiToMemory_proofs ------------------------
(***************************************************************************)
(* For every kernel of any size: once context_spill.cpp is through no      *)
(* block uses a value of another one and no PHI is left                    *)
(* (SpilledNothingEscapes); what PHIs break_phi_to_alloca.cpp leaves are   *)
(* those it found first, in front of their blocks (BrokenPhisInFront).     *)
(*                                                                         *)
(* A value is Local when each use of it in a block is behind a computation *)
(* or a reload of it, and each block that hands it to a PHI has it.  The   *)
(* first invariant, SpillInv, is that what the work list does not name is  *)
(* Local.  That needs what a demotion does to the other values:            *)
(* instructions are only put in, behind the PHIs, and what they use is at  *)
(* hand (Spread, Extended), so nothing that was near gets lost.  Demoting a *)
(* PHI takes it away (WithoutPhi): everything but its own value stays near, *)
(* and that one is reloaded in its place (ReloadForPhi).                   *)
(*                                                                         *)
(* The second, BreakInv, is that every block stays made of the kernel's    *)
(* instructions, loads and stores (Made).  Then no more hangs on its branch *)
(* than did at first (TransitiveUsesStable).                               *)
(***************************************************************************)
EXTENDS PhiToMemory, Cfg_proofs, SequenceTheorems

-----------------------------------------------------------------------------
(***************************************************************************)
(* The code of a block: PHIs in front, something else at the end.          *)
(***************************************************************************)
IsCode(c) ==
  /\ c \in Seq(Range(c)) /\ c # << >> /\ ~IsPhi(c[Len(c)])
  /\ \A p \in DOMAIN c : IsPhi(c[p]) => \A q \in 1 .. p - 1 : IsPhi(c[q])

\* x is given, or computed in front of place p.
Near(c, p, x) == x \in DOMAIN Given \/ \E q \in 1 .. p - 1 : c[q].name = x

LEMMA CodeLength ==
  ASSUME NEW c, c \in Seq(Range(c))
  PROVE  Len(c) \in Nat /\ DOMAIN c = 1 .. Len(c)
OBVIOUS

LEMMA Inserted ==
  ASSUME NEW c, c \in Seq(Range(c)), NEW e, NEW k \in 1 .. Len(c) + 1
  PROVE  /\ InsertAt(c, k, e) \in Seq(Range(InsertAt(c, k, e)))
         /\ Len(InsertAt(c, k, e)) = Len(c) + 1
         /\ \A i \in 1 .. Len(c) + 1 :
              InsertAt(c, k, e)[i] = IF i < k THEN c[i] ELSE IF i = k THEN e ELSE c[i - 1]
<1> DEFINE T == Range(c) \cup {e}
           u == SubSeq(c, 1, k - 1)
           v == SubSeq(c, k, Len(c))
           w == u \o <<e>>
           d == InsertAt(c, k, e)
<1>1. c \in Seq(T) /\ e \in T
  <2>1. Range(c) \subseteq T /\ e \in T
    OBVIOUS
  <2> HIDE DEF T
  <2> QED BY <2>1, SeqMonotonic
<1> HIDE DEF T
<1>2. u \in Seq(T) /\ Len(u) = k - 1 /\ \A i \in 1 .. k - 1 : u[i] = c[i]
  BY <1>1
<1>3. /\ v \in Seq(T) /\ Len(v) = Len(c) + 1 - k
      /\ \A i \in 1 .. Len(c) + 1 - k : v[i] = c[k + i - 1]
  BY <1>1
<1>4. d = u \o <<e>> \o v
  BY DEF InsertAt
<1> HIDE DEF u, v, d
<1>5. w \in Seq(T) /\ Len(w) = k
  BY <1>1, <1>2
<1>6. \A i \in 1 .. k : w[i] = IF i < k THEN u[i] ELSE e
  BY <1>1, <1>2
<1>7. d = w \o v
  BY <1>4
<1> HIDE DEF w
<1>8. /\ d \in Seq(T) /\ Len(d) = Len(w) + Len(v)
      /\ \A i \in 1 .. Len(w) + Len(v) : d[i] = IF i <= Len(w) THEN w[i] ELSE v[i - Len(w)]
  BY ONLY <1>3, <1>5, <1>7, ConcatProperties
<1>9. Len(d) = Len(c) + 1 /\ Len(c) \in Nat
  BY <1>1, <1>3, <1>5, <1>8
<1>10. ASSUME NEW i \in 1 .. Len(c) + 1
       PROVE  d[i] = IF i < k THEN c[i] ELSE IF i = k THEN e ELSE c[i - 1]
  <2>1. d[i] = IF i <= k THEN w[i] ELSE v[i - k]
    BY <1>5, <1>8, <1>9
  <2>2. i <= k => w[i] = IF i < k THEN u[i] ELSE e
    BY <1>6, <1>9
  <2>3. i < k => u[i] = c[i]
    BY <1>2, <1>9
  <2>4. i > k => v[i - k] = c[i - 1]
    BY <1>3, <1>9
  <2> QED BY <2>1, <2>2, <2>3, <2>4, <1>9
<1>11. d \in Seq(Range(d))
  BY <1>8, SeqOfRange
<1> QED BY <1>9, <1>10, <1>11 DEF d

LEMMA Erased ==
  ASSUME NEW c, c \in Seq(Range(c)), NEW k \in 1 .. Len(c)
  PROVE  /\ RemoveAt(c, k) \in Seq(Range(RemoveAt(c, k)))
         /\ Len(RemoveAt(c, k)) = Len(c) - 1
         /\ \A i \in 1 .. Len(c) - 1 :
              RemoveAt(c, k)[i] = IF i < k THEN c[i] ELSE c[i + 1]
<1> DEFINE T == Range(c)
           u == SubSeq(c, 1, k - 1)
           v == SubSeq(c, k + 1, Len(c))
           d == RemoveAt(c, k)
<1> HIDE DEF T
<1>1. c \in Seq(T)
  BY DEF T
<1>2. u \in Seq(T) /\ Len(u) = k - 1 /\ \A i \in 1 .. k - 1 : u[i] = c[i]
  BY <1>1
<1>3. /\ v \in Seq(T) /\ Len(v) = Len(c) - k
      /\ \A i \in 1 .. Len(c) - k : v[i] = c[k + i]
  BY <1>1
<1>4. d = u \o v
  BY DEF RemoveAt
<1> HIDE DEF u, v, d
<1>5. /\ d \in Seq(T) /\ Len(d) = Len(u) + Len(v)
      /\ \A i \in 1 .. Len(u) + Len(v) : d[i] = IF i <= Len(u) THEN u[i] ELSE v[i - Len(u)]
  BY ONLY <1>2, <1>3, <1>4, ConcatProperties
<1>6. Len(d) = Len(c) - 1 /\ Len(c) \in Nat
  BY <1>1, <1>2, <1>3, <1>5
<1>7. ASSUME NEW i \in 1 .. Len(c) - 1
      PROVE  d[i] = IF i < k THEN c[i] ELSE c[i + 1]
  <2>1. d[i] = IF i <= k - 1 THEN u[i] ELSE v[i - (k - 1)]
    BY <1>2, <1>3, <1>5, <1>6
  <2>2. i < k => u[i] = c[i]
    BY <1>2, <1>6
  <2>3. i >= k => v[i - (k - 1)] = c[i + 1]
    BY <1>3, <1>6
  <2> QED BY <2>1, <2>2, <2>3, <1>6
<1>8. d \in Seq(Range(d))
  BY <1>5, SeqOfRange
<1> QED BY <1>6, <1>7, <1>8 DEF d

\* Where the PHIs of a block end.
LEMMA FirstNonPhiFacts ==
  ASSUME NEW c, IsCode(c)
  PROVE  /\ FirstNonPhi(c) \in 1 .. Len(c)
         /\ \A q \in DOMAIN c : IsPhi(c[q]) <=> q < FirstNonPhi(c)
<1> DEFINE K == {k \in Nat : \A q \in 1 .. k : q <= Len(c) => IsPhi(c[q])}
           Is(p) == ~IsPhi(c[p]) /\ \A q \in 1 .. p - 1 : IsPhi(c[q])
<1>1. c \in Seq(Range(c)) /\ Len(c) \in Nat /\ DOMAIN c = 1 .. Len(c) /\ Len(c) # 0
  BY DEF IsCode
<1>2. \E p \in DOMAIN c : Is(p)
  <2>1. SUFFICES ASSUME \A p \in DOMAIN c : ~Is(p) PROVE FALSE
    OBVIOUS
  <2>2. 0 \in K
    OBVIOUS
  <2>3. ASSUME NEW k \in Nat, k \in K PROVE k + 1 \in K
    <3>1. CASE k + 1 \in DOMAIN c
      BY <1>1, <2>1, <2>3, <3>1
    <3>2. CASE k + 1 \notin DOMAIN c
      BY <1>1, <2>3, <3>2
    <3> QED BY <3>1, <3>2
  <2>4. Len(c) \in K
    <3> HIDE DEF K
    <3> QED BY <1>1, <2>2, <2>3, SetInduction
  <2> QED BY <1>1, <2>4 DEF IsCode
<1>3. FirstNonPhi(c) \in DOMAIN c /\ Is(FirstNonPhi(c))
  <2> HIDE DEF Is
  <2>1. FirstNonPhi(c) = CHOOSE p \in DOMAIN c : Is(p)
    BY DEF FirstNonPhi, Is
  <2> QED BY <1>2, <2>1
<1> QED BY <1>1, <1>3 DEF IsCode

-----------------------------------------------------------------------------
(***************************************************************************)
(* d is c with instructions put in: pos says where those of c went.  What  *)
(* is new is behind the PHIs and uses what is near.                        *)
(***************************************************************************)
IsNew(c, d, pos, r) ==
  /\ ~IsPhi(d[r]) /\ d[r].slot # NoSlot
  /\ \A q \in DOMAIN c : IsPhi(c[q]) => pos[q] < r
  /\ \A y \in Uses(d[r]) : Near(d, r, y)

SpreadBy(c, d, pos) ==
  /\ d \in Seq(Range(d))
  /\ pos \in [DOMAIN c -> DOMAIN d]
  /\ \A p \in DOMAIN c : d[pos[p]] = c[p]
  /\ \A p, q \in DOMAIN c : p < q => pos[p] < pos[q]
  /\ \A r \in DOMAIN d : (\E p \in DOMAIN c : r = pos[p]) \/ IsNew(c, d, pos, r)

Spread(c, d) == \E pos : SpreadBy(c, d, pos)

LEMMA SpreadIsCode ==
  ASSUME NEW c, IsCode(c), NEW d, Spread(c, d)
  PROVE  IsCode(d)
<1>1. PICK pos : SpreadBy(c, d, pos)
  BY DEF Spread
<1>2. /\ Len(c) \in Nat /\ DOMAIN c = 1 .. Len(c) /\ Len(c) # 0 /\ Len(c) \in DOMAIN c
      /\ d \in Seq(Range(d)) /\ Len(d) \in Nat /\ DOMAIN d = 1 .. Len(d)
  BY <1>1 DEF IsCode, SpreadBy
<1>3. Len(d) # 0 /\ d # << >> /\ Len(d) \in DOMAIN d
  BY <1>1, <1>2 DEF SpreadBy
<1>4. ~IsPhi(d[Len(d)])
  <2>1. CASE \E p \in DOMAIN c : Len(d) = pos[p]
    <3>1. PICK p \in DOMAIN c : Len(d) = pos[p]
      BY <2>1
    <3>2. p = Len(c)
      <4>1. SUFFICES ASSUME p < Len(c) PROVE FALSE
        BY <1>2
      <4>2. pos[p] < pos[Len(c)] /\ pos[Len(c)] \in DOMAIN d
        BY <1>1, <1>2, <4>1 DEF SpreadBy
      <4> QED BY <1>2, <3>1, <4>2
    <3>3. d[Len(d)] = c[Len(c)]
      BY <1>1, <1>2, <3>1, <3>2 DEF SpreadBy
    <3> QED BY <3>3 DEF IsCode
  <2>2. CASE ~\E p \in DOMAIN c : Len(d) = pos[p]
    BY <1>1, <1>3, <2>2 DEF SpreadBy, IsNew
  <2> QED BY <2>1, <2>2
<1>5. ASSUME NEW r \in DOMAIN d, IsPhi(d[r]), NEW s \in 1 .. r - 1
      PROVE  IsPhi(d[s])
  <2>1. PICK p \in DOMAIN c : r = pos[p]
    BY <1>1, <1>5 DEF SpreadBy, IsNew
  <2>2. d[r] = c[p] /\ IsPhi(c[p])
    BY <1>1, <1>5, <2>1 DEF SpreadBy
  <2>3. s \in DOMAIN d /\ s < r
    BY <1>2
  <2>4. PICK q \in DOMAIN c : s = pos[q]
    <3>1. ~IsNew(c, d, pos, s)
      BY <1>2, <2>1, <2>2, <2>3 DEF IsNew
    <3> QED BY <1>1, <2>3, <3>1 DEF SpreadBy
  <2>5. q < p
    <3>1. p < q => pos[p] < pos[q]
      BY <1>1 DEF SpreadBy
    <3> QED BY <1>2, <2>1, <2>3, <2>4, <3>1
  <2>6. IsPhi(c[q])
    <3>1. q \in 1 .. p - 1
      BY <1>2, <2>5
    <3> QED BY <2>2, <3>1 DEF IsCode
  <2>7. d[s] = c[q]
    BY <1>1, <2>4 DEF SpreadBy
  <2> QED BY <2>6, <2>7
<1> QED BY <1>2, <1>3, <1>4, <1>5 DEF IsCode

\* What was near stays near.
LEMMA SpreadNear ==
  ASSUME NEW c, IsCode(c), NEW d, NEW pos, SpreadBy(c, d, pos),
         NEW p \in DOMAIN c, NEW y, Near(c, p, y)
  PROVE  Near(d, pos[p], y)
<1>1. CASE y \in DOMAIN Given
  BY <1>1 DEF Near
<1>2. CASE y \notin DOMAIN Given
  <2>1. PICK q \in 1 .. p - 1 : c[q].name = y
    BY <1>2 DEF Near
  <2>2. /\ Len(c) \in Nat /\ DOMAIN c = 1 .. Len(c)
        /\ Len(d) \in Nat /\ DOMAIN d = 1 .. Len(d)
    BY DEF IsCode, SpreadBy
  <2>3. q \in DOMAIN c /\ q < p
    BY <2>2
  <2>4. pos[q] < pos[p] /\ pos[q] \in DOMAIN d /\ pos[p] \in DOMAIN d /\ d[pos[q]] = c[q]
    BY <2>3 DEF SpreadBy
  <2>5. pos[q] \in 1 .. pos[p] - 1 /\ d[pos[q]].name = y
    BY <2>1, <2>2, <2>4
  <2> QED BY <2>5 DEF Near
<1> QED BY <1>1, <1>2

\* What is near the end stays near the end.
LEMMA SpreadNearEnd ==
  ASSUME NEW c, IsCode(c), NEW d, Spread(c, d), NEW y, Near(c, Len(c), y)
  PROVE  Near(d, Len(d), y)
<1>1. PICK pos : SpreadBy(c, d, pos)
  BY DEF Spread
<1>2. /\ Len(c) \in DOMAIN c /\ Len(d) \in Nat /\ DOMAIN d = 1 .. Len(d)
  BY <1>1 DEF IsCode, SpreadBy
<1>3. Near(d, pos[Len(c)], y) /\ pos[Len(c)] \in DOMAIN d
  <2>1. Near(d, pos[Len(c)], y)
    BY <1>1, <1>2, SpreadNear
  <2> QED BY <1>1, <1>2, <2>1 DEF SpreadBy
<1> QED BY <1>2, <1>3 DEF Near

LEMMA SpreadItself ==
  ASSUME NEW c, IsCode(c)
  PROVE  Spread(c, c)
<1>1. SpreadBy(c, c, [p \in DOMAIN c |-> p])
  BY DEF SpreadBy, IsCode
<1> QED BY <1>1 DEF Spread

\* One instruction more.
LEMMA InsertSpreads ==
  ASSUME NEW c, IsCode(c), NEW k \in 1 .. Len(c) + 1, NEW e,
         ~IsPhi(e), e.slot # NoSlot,
         \A q \in DOMAIN c : IsPhi(c[q]) => q < k,
         \A y \in Uses(e) : Near(c, k, y)
  PROVE  Spread(c, InsertAt(c, k, e))
<1> DEFINE d == InsertAt(c, k, e)
           pos == [p \in DOMAIN c |-> IF p < k THEN p ELSE p + 1]
<1>1. /\ c \in Seq(Range(c)) /\ Len(c) \in Nat /\ DOMAIN c = 1 .. Len(c)
  BY DEF IsCode
<1>2. /\ d \in Seq(Range(d)) /\ Len(d) = Len(c) + 1
      /\ \A i \in 1 .. Len(c) + 1 : d[i] = IF i < k THEN c[i] ELSE IF i = k THEN e ELSE c[i - 1]
  <2>1. c \in Seq(Range(c)) /\ k \in 1 .. Len(c) + 1
    BY <1>1
  <2> QED BY ONLY <2>1, Inserted
<1> HIDE DEF d
<1>3. DOMAIN d = 1 .. Len(c) + 1
  BY <1>2
<1>4. \A p \in DOMAIN c : pos[p] = IF p < k THEN p ELSE p + 1
  OBVIOUS
<1>5. pos \in [DOMAIN c -> DOMAIN d]
  BY <1>1, <1>3
<1> HIDE DEF pos
<1>6. \A p \in DOMAIN c : d[pos[p]] = c[p]
  BY <1>1, <1>2, <1>3, <1>4
<1>7. \A p, q \in DOMAIN c : p < q => pos[p] < pos[q]
  BY <1>1, <1>4
<1>8. IsNew(c, d, pos, k)
  <2>1. d[k] = e
    BY <1>2
  <2>2. \A q \in 1 .. k - 1 : d[q] = c[q]
    BY <1>1, <1>2
  <2>3. \A q \in DOMAIN c : IsPhi(c[q]) => pos[q] < k
    BY <1>4
  <2>4. \A y \in Uses(e) : Near(d, k, y)
    BY <2>2 DEF Near
  <2> QED BY <2>1, <2>3, <2>4 DEF IsNew
<1>9. ASSUME NEW r \in DOMAIN d, r # k PROVE \E p \in DOMAIN c : r = pos[p]
  <2>1. CASE r < k
    <3>1. r \in DOMAIN c /\ r = pos[r]
      BY <1>1, <1>3, <1>4, <2>1
    <3> QED BY <3>1
  <2>2. CASE r > k
    <3>1. r - 1 \in DOMAIN c /\ r = pos[r - 1]
      BY <1>1, <1>3, <1>4, <2>2
    <3> QED BY <3>1
  <2> QED BY <1>3, <1>9, <2>1, <2>2
<1>10. SpreadBy(c, d, pos)
  BY <1>2, <1>5, <1>6, <1>7, <1>8, <1>9 DEF SpreadBy
<1> QED BY <1>10 DEF Spread, d

-----------------------------------------------------------------------------
(***************************************************************************)
(* A reload in front of every user.                                        *)
(***************************************************************************)
Served(d, x) ==
  \A r \in DOMAIN d : ~IsPhi(d[r]) /\ x \in Uses(d[r]) => Near(d, r, x)

\* d: the first n instructions of c, each user of x behind the reload l.
UpTo(c, x, l, n, d, pos) ==
  /\ d \in Seq(Range(c) \cup {l})
  /\ pos \in [1 .. n -> DOMAIN d]
  /\ n # 0 => pos[n] = Len(d)
  /\ \A p \in 1 .. n : d[pos[p]] = c[p]
  /\ \A p, q \in 1 .. n : p < q => pos[p] < pos[q]
  /\ \A r \in DOMAIN d :
       \/ \E p \in 1 .. n : r = pos[p]
       \/ d[r] = l /\ \E p \in 1 .. n : r + 1 = pos[p] /\ ~IsPhi(c[p])
  /\ \A p \in 1 .. n : ~IsPhi(c[p]) /\ x \in Uses(c[p]) => pos[p] > 1 /\ d[pos[p] - 1] = l

Piece(c, x, l, p) ==
  IF ~IsPhi(c[p]) /\ x \in Uses(c[p]) THEN <<l, c[p]>> ELSE <<c[p]>>

LEMMA OneMore ==
  ASSUME NEW c, c \in Seq(Range(c)), NEW x, NEW l, NEW n \in Nat, n + 1 <= Len(c),
         NEW d, NEW pos, UpTo(c, x, l, n, d, pos)
  PROVE  \E e : UpTo(c, x, l, n + 1, d \o Piece(c, x, l, n + 1), e)
<1> DEFINE T == Range(c) \cup {l}
           s == Piece(c, x, l, n + 1)
           t == d \o s
           e == [p \in 1 .. n + 1 |-> IF p = n + 1 THEN Len(t) ELSE pos[p]]
<1>1. c[n + 1] \in T /\ l \in T /\ Len(c) \in Nat /\ DOMAIN c = 1 .. Len(c)
  BY DEF Range
<1>2. d \in Seq(T) /\ Len(d) \in Nat /\ DOMAIN d = 1 .. Len(d)
  BY DEF UpTo
<1> HIDE DEF T
<1>3. /\ s \in Seq(T) /\ Len(s) \in {1, 2} /\ s[Len(s)] = c[n + 1]
      /\ Len(s) = 2 => s[1] = l /\ ~IsPhi(c[n + 1])
      /\ ~IsPhi(c[n + 1]) /\ x \in Uses(c[n + 1]) => Len(s) = 2
  <2>1. CASE ~IsPhi(c[n + 1]) /\ x \in Uses(c[n + 1])
    <3>1. s = <<l, c[n + 1]>>
      BY <2>1 DEF Piece
    <3> HIDE DEF s
    <3> QED BY <1>1, <2>1, <3>1
  <2>2. CASE ~(~IsPhi(c[n + 1]) /\ x \in Uses(c[n + 1]))
    <3>1. s = <<c[n + 1]>>
      BY <2>2, Zenon DEF Piece
    <3> HIDE DEF s
    <3> QED BY <1>1, <2>2, <3>1
  <2> QED BY <2>1, <2>2
<1> HIDE DEF s
<1>4. /\ t \in Seq(T) /\ Len(t) = Len(d) + Len(s)
      /\ \A i \in 1 .. Len(d) + Len(s) : t[i] = IF i <= Len(d) THEN d[i] ELSE s[i - Len(d)]
  BY <1>2, <1>3, ConcatProperties
<1> HIDE DEF t
<1>5. /\ DOMAIN t = 1 .. Len(t) /\ Len(t) \in Nat /\ Len(t) > Len(d)
      /\ \A i \in 1 .. Len(d) : t[i] = d[i]
      /\ t[Len(t)] = c[n + 1]
      /\ Len(s) = 2 => Len(t) > 1 /\ t[Len(t) - 1] = l
  <2>0. Len(d) \in Nat /\ (Len(s) = 1 \/ Len(s) = 2)
    BY <1>2, <1>3
  <2>1. DOMAIN t = 1 .. Len(t) /\ Len(t) \in Nat /\ Len(t) > Len(d)
    <3>1. DOMAIN t = 1 .. Len(t) /\ Len(t) = Len(d) + Len(s)
      BY ONLY <1>4
    <3> QED BY ONLY <3>1, <2>0
  <2>2. \A i \in 1 .. Len(d) : t[i] = d[i]
    BY ONLY <2>0, <1>4
  <2>3. \A i \in 1 .. Len(s) : t[Len(d) + i] = s[i]
    <3> TAKE i \in 1 .. Len(s)
    <3>1. Len(d) + i \in 1 .. Len(d) + Len(s) /\ ~(Len(d) + i <= Len(d)) /\ (Len(d) + i) - Len(d) = i
      BY <2>0
    <3>2. t[Len(d) + i] = IF Len(d) + i <= Len(d) THEN d[Len(d) + i] ELSE s[(Len(d) + i) - Len(d)]
      BY ONLY <3>1, <1>4, Zenon
    <3> QED BY ONLY <3>1, <3>2
  <2>4. t[Len(t)] = s[Len(s)]
    <3>1. Len(s) \in 1 .. Len(s)
      BY <2>0
    <3>2. Len(t) = Len(d) + Len(s)
      BY ONLY <1>4
    <3> QED BY ONLY <3>1, <3>2, <2>3
  <2>5. Len(s) = 2 => Len(t) > 1 /\ t[Len(t) - 1] = s[1]
    <3>1. Len(t) = Len(d) + Len(s)
      BY ONLY <1>4
    <3>2. Len(s) = 2 => 1 \in 1 .. Len(s) /\ Len(t) - 1 = Len(d) + 1 /\ Len(t) > 1
      BY ONLY <2>0, <3>1
    <3> QED BY ONLY <3>2, <2>3
  <2> QED BY <1>3, <2>1, <2>2, <2>4, <2>5
<1>6. /\ pos \in [1 .. n -> DOMAIN d] /\ \A p \in 1 .. n : pos[p] \in 1 .. Len(d)
  BY <1>2 DEF UpTo
<1>7. /\ e[n + 1] = Len(t) /\ \A p \in 1 .. n : e[p] = pos[p]
      /\ e \in [1 .. n + 1 -> DOMAIN t]
  BY <1>2, <1>5, <1>6
<1> HIDE DEF e
<1>8. \A p \in 1 .. n + 1 : p = n + 1 \/ p \in 1 .. n
  OBVIOUS
<1>9. \A p \in 1 .. n + 1 : t[e[p]] = c[p]
  <2>1. \A p \in 1 .. n : d[pos[p]] = c[p]
    BY DEF UpTo
  <2>2. ASSUME NEW p \in 1 .. n PROVE t[e[p]] = c[p]
    <3>1. e[p] = pos[p] /\ pos[p] \in 1 .. Len(d)
      BY ONLY <1>6, <1>7
    <3> QED BY ONLY <1>5, <2>1, <3>1
  <2>3. t[e[n + 1]] = c[n + 1]
    BY ONLY <1>5, <1>7
  <2> QED BY ONLY <1>8, <2>2, <2>3
<1>10. \A p, q \in 1 .. n + 1 : p < q => e[p] < e[q]
  <2>1. \A p, q \in 1 .. n : p < q => pos[p] < pos[q]
    BY DEF UpTo
  <2>2. \A p \in 1 .. n : e[p] < e[n + 1]
    BY <1>2, <1>5, <1>6, <1>7
  <2> SUFFICES ASSUME NEW p \in 1 .. n + 1, NEW q \in 1 .. n + 1, p < q PROVE e[p] < e[q]
    OBVIOUS
  <2>3. p \in 1 .. n
    BY ONLY n \in Nat, p \in 1 .. n + 1, q \in 1 .. n + 1, p < q
  <2>4. CASE q = n + 1
    BY ONLY <2>2, <2>3, <2>4
  <2>5. CASE q \in 1 .. n
    <3>1. e[p] = pos[p] /\ e[q] = pos[q]
      BY ONLY <1>7, <2>3, <2>5
    <3>2. pos[p] < pos[q]
      BY ONLY <2>1, <2>3, <2>5, p < q
    <3> QED BY ONLY <3>1, <3>2
  <2> QED BY ONLY <1>8, <2>4, <2>5, q \in 1 .. n + 1
<1>11. ASSUME NEW r \in DOMAIN t
       PROVE  \/ \E p \in 1 .. n + 1 : r = e[p]
              \/ t[r] = l /\ \E p \in 1 .. n + 1 : r + 1 = e[p] /\ ~IsPhi(c[p])
  <2>1. CASE r \in 1 .. Len(d)
    <3>1. \/ \E p \in 1 .. n : r = pos[p]
          \/ d[r] = l /\ \E p \in 1 .. n : r + 1 = pos[p] /\ ~IsPhi(c[p])
      BY <1>2, <2>1 DEF UpTo
    <3>2. \A p \in 1 .. n : p \in 1 .. n + 1 /\ e[p] = pos[p]
      BY <1>7
    <3>3. t[r] = d[r]
      BY <1>5, <2>1
    <3> QED BY <3>1, <3>2, <3>3, Zenon
  <2>2. CASE r = Len(t)
    BY <1>7, <2>2
  <2>3. CASE r \notin 1 .. Len(d) /\ r # Len(t)
    <3>1. Len(s) = 2 /\ r + 1 = Len(t) /\ r = Len(t) - 1
      BY <1>2, <1>3, <1>4, <1>5, <2>3
    <3>2. t[r] = l /\ ~IsPhi(c[n + 1])
      BY <1>3, <1>5, <3>1
    <3>3. n + 1 \in 1 .. n + 1
      OBVIOUS
    <3> QED BY <1>7, <3>1, <3>2, <3>3
  <2> QED BY <2>1, <2>2, <2>3
<1>12. ASSUME NEW p \in 1 .. n + 1, ~IsPhi(c[p]), x \in Uses(c[p])
       PROVE  e[p] > 1 /\ t[e[p] - 1] = l
  <2>1. CASE p = n + 1
    BY <1>3, <1>5, <1>7, <1>12, <2>1
  <2>2. CASE p \in 1 .. n
    <3>1. pos[p] > 1 /\ d[pos[p] - 1] = l
      BY <1>12, <2>2 DEF UpTo
    <3>2. pos[p] - 1 \in 1 .. Len(d)
      BY <1>2, <1>6, <2>2, <3>1
    <3> QED BY <1>5, <1>7, <2>2, <3>1, <3>2
  <2> QED BY <1>8, <2>1, <2>2
<1>13. UpTo(c, x, l, n + 1, t, e)
  <2>1. n + 1 # 0 => e[n + 1] = Len(t)
    BY <1>7
  <2> QED BY <1>4, <1>7, <1>9, <1>10, <1>11, <1>12, <2>1 DEF UpTo, T
<1> QED BY <1>13 DEF t, s

LEMMA ReloadedUpTo ==
  ASSUME NEW c, IsCode(c), NEW x, NEW slot
  PROVE  \E pos : UpTo(c, x, Load(x, slot), Len(c), Reloaded(c, x, slot), pos)
<1> DEFINE l == Load(x, slot)
           N == Len(c)
           s == [p \in DOMAIN c |-> Piece(c, x, l, p)]
           h == CHOOSE e : Flat(s, e, N)
           d(k) == IF k = 0 THEN << >> ELSE h[k]
           K == {k \in Nat : k <= N => \E pos : UpTo(c, x, l, k, d(k), pos)}
<1>1. c \in Seq(Range(c)) /\ N \in Nat /\ N # 0 /\ DOMAIN c = 1 .. N
  BY DEF IsCode
<1>2. Len(s) = N /\ \A p \in 1 .. N : s[p] = Piece(c, x, l, p)
  BY <1>1
<1>3. Reloaded(c, x, slot) = FlattenSeq(s)
  BY Zenon DEF Reloaded, Piece
<1> HIDE DEF l, s
<1>4. Flat(s, h, N)
  BY <1>1, FlatExists, Zenon
<1>5. FlattenSeq(s) = h[N]
  <2>1. FlattenSeq(s) = IF Len(s) = 0 THEN s ELSE (CHOOSE e : Flat(s, e, Len(s)))[Len(s)]
    BY DEF FlattenSeq, Flat
  <2> QED BY <1>1, <1>2, <2>1, Zenon
<1> HIDE DEF h
<1>6. \A i \in 1 .. N : h[i] = IF i = 1 THEN s[i] ELSE h[i - 1] \o s[i]
  BY <1>4, Zenon DEF Flat
<1> HIDE DEF N
<1>7. 0 \in K
  <2>1. UpTo(c, x, l, 0, << >>, << >>)
    <3>1. 1 .. 0 = {} /\ DOMAIN << >> = {} /\ << >> \in Seq(Range(c) \cup {l})
      OBVIOUS
    <3>2. << >> \in [1 .. 0 -> DOMAIN << >>]
      OBVIOUS
    <3> QED BY <3>1, <3>2 DEF UpTo
  <2> QED BY <2>1
<1>8. ASSUME NEW k \in Nat, k \in K PROVE k + 1 \in K
  <2>1. SUFFICES ASSUME k + 1 <= N PROVE \E pos : UpTo(c, x, l, k + 1, d(k + 1), pos)
    OBVIOUS
  <2>2. PICK pos : UpTo(c, x, l, k, d(k), pos)
    BY <1>1, <1>8, <2>1
  <2>3. \E e : UpTo(c, x, l, k + 1, d(k) \o Piece(c, x, l, k + 1), e)
    <3> HIDE DEF d
    <3> QED BY <1>1, <2>1, <2>2, OneMore DEF N
  <2>4. d(k + 1) = d(k) \o Piece(c, x, l, k + 1)
    <3>1. d(k + 1) = h[k + 1] /\ k + 1 \in 1 .. N
      BY <2>1
    <3>2. s[k + 1] = Piece(c, x, l, k + 1)
      BY <1>2, <3>1
    <3>3. CASE k = 0
      <4>1. h[k + 1] = s[k + 1]
        BY <1>6, <3>1, <3>3
      <4>2. Piece(c, x, l, k + 1) \in Seq({l, c[k + 1]})
        <5> DEFINE i == c[k + 1]
        <5>1. Piece(c, x, l, k + 1) = <<l, i>> \/ Piece(c, x, l, k + 1) = <<i>>
          BY Zenon DEF Piece
        <5> HIDE DEF i
        <5>2. <<l, i>> \in Seq({l, i}) /\ <<i>> \in Seq({l, i})
          OBVIOUS
        <5>3. Piece(c, x, l, k + 1) \in Seq({l, i})
          BY <5>1, <5>2, Zenon
        <5> QED BY <5>3 DEF i
      <4>3. << >> \o Piece(c, x, l, k + 1) = Piece(c, x, l, k + 1)
        BY <4>2, ConcatEmptySeq
      <4> QED BY <3>1, <3>2, <3>3, <4>1, <4>3
    <3>4. CASE k # 0
      <4>1. k + 1 # 1 /\ (k + 1) - 1 = k
        BY <3>4
      <4>2. h[k + 1] = h[k] \o s[k + 1]
        BY <1>6, <3>1, <4>1
      <4> QED BY <3>1, <3>2, <3>4, <4>2
    <3> QED BY <3>3, <3>4
  <2> QED BY <2>3, <2>4, Zenon
<1>9. N \in K
  <2> HIDE DEF K
  <2> QED BY <1>1, <1>7, <1>8, SetInduction
<1>10. \E pos : UpTo(c, x, l, N, h[N], pos)
  BY <1>1, <1>9
<1> QED BY <1>3, <1>5, <1>10 DEF N, l

\* Nothing is lost, and every user has a value of its block.
LEMMA ReloadedSpreads ==
  ASSUME NEW c, IsCode(c), NEW x, NEW slot, slot # NoSlot
  PROVE  Spread(c, Reloaded(c, x, slot)) /\ Served(Reloaded(c, x, slot), x)
<1> DEFINE l == Load(x, slot)
           d == Reloaded(c, x, slot)
<1>1. PICK pos : UpTo(c, x, l, Len(c), d, pos)
  BY ReloadedUpTo
<1>2. l.name = x /\ l.slot = slot /\ ~IsPhi(l) /\ Uses(l) = {}
  BY DEF Load, IsPhi, Uses, Range
<1>3. c \in Seq(Range(c)) /\ Len(c) \in Nat /\ DOMAIN c = 1 .. Len(c)
  BY DEF IsCode
<1> HIDE DEF d, l
<1>4. d \in Seq(Range(d)) /\ Len(d) \in Nat /\ DOMAIN d = 1 .. Len(d)
  <2>1. d \in Seq(Range(c) \cup {l})
    BY <1>1 DEF UpTo
  <2> QED BY <2>1, SeqOfRange
<1>5. pos \in [DOMAIN c -> DOMAIN d] /\ \A p \in DOMAIN c : d[pos[p]] = c[p]
  BY <1>1, <1>3 DEF UpTo
<1>6. \A p, q \in DOMAIN c : p < q => pos[p] < pos[q]
  BY <1>1, <1>3 DEF UpTo
<1>7. ASSUME NEW r \in DOMAIN d, ~\E p \in DOMAIN c : r = pos[p]
      PROVE  IsNew(c, d, pos, r)
  <2>1. d[r] = l /\ \E p \in DOMAIN c : r + 1 = pos[p] /\ ~IsPhi(c[p])
    BY <1>1, <1>3, <1>7 DEF UpTo
  <2>2. PICK p \in DOMAIN c : r + 1 = pos[p] /\ ~IsPhi(c[p])
    BY <2>1
  <2>3. ASSUME NEW q \in DOMAIN c, IsPhi(c[q]) PROVE pos[q] < r
    <3>1. q < p
      <4>1. p < q => FALSE
        BY <1>3, <2>2, <2>3 DEF IsCode
      <4> QED BY <1>3, <2>2, <2>3, <4>1
    <3>2. pos[q] < pos[p] /\ pos[q] \in DOMAIN d
      BY <1>5, <1>6, <3>1
    <3>3. pos[q] # r
      BY <1>7
    <3> QED BY <1>4, <2>2, <3>2, <3>3
  <2> QED BY <1>2, <2>1, <2>3 DEF IsNew
<1>8. Spread(c, d)
  <2>1. SpreadBy(c, d, pos)
    BY <1>4, <1>5, <1>6, <1>7 DEF SpreadBy
  <2> QED BY <2>1 DEF Spread
<1>9. ASSUME NEW r \in DOMAIN d, ~IsPhi(d[r]), x \in Uses(d[r])
      PROVE  Near(d, r, x)
  <2>1. PICK p \in DOMAIN c : r = pos[p]
    <3>1. d[r] # l
      BY <1>2, <1>9
    <3> QED BY <1>1, <1>3, <3>1 DEF UpTo
  <2>2. d[r] = c[p]
    BY <1>5, <2>1
  <2>3. pos[p] > 1 /\ d[pos[p] - 1] = l
    BY <1>1, <1>3, <1>9, <2>2 DEF UpTo
  <2>4. r - 1 \in 1 .. r - 1 /\ d[r - 1].name = x
    BY <1>2, <1>4, <2>1, <2>3
  <2> QED BY <2>4 DEF Near
<1> QED BY <1>8, <1>9 DEF Served, d

-----------------------------------------------------------------------------
(***************************************************************************)
(* Functions.  Each value a block uses is one of its own, or given; each   *)
(* value a PHI takes is one of the block it comes from, or given.          *)
(***************************************************************************)
Formed(f) ==
  /\ "code" \in DOMAIN f
  /\ \A b \in Blocks(f) :
       /\ IsCode(f.code[b])
       /\ \A p \in DOMAIN f.code[b] :
            IsPhi(f.code[b][p]) => DOMAIN f.code[b][p].args \subseteq Blocks(f)

\* The PHIs and the other values of the kernel have names of their own.
OneEach(f) ==
  \A b, c \in Blocks(f) : \A p \in DOMAIN f.code[b], q \in DOMAIN f.code[c] :
    /\ IsPhi(f.code[b][p]) => f.code[b][p].slot = NoSlot
    /\ /\ f.code[b][p].slot = NoSlot /\ f.code[c][q].slot = NoSlot
       /\ f.code[b][p].name = f.code[c][q].name
       => b = c /\ p = q

Read(f, y) == \A b \in Blocks(f) : Served(f.code[b], y)

Handed(f, y) ==
  \A b \in Blocks(f) : \A p \in DOMAIN f.code[b] : IsPhi(f.code[b][p]) =>
    \A m \in DOMAIN f.code[b][p].args :
      f.code[b][p].args[m] = y => Near(f.code[m], Len(f.code[m]), y)

Local(f, y) == Read(f, y) /\ Handed(f, y)

Has(f, x) == \E b \in Blocks(f) : \E p \in DOMAIN f.code[b] : IsOwn(f.code[b][p], x)

HasPhi(f, x) ==
  \E b \in Blocks(f) : \E p \in DOMAIN f.code[b] :
    IsPhi(f.code[b][p]) /\ f.code[b][p].name = x

\* g is f with instructions put in.
Extended(f, g) ==
  /\ "code" \in DOMAIN g /\ Blocks(g) = Blocks(f)
  /\ \A b \in Blocks(f) : Spread(f.code[b], g.code[b])

LEMMA SpreadPhi ==
  ASSUME NEW c, NEW d, Spread(c, d), NEW r \in DOMAIN d, IsPhi(d[r])
  PROVE  \E p \in DOMAIN c : d[r] = c[p]
BY DEF Spread, SpreadBy, IsNew

LEMMA SpreadOwn ==
  ASSUME NEW c, NEW d, Spread(c, d), NEW p \in DOMAIN c
  PROVE  \E r \in DOMAIN d : d[r] = c[p]
<1>1. PICK pos : SpreadBy(c, d, pos)
  BY DEF Spread
<1>2. pos[p] \in DOMAIN d /\ d[pos[p]] = c[p]
  BY <1>1 DEF SpreadBy
<1> QED BY <1>2

LEMMA SpreadServed ==
  ASSUME NEW c, IsCode(c), NEW d, Spread(c, d), NEW y, Served(c, y)
  PROVE  Served(d, y)
<1>1. PICK pos : SpreadBy(c, d, pos)
  BY DEF Spread
<1>2. SUFFICES ASSUME NEW r \in DOMAIN d, ~IsPhi(d[r]), y \in Uses(d[r])
               PROVE  Near(d, r, y)
  BY DEF Served
<1>3. CASE \E p \in DOMAIN c : r = pos[p]
  <2>1. PICK p \in DOMAIN c : r = pos[p]
    BY <1>3
  <2>2. d[r] = c[p]
    BY <1>1, <2>1 DEF SpreadBy
  <2>3. Near(c, p, y)
    BY <1>2, <2>2 DEF Served
  <2> QED BY <1>1, <2>1, <2>3, SpreadNear
<1>4. CASE ~\E p \in DOMAIN c : r = pos[p]
  BY <1>1, <1>2, <1>4 DEF SpreadBy, IsNew
<1> QED BY <1>3, <1>4

LEMMA ExtendedFormed ==
  ASSUME NEW f, Formed(f), NEW g, Extended(f, g)
  PROVE  Formed(g)
<1>1. ASSUME NEW b \in Blocks(g)
      PROVE  /\ IsCode(g.code[b])
             /\ \A p \in DOMAIN g.code[b] :
                  IsPhi(g.code[b][p]) => DOMAIN g.code[b][p].args \subseteq Blocks(g)
  <2>1. b \in Blocks(f) /\ Blocks(f) = Blocks(g) /\ Spread(f.code[b], g.code[b])
    BY DEF Extended
  <2>2. IsCode(f.code[b])
    BY <2>1 DEF Formed
  <2>3. IsCode(g.code[b])
    BY <2>1, <2>2, SpreadIsCode
  <2>4. ASSUME NEW p \in DOMAIN g.code[b], IsPhi(g.code[b][p])
        PROVE  DOMAIN g.code[b][p].args \subseteq Blocks(g)
    <3>1. PICK q \in DOMAIN f.code[b] : g.code[b][p] = f.code[b][q]
      BY <2>1, <2>4, SpreadPhi
    <3> QED BY <2>1, <2>4, <3>1 DEF Formed
  <2> QED BY <2>3, <2>4
<1> QED BY <1>1 DEF Formed, Extended

LEMMA ExtendedRead ==
  ASSUME NEW f, Formed(f), NEW g, Extended(f, g), NEW y, Read(f, y)
  PROVE  Read(g, y)
<1>1. SUFFICES ASSUME NEW b \in Blocks(g) PROVE Served(g.code[b], y)
  BY DEF Read
<1>2. b \in Blocks(f) /\ Spread(f.code[b], g.code[b])
  BY DEF Extended
<1>3. IsCode(f.code[b]) /\ Served(f.code[b], y)
  BY <1>2 DEF Formed, Read
<1> QED BY <1>2, <1>3, SpreadServed

LEMMA ExtendedHanded ==
  ASSUME NEW f, Formed(f), NEW g, Extended(f, g), NEW y, Handed(f, y)
  PROVE  Handed(g, y)
<1>1. SUFFICES ASSUME NEW b \in Blocks(g), NEW p \in DOMAIN g.code[b], IsPhi(g.code[b][p]),
                      NEW m \in DOMAIN g.code[b][p].args, g.code[b][p].args[m] = y
               PROVE  Near(g.code[m], Len(g.code[m]), y)
  BY DEF Handed
<1>2. b \in Blocks(f) /\ Spread(f.code[b], g.code[b])
  BY DEF Extended
<1>3. PICK q \in DOMAIN f.code[b] : g.code[b][p] = f.code[b][q]
  BY <1>1, <1>2, SpreadPhi
<1>4. m \in Blocks(f) /\ Near(f.code[m], Len(f.code[m]), y)
  BY <1>1, <1>2, <1>3 DEF Formed, Handed
<1>5. IsCode(f.code[m]) /\ Spread(f.code[m], g.code[m])
  BY <1>4 DEF Formed, Extended
<1> QED BY <1>4, <1>5, SpreadNearEnd

LEMMA ExtendedLocal ==
  ASSUME NEW f, Formed(f), NEW g, Extended(f, g), NEW y, Local(f, y)
  PROVE  Local(g, y)
BY ExtendedRead, ExtendedHanded DEF Local

LEMMA ExtendedOneEach ==
  ASSUME NEW f, Formed(f), NEW g, Extended(f, g), OneEach(f)
  PROVE  OneEach(g)
<1>1. SUFFICES ASSUME NEW b \in Blocks(g), NEW c \in Blocks(g),
                      NEW p \in DOMAIN g.code[b], NEW q \in DOMAIN g.code[c]
               PROVE  /\ IsPhi(g.code[b][p]) => g.code[b][p].slot = NoSlot
                      /\ /\ g.code[b][p].slot = NoSlot /\ g.code[c][q].slot = NoSlot
                         /\ g.code[b][p].name = g.code[c][q].name
                         => b = c /\ p = q
  BY DEF OneEach
<1>2. /\ b \in Blocks(f) /\ Spread(f.code[b], g.code[b])
      /\ c \in Blocks(f) /\ Spread(f.code[c], g.code[c])
  BY DEF Extended
<1>3. ASSUME IsPhi(g.code[b][p]) PROVE g.code[b][p].slot = NoSlot
  <2>1. PICK r \in DOMAIN f.code[b] : g.code[b][p] = f.code[b][r]
    BY <1>2, <1>3, SpreadPhi
  <2> QED BY <1>2, <1>3, <2>1 DEF OneEach
<1>4. ASSUME g.code[b][p].slot = NoSlot, g.code[c][q].slot = NoSlot,
             g.code[b][p].name = g.code[c][q].name
      PROVE  b = c /\ p = q
  <2>1. PICK pos : SpreadBy(f.code[b], g.code[b], pos)
    BY <1>2 DEF Spread
  <2>2. PICK r \in DOMAIN f.code[b] : p = pos[r]
    BY <1>4, <2>1 DEF SpreadBy, IsNew
  <2>3. g.code[b][p] = f.code[b][r]
    BY <2>1, <2>2 DEF SpreadBy
  <2>4. \E s \in DOMAIN f.code[c] : g.code[c][q] = f.code[c][s]
    <3>1. PICK tgt : SpreadBy(f.code[c], g.code[c], tgt)
      BY <1>2 DEF Spread
    <3> QED BY <1>4, <3>1 DEF SpreadBy, IsNew
  <2>5. b = c
    BY <1>2, <1>4, <2>3, <2>4 DEF OneEach
  <2>6. PICK s \in DOMAIN f.code[b] : q = pos[s]
    BY <1>4, <2>1, <2>5 DEF SpreadBy, IsNew
  <2>7. g.code[c][q] = f.code[b][s]
    BY <2>1, <2>5, <2>6 DEF SpreadBy
  <2>8. r = s
    BY <1>2, <1>4, <2>3, <2>7 DEF OneEach
  <2> QED BY <2>2, <2>5, <2>6, <2>8
<1> QED BY <1>3, <1>4

LEMMA ExtendedHas ==
  ASSUME NEW f, NEW g, Extended(f, g), NEW x, Has(f, x)
  PROVE  Has(g, x)
<1>1. PICK b \in Blocks(f) : \E p \in DOMAIN f.code[b] : IsOwn(f.code[b][p], x)
  BY DEF Has
<1>2. PICK p \in DOMAIN f.code[b] : IsOwn(f.code[b][p], x)
  BY <1>1
<1>3. b \in Blocks(g) /\ Spread(f.code[b], g.code[b])
  BY DEF Extended
<1>4. PICK r \in DOMAIN g.code[b] : g.code[b][r] = f.code[b][p]
  BY <1>3, SpreadOwn
<1> QED BY <1>2, <1>3, <1>4 DEF Has

LEMMA ExtendedHasPhi ==
  ASSUME NEW f, NEW g, Extended(f, g), NEW x
  PROVE  HasPhi(g, x) <=> HasPhi(f, x)
<1>1. ASSUME HasPhi(f, x) PROVE HasPhi(g, x)
  <2>1. PICK b \in Blocks(f) :
          \E p \in DOMAIN f.code[b] : IsPhi(f.code[b][p]) /\ f.code[b][p].name = x
    BY <1>1 DEF HasPhi
  <2>2. PICK p \in DOMAIN f.code[b] : IsPhi(f.code[b][p]) /\ f.code[b][p].name = x
    BY <2>1
  <2>3. b \in Blocks(g) /\ Spread(f.code[b], g.code[b])
    BY DEF Extended
  <2>4. PICK r \in DOMAIN g.code[b] : g.code[b][r] = f.code[b][p]
    BY <2>3, SpreadOwn
  <2> QED BY <2>2, <2>3, <2>4 DEF HasPhi
<1>2. ASSUME HasPhi(g, x) PROVE HasPhi(f, x)
  <2>1. PICK b \in Blocks(g) :
          \E p \in DOMAIN g.code[b] : IsPhi(g.code[b][p]) /\ g.code[b][p].name = x
    BY <1>2 DEF HasPhi
  <2>2. PICK p \in DOMAIN g.code[b] : IsPhi(g.code[b][p]) /\ g.code[b][p].name = x
    BY <2>1
  <2>3. b \in Blocks(f) /\ Spread(f.code[b], g.code[b])
    BY DEF Extended
  <2>4. PICK r \in DOMAIN f.code[b] : g.code[b][p] = f.code[b][r]
    BY <2>2, <2>3, SpreadPhi
  <2> QED BY <2>2, <2>3, <2>4 DEF HasPhi
<1> QED BY <1>1, <1>2

-----------------------------------------------------------------------------
(***************************************************************************)
(* DemoteRegToStack.                                                       *)
(***************************************************************************)
\* In front of the branch every value of the block is at hand.
LEMMA BeforeBranchSpreads ==
  ASSUME NEW c, IsCode(c), NEW e, ~IsPhi(e), e.slot # NoSlot,
         \A y \in Uses(e) : Near(c, Len(c), y)
  PROVE  /\ Spread(c, BeforeBranch(c, e))
         /\ Near(BeforeBranch(c, e), Len(BeforeBranch(c, e)), e.name)
         /\ \A q \in 1 .. Len(c) - 1 : BeforeBranch(c, e)[q] = c[q]
<1>1. /\ c \in Seq(Range(c)) /\ Len(c) \in Nat /\ DOMAIN c = 1 .. Len(c)
      /\ Len(c) \in 1 .. Len(c) + 1
  BY DEF IsCode
<1>2. \A q \in DOMAIN c : IsPhi(c[q]) => q < Len(c)
  BY <1>1 DEF IsCode
<1>3. BeforeBranch(c, e) = InsertAt(c, Len(c), e)
  BY DEF BeforeBranch
<1>4. Spread(c, InsertAt(c, Len(c), e))
  BY <1>1, <1>2, InsertSpreads
<1> DEFINE k == Len(c)
           d == InsertAt(c, k, e)
<1>5. k \in 1 .. Len(c) + 1 /\ k = Len(c) /\ k # 0 /\ k \in Nat /\ InsertAt(c, Len(c), e) = d
  BY <1>1 DEF IsCode
<1> HIDE DEF k
<1>6. /\ Len(d) = Len(c) + 1
      /\ \A i \in 1 .. Len(c) + 1 : d[i] = IF i < k THEN c[i] ELSE IF i = k THEN e ELSE c[i - 1]
  <2>1. c \in Seq(Range(c)) /\ k \in 1 .. Len(c) + 1
    BY <1>1, <1>5
  <2> QED BY ONLY <2>1, Inserted
<1> HIDE DEF d
<1>7. d[k] = e
  BY <1>5, <1>6
<1>8. k \in 1 .. Len(d) - 1
  BY <1>5, <1>6
<1>9. Near(d, Len(d), e.name)
  BY <1>7, <1>8 DEF Near
<1>10. \A q \in 1 .. Len(c) - 1 : d[q] = c[q]
  BY <1>5, <1>6
<1> QED BY <1>3, <1>4, <1>5, <1>9, <1>10

\* The reloads in front of the users.
LEMMA ReloadsGrow ==
  ASSUME NEW f, Formed(f), NEW x, NEW slot, slot # NoSlot, NEW g,
         g = [f EXCEPT !.code = [n \in Blocks(f) |-> Reloaded(f.code[n], x, slot)]]
  PROVE  Extended(f, g) /\ Read(g, x)
<1>1. /\ "code" \in DOMAIN g
      /\ g.code = [n \in Blocks(f) |-> Reloaded(f.code[n], x, slot)]
  BY DEF Formed
<1>2. Blocks(g) = Blocks(f) /\ \A b \in Blocks(f) : g.code[b] = Reloaded(f.code[b], x, slot)
  BY <1>1 DEF Blocks
<1>3. ASSUME NEW b \in Blocks(f)
      PROVE  Spread(f.code[b], g.code[b]) /\ Served(g.code[b], x)
  <2>1. IsCode(f.code[b])
    BY DEF Formed
  <2>2. Spread(f.code[b], Reloaded(f.code[b], x, slot)) /\ Served(Reloaded(f.code[b], x, slot), x)
    BY <2>1, ReloadedSpreads
  <2> QED BY <1>2, <2>2
<1> QED BY <1>1, <1>2, <1>3 DEF Extended, Read

\* The reloads for the PHIs: the blocks of M hand x on, and reload it.
Reloads(f, g, x, slot, M) ==
  /\ "code" \in DOMAIN g /\ Blocks(g) = Blocks(f)
  /\ \A b \in Blocks(f) :
       /\ g.code[b] = IF b \in M THEN BeforeBranch(f.code[b], Load(x, slot)) ELSE f.code[b]
       /\ \A p \in DOMAIN f.code[b] : IsPhi(f.code[b][p]) =>
            \A m \in DOMAIN f.code[b][p].args : f.code[b][p].args[m] = x => m \in M

LEMMA HandingGrows ==
  ASSUME NEW f, Formed(f), NEW x, NEW slot, slot # NoSlot, NEW M, NEW g,
         Reloads(f, g, x, slot, M)
  PROVE  Extended(f, g) /\ Handed(g, x)
<1> DEFINE l == Load(x, slot)
<1>1. "code" \in DOMAIN g /\ Blocks(g) = Blocks(f)
  BY DEF Reloads
<1>2. \A b \in Blocks(f) : g.code[b] = IF b \in M THEN BeforeBranch(f.code[b], l) ELSE f.code[b]
  BY DEF Reloads
<1>3. l.name = x /\ l.slot # NoSlot /\ ~IsPhi(l) /\ Uses(l) = {}
  BY DEF Load, IsPhi, Uses, Range
<1> HIDE DEF l
<1>4. ASSUME NEW b \in Blocks(f)
      PROVE  /\ Spread(f.code[b], g.code[b])
             /\ b \in M => Near(g.code[b], Len(g.code[b]), x)
  <2>1. IsCode(f.code[b])
    BY DEF Formed
  <2>2. CASE b \in M
    <3>1. /\ Spread(f.code[b], BeforeBranch(f.code[b], l))
          /\ Near(BeforeBranch(f.code[b], l), Len(BeforeBranch(f.code[b], l)), l.name)
      BY <1>3, <2>1, BeforeBranchSpreads
    <3>2. g.code[b] = BeforeBranch(f.code[b], l)
      BY <1>2, <2>2
    <3> QED BY <1>3, <3>1, <3>2
  <2>3. CASE b \notin M
    <3>1. g.code[b] = f.code[b]
      BY <1>2, <2>3
    <3> QED BY <2>1, <2>3, <3>1, SpreadItself
  <2> QED BY <2>2, <2>3
<1>5. Extended(f, g)
  BY <1>1, <1>4 DEF Extended
<1>6. Handed(g, x)
  <2>1. SUFFICES ASSUME NEW b \in Blocks(g), NEW p \in DOMAIN g.code[b], IsPhi(g.code[b][p]),
                        NEW m \in DOMAIN g.code[b][p].args, g.code[b][p].args[m] = x
                 PROVE  Near(g.code[m], Len(g.code[m]), x)
    BY DEF Handed
  <2>2. b \in Blocks(f) /\ Spread(f.code[b], g.code[b])
    BY <1>1, <1>4
  <2>3. PICK q \in DOMAIN f.code[b] : g.code[b][p] = f.code[b][q]
    BY <2>1, <2>2, SpreadPhi
  <2>4. m \in M /\ m \in Blocks(f)
    BY <2>1, <2>2, <2>3 DEF Formed, Reloads
  <2> QED BY <1>4, <2>4
<1> QED BY <1>5, <1>6

\* The store behind the value.
LEMMA StoreGrows ==
  ASSUME NEW f, Formed(f), NEW x, NEW slot, slot # NoSlot, NEW b \in Blocks(f),
         NEW p \in DOMAIN f.code[b], f.code[b][p].name = x, NEW k,
         k = (IF IsPhi(f.code[b][p]) THEN FirstNonPhi(f.code[b]) ELSE p + 1),
         NEW g, g = [f EXCEPT !.code[b] = InsertAt(@, k, Store(x, slot))]
  PROVE  Extended(f, g)
<1> DEFINE e == Store(x, slot)
           c == f.code[b]
<1>1. "code" \in DOMAIN g /\ Blocks(g) = Blocks(f)
  BY DEF Formed, Blocks
<1>2. \A n \in Blocks(f) : g.code[n] = IF n = b THEN InsertAt(f.code[b], k, e) ELSE f.code[n]
  BY DEF Formed, Blocks
<1>3. e.slot # NoSlot /\ ~IsPhi(e) /\ Uses(e) = {x}
  <2>1. e.slot # NoSlot /\ ~IsPhi(e) /\ e.args = <<x>>
    BY DEF Store, IsPhi
  <2>2. Range(<<x>>) = {x}
    BY DEF Range
  <2> QED BY <2>1, <2>2 DEF Uses
<1> HIDE DEF e
<1>4. IsCode(c) /\ Len(c) \in Nat /\ DOMAIN c = 1 .. Len(c)
  BY DEF Formed, IsCode
<1>5. /\ FirstNonPhi(c) \in 1 .. Len(c)
      /\ \A q \in DOMAIN c : IsPhi(c[q]) <=> q < FirstNonPhi(c)
  BY <1>4, FirstNonPhiFacts
<1>6. p \in DOMAIN c /\ c[p].name = x /\ k = (IF IsPhi(c[p]) THEN FirstNonPhi(c) ELSE p + 1)
  OBVIOUS
<1> HIDE DEF c
<1>7. k \in 1 .. Len(c) + 1 /\ p \in 1 .. k - 1
  BY <1>4, <1>5, <1>6
<1>8. \A q \in DOMAIN c : IsPhi(c[q]) => q < k
  BY <1>4, <1>5, <1>6
<1>9. Near(c, k, x)
  BY <1>6, <1>7 DEF Near
<1>10. Spread(c, InsertAt(c, k, e))
  BY <1>3, <1>4, <1>7, <1>8, <1>9, InsertSpreads
<1>11. ASSUME NEW n \in Blocks(f) PROVE Spread(f.code[n], g.code[n])
  <2>1. CASE n = b
    BY <1>2, <1>10, <2>1 DEF c
  <2>2. CASE n # b
    <3>1. g.code[n] = f.code[n] /\ IsCode(f.code[n])
      BY <1>2, <2>2 DEF Formed
    <3> QED BY <3>1, SpreadItself
  <2> QED BY <2>1, <2>2
<1> QED BY <1>1, <1>11 DEF Extended

\* What DemoteRegToStack promises of the function it changes.
Demoted(f, g, x) ==
  /\ Formed(g) /\ OneEach(g)
  /\ \A y : Local(f, y) \/ y = x => Local(g, y)
  /\ \A y : Has(f, y) => Has(g, y)

LEMMA DemoteRegLocal ==
  ASSUME NEW f, Formed(f), OneEach(f), NEW x, Has(f, x)
  PROVE  Demoted(f, DemoteRegToStack(f, x), x)
<1> DEFINE slot == <<"reg", x>>
           M == {n \in Blocks(f) : HandsOn(f, n, x)}
           reloaded == [n \in Blocks(f) |->
             IF HandsOn(f, n, x) THEN BeforeBranch(Reloaded(f.code[n], x, slot), Load(x, slot))
             ELSE Reloaded(f.code[n], x, slot)]
           r == [f EXCEPT !.code = [n \in Blocks(f) |-> Reloaded(f.code[n], x, slot)]]
           h == [f EXCEPT !.code = reloaded]
           b == BlockOf(f, x)
           p == CHOOSE i \in DOMAIN h.code[b] : IsOwn(h.code[b][i], x)
           k == IF IsPhi(h.code[b][p]) THEN FirstNonPhi(h.code[b]) ELSE p + 1
           g == DemoteRegToStack(f, x)
<1>1. slot # NoSlot
  BY DEF NoSlot
<1>2. h.code = reloaded /\ "code" \in DOMAIN h
  BY DEF Formed
<1>3. g = [f EXCEPT !.code = [reloaded EXCEPT ![b] = InsertAt(@, k, Store(x, slot))]]
  BY <1>2 DEF DemoteRegToStack, IsOwn
<1>4. g = [h EXCEPT !.code[b] = InsertAt(@, k, Store(x, slot))]
  BY <1>2, <1>3 DEF Formed
<1>5. Extended(f, r) /\ Read(r, x)
  BY <1>1, ReloadsGrow
<1>6. /\ "code" \in DOMAIN r /\ Blocks(r) = Blocks(f)
      /\ \A n \in Blocks(f) : r.code[n] = Reloaded(f.code[n], x, slot)
  BY DEF Formed, Blocks
<1>7. /\ Blocks(h) = Blocks(r)
      /\ \A n \in Blocks(r) : h.code[n] =
           IF n \in M THEN BeforeBranch(r.code[n], Load(x, slot)) ELSE r.code[n]
  BY <1>2, <1>6 DEF Blocks
<1>8. Formed(r) /\ OneEach(r)
  BY <1>5, ExtendedFormed, ExtendedOneEach
<1>9. \A n \in Blocks(r) : \A i \in DOMAIN r.code[n] : IsPhi(r.code[n][i]) =>
        \A m \in DOMAIN r.code[n][i].args : r.code[n][i].args[m] = x => m \in M
  <2> SUFFICES ASSUME NEW n \in Blocks(r), NEW i \in DOMAIN r.code[n], IsPhi(r.code[n][i]),
                      NEW m \in DOMAIN r.code[n][i].args, r.code[n][i].args[m] = x
               PROVE  m \in M
    OBVIOUS
  <2> HIDE DEF r
  <2>1. n \in Blocks(f) /\ Spread(f.code[n], r.code[n])
    BY <1>5 DEF Extended
  <2>2. PICK j \in DOMAIN f.code[n] : r.code[n][i] = f.code[n][j]
    BY <2>1, SpreadPhi
  <2>3. f.code[n][j] \in Instructions(f)
    BY <2>1 DEF Instructions, Range
  <2>4. HandsOn(f, m, x)
    BY <2>2, <2>3 DEF HandsOn
  <2>5. m \in Blocks(f)
    BY <2>1, <2>2 DEF Formed
  <2> QED BY <2>4, <2>5
<1> HIDE DEF slot, M, reloaded, r, h, k
<1>10. Extended(r, h) /\ Handed(h, x)
  <2>1. Reloads(r, h, x, slot, M)
    BY <1>2, <1>7, <1>9, Zenon DEF Reloads
  <2> QED BY <1>1, <1>8, <2>1, HandingGrows
<1>11. Formed(h) /\ OneEach(h)
  BY <1>8, <1>10, ExtendedFormed, ExtendedOneEach
<1>12. b \in Blocks(f) /\ \E i \in DOMAIN f.code[b] : IsOwn(f.code[b][i], x)
  <2>1. \E n \in Blocks(f) : \E i \in Range(f.code[n]) : IsOwn(i, x)
    BY DEF Has, Range
  <2>2. b \in Blocks(f) /\ \E i \in Range(f.code[b]) : IsOwn(i, x)
    BY <2>1, Zenon DEF BlockOf
  <2> QED BY <2>2 DEF Range
<1> HIDE DEF b
<1>13. p \in DOMAIN h.code[b] /\ h.code[b][p].name = x /\ b \in Blocks(h)
  <2>1. PICK i \in DOMAIN f.code[b] : IsOwn(f.code[b][i], x)
    BY <1>12
  <2>2. b \in Blocks(r) /\ Spread(f.code[b], r.code[b])
    BY <1>5, <1>12 DEF Extended
  <2>3. PICK j \in DOMAIN r.code[b] : r.code[b][j] = f.code[b][i]
    BY <2>2, SpreadOwn
  <2>4. b \in Blocks(h) /\ Spread(r.code[b], h.code[b])
    BY <1>10, <2>2 DEF Extended
  <2>5. PICK n \in DOMAIN h.code[b] : h.code[b][n] = r.code[b][j]
    BY <2>4, SpreadOwn
  <2>6. p \in DOMAIN h.code[b] /\ IsOwn(h.code[b][p], x)
    BY <2>1, <2>3, <2>5, Zenon
  <2> QED BY <2>4, <2>6 DEF IsOwn
<1>14. k = (IF IsPhi(h.code[b][p]) THEN FirstNonPhi(h.code[b]) ELSE p + 1)
  BY DEF k
<1> HIDE DEF p, g
<1>15. Extended(h, g)
  BY <1>1, <1>4, <1>11, <1>13, <1>14, StoreGrows
<1>16. Formed(g) /\ OneEach(g)
  BY <1>11, <1>15, ExtendedFormed, ExtendedOneEach
<1>17. ASSUME NEW y, Local(f, y) \/ y = x PROVE Local(g, y)
  <2>1. Local(h, y)
    <3>1. CASE Local(f, y)
      <4>1. Local(r, y)
        BY <1>5, <3>1, ExtendedLocal
      <4> QED BY <1>8, <1>10, <4>1, ExtendedLocal
    <3>2. CASE y = x
      <4>1. Read(h, x)
        BY <1>5, <1>8, <1>10, ExtendedRead
      <4> QED BY <1>10, <3>2, <4>1 DEF Local
    <3> QED BY <1>17, <3>1, <3>2
  <2> QED BY <1>11, <1>15, <2>1, ExtendedLocal
<1>18. ASSUME NEW y, Has(f, y) PROVE Has(g, y)
  <2>1. Has(r, y)
    BY <1>5, <1>18, ExtendedHas
  <2>2. Has(h, y)
    BY <1>10, <2>1, ExtendedHas
  <2> QED BY <1>15, <2>2, ExtendedHas
<1> QED BY <1>16, <1>17, <1>18 DEF Demoted, g

-----------------------------------------------------------------------------
(***************************************************************************)
(* DemotePHIToStack.                                                       *)
(***************************************************************************)
\* Where an instruction was before the one at p was erased.
Back(p, r) == IF r < p THEN r ELSE r + 1

LEMMA ErasedCode ==
  ASSUME NEW c, IsCode(c), NEW p \in DOMAIN c, IsPhi(c[p]), NEW d, d = RemoveAt(c, p)
  PROVE  /\ IsCode(d)
         /\ \A r \in DOMAIN d : Back(p, r) \in DOMAIN c /\ Back(p, r) # p /\ d[r] = c[Back(p, r)]
         /\ \A q \in DOMAIN c : q # p => \E r \in DOMAIN d : d[r] = c[q]
<1>1. c \in Seq(Range(c)) /\ Len(c) \in Nat /\ DOMAIN c = 1 .. Len(c) /\ p \in 1 .. Len(c)
  BY DEF IsCode
<1>2. /\ d \in Seq(Range(d)) /\ Len(d) = Len(c) - 1
      /\ \A i \in 1 .. Len(c) - 1 : d[i] = IF i < p THEN c[i] ELSE c[i + 1]
  BY <1>1, Erased, Zenon
<1>3. p # Len(c) /\ p < Len(c)
  <2>1. p # Len(c)
    BY DEF IsCode
  <2> QED BY <1>1, <2>1
<1>4. DOMAIN d = 1 .. Len(c) - 1 /\ Len(d) \in Nat /\ Len(d) # 0
  BY <1>1, <1>2, <1>3
<1>5. \A r \in DOMAIN d : Back(p, r) \in DOMAIN c /\ Back(p, r) # p /\ d[r] = c[Back(p, r)]
  BY <1>1, <1>2, <1>3, <1>4 DEF Back
<1>6. ASSUME NEW q \in DOMAIN c, q # p PROVE \E r \in DOMAIN d : d[r] = c[q]
  <2>1. CASE q < p
    <3>1. q \in DOMAIN d /\ d[q] = c[q]
      BY <1>1, <1>2, <1>3, <1>4, <2>1
    <3> QED BY <3>1
  <2>2. CASE q > p
    <3>1. q - 1 \in DOMAIN d /\ d[q - 1] = c[q]
      BY <1>1, <1>2, <1>3, <1>4, <2>2
    <3> QED BY <3>1
  <2> QED BY <1>1, <1>6, <2>1, <2>2
<1>7. ~IsPhi(d[Len(d)])
  <2>1. d[Len(d)] = c[Len(c)]
    BY <1>1, <1>2, <1>3, <1>4
  <2> QED BY <2>1 DEF IsCode
<1>8. ASSUME NEW r \in DOMAIN d, IsPhi(d[r]), NEW s \in 1 .. r - 1 PROVE IsPhi(d[s])
  <2>1. s \in DOMAIN d /\ Back(p, s) \in 1 .. Back(p, r) - 1
    BY <1>1, <1>4 DEF Back
  <2> QED BY <1>5, <1>8, <2>1 DEF IsCode
<1>9. d # << >>
  BY <1>4
<1>10. IsCode(d)
  BY <1>2, <1>7, <1>8, <1>9 DEF IsCode
<1> QED BY <1>5, <1>6, <1>10

\* Everything but the erased PHI stays near.
LEMMA ErasedNear ==
  ASSUME NEW c, IsCode(c), NEW p \in DOMAIN c, IsPhi(c[p]), NEW d, d = RemoveAt(c, p),
         NEW y, y # c[p].name
  PROVE  /\ Served(c, y) => Served(d, y)
         /\ Near(c, Len(c), y) => Near(d, Len(d), y)
<1>1. c \in Seq(Range(c)) /\ Len(c) \in Nat /\ DOMAIN c = 1 .. Len(c) /\ p \in 1 .. Len(c)
  BY DEF IsCode
<1>2. /\ d \in Seq(Range(d)) /\ Len(d) = Len(c) - 1 /\ DOMAIN d = 1 .. Len(c) - 1
      /\ \A i \in 1 .. Len(c) - 1 : d[i] = IF i < p THEN c[i] ELSE c[i + 1]
  <2>1. /\ d \in Seq(Range(d)) /\ Len(d) = Len(c) - 1
        /\ \A i \in 1 .. Len(c) - 1 : d[i] = IF i < p THEN c[i] ELSE c[i + 1]
    BY <1>1, Erased, Zenon
  <2> QED BY <2>1
<1>3. p # Len(c)
  BY DEF IsCode
<1>4. ASSUME NEW q \in DOMAIN c, NEW s \in 1 .. q - 1, c[s].name = y, NEW r \in 1 .. Len(c),
             q = Back(p, r)
      PROVE  \E i \in 1 .. r - 1 : d[i].name = y
  <2>1. s # p /\ s \in 1 .. Len(c) /\ s < q
    BY <1>1, <1>4
  <2>2. CASE s < p
    <3>0. s \in 1 .. r - 1 /\ s \in 1 .. Len(c) - 1
      BY <1>1, <1>4, <2>1, <2>2 DEF Back
    <3>1. s \in 1 .. r - 1 /\ s \in 1 .. Len(c) - 1 /\ d[s] = c[s]
      BY <1>1, <1>2, <2>2, <3>0 DEF Back
    <3> QED BY <1>4, <3>1
  <2>3. CASE s > p
    <3>1. s - 1 \in 1 .. r - 1 /\ s - 1 \in 1 .. Len(c) - 1 /\ d[s - 1] = c[s]
      BY <1>1, <1>2, <1>4, <2>1, <2>3 DEF Back
    <3> QED BY <1>4, <3>1
  <2> QED BY <1>1, <2>1, <2>2, <2>3
<1>5. ASSUME Near(c, Len(c), y) PROVE Near(d, Len(d), y)
  <2>1. CASE y \in DOMAIN Given
    BY <2>1 DEF Near
  <2>2. CASE y \notin DOMAIN Given
    <3>1. PICK s \in 1 .. Len(c) - 1 : c[s].name = y
      BY <1>5, <2>2 DEF Near
    <3>2. /\ Len(c) \in DOMAIN c /\ Len(d) \in 1 .. Len(c) /\ Len(c) = Back(p, Len(d))
      <4>1. Len(c) > p /\ p > 0 /\ Len(d) = Len(c) - 1
        BY <1>1, <1>2, <1>3
      <4>2. Len(d) \in 1 .. Len(c) /\ ~(Len(d) < p) /\ Len(d) + 1 = Len(c)
        BY <1>1, <4>1
      <4>3. Len(c) \in DOMAIN c
        BY <1>1
      <4>4. Len(c) = Back(p, Len(d))
        BY ONLY <4>2 DEF Back
      <4> QED BY <4>2, <4>3, <4>4
    <3> QED BY <1>4, <3>1, <3>2 DEF Near
  <2> QED BY <2>1, <2>2
<1>6. ASSUME Served(c, y), NEW r \in DOMAIN d, ~IsPhi(d[r]), y \in Uses(d[r])
      PROVE  Near(d, r, y)
  <2>1. CASE y \in DOMAIN Given
    BY <2>1 DEF Near
  <2>2. CASE y \notin DOMAIN Given
    <3>1. Back(p, r) \in DOMAIN c /\ d[r] = c[Back(p, r)] /\ r \in 1 .. Len(c)
      BY <1>1, <1>2 DEF Back
    <3>2. Near(c, Back(p, r), y)
      BY <1>6, <3>1 DEF Served
    <3>3. PICK s \in 1 .. Back(p, r) - 1 : c[s].name = y
      BY <2>2, <3>2 DEF Near
    <3> QED BY <1>4, <3>1, <3>3 DEF Near
  <2> QED BY <2>1, <2>2
<1> QED BY <1>5, <1>6 DEF Served

\* h is f without the PHI at p of b.
WithoutPhi(f, h, b, p) ==
  /\ "code" \in DOMAIN h /\ Blocks(h) = Blocks(f)
  /\ b \in Blocks(f) /\ p \in DOMAIN f.code[b] /\ IsPhi(f.code[b][p])
  /\ h.code[b] = RemoveAt(f.code[b], p)
  /\ \A n \in Blocks(f) : n # b => h.code[n] = f.code[n]

LEMMA ErasedPlaces ==
  ASSUME NEW f, Formed(f), NEW h, NEW b, NEW p, WithoutPhi(f, h, b, p),
         NEW n \in Blocks(h)
  PROVE  /\ IsCode(h.code[n])
         /\ \A r \in DOMAIN h.code[n] :
              LET s == IF n = b THEN Back(p, r) ELSE r IN
              s \in DOMAIN f.code[n] /\ h.code[n][r] = f.code[n][s] /\ (n = b => s # p)
         /\ \A y : y # f.code[b][p].name =>
              /\ Served(f.code[n], y) => Served(h.code[n], y)
              /\ Near(f.code[n], Len(f.code[n]), y) => Near(h.code[n], Len(h.code[n]), y)
<1>1. n \in Blocks(f) /\ IsCode(f.code[n])
  BY DEF WithoutPhi, Formed
<1>2. CASE n = b
  <2>1. p \in DOMAIN f.code[n] /\ IsPhi(f.code[n][p]) /\ h.code[n] = RemoveAt(f.code[n], p)
    BY <1>2 DEF WithoutPhi
  <2>2. /\ IsCode(h.code[n])
        /\ \A r \in DOMAIN h.code[n] : /\ Back(p, r) \in DOMAIN f.code[n] /\ Back(p, r) # p
                                       /\ h.code[n][r] = f.code[n][Back(p, r)]
    BY <1>1, <2>1, ErasedCode
  <2>3. \A y : y # f.code[n][p].name =>
          /\ Served(f.code[n], y) => Served(h.code[n], y)
          /\ Near(f.code[n], Len(f.code[n]), y) => Near(h.code[n], Len(h.code[n]), y)
    BY <1>1, <2>1, ErasedNear
  <2> QED BY <1>2, <2>2, <2>3
<1>3. CASE n # b
  <2>1. h.code[n] = f.code[n]
    BY <1>1, <1>3 DEF WithoutPhi
  <2> QED BY <1>1, <1>3, <2>1
<1> QED BY <1>2, <1>3

LEMMA ErasedFormed ==
  ASSUME NEW f, Formed(f), OneEach(f), NEW h, NEW b, NEW p, WithoutPhi(f, h, b, p)
  PROVE  Formed(h) /\ OneEach(h)
<1>1. "code" \in DOMAIN h /\ Blocks(h) = Blocks(f)
  BY DEF WithoutPhi
<1>2. \A n \in Blocks(h) : IsCode(h.code[n])
  BY ErasedPlaces
<1>3. \A n \in Blocks(h) : \A r \in DOMAIN h.code[n] :
        LET s == IF n = b THEN Back(p, r) ELSE r IN
        s \in DOMAIN f.code[n] /\ h.code[n][r] = f.code[n][s]
  BY ErasedPlaces
<1>4. Formed(h)
  BY <1>1, <1>2, <1>3 DEF Formed
<1>5. ASSUME NEW m \in Blocks(h), NEW n \in Blocks(h),
             NEW q \in DOMAIN h.code[m], NEW r \in DOMAIN h.code[n]
      PROVE  /\ IsPhi(h.code[m][q]) => h.code[m][q].slot = NoSlot
             /\ /\ h.code[m][q].slot = NoSlot /\ h.code[n][r].slot = NoSlot
                /\ h.code[m][q].name = h.code[n][r].name
                => m = n /\ q = r
  <2> DEFINE s == IF m = b THEN Back(p, q) ELSE q
             t == IF n = b THEN Back(p, r) ELSE r
  <2>1. /\ s \in DOMAIN f.code[m] /\ h.code[m][q] = f.code[m][s]
        /\ t \in DOMAIN f.code[n] /\ h.code[n][r] = f.code[n][t]
    BY <1>3
  <2>2. /\ q \in Nat /\ r \in Nat
        /\ b \in Blocks(f) /\ IsCode(f.code[b]) /\ p \in DOMAIN f.code[b]
    <3>1. q \in Nat /\ r \in Nat
      BY <1>2 DEF IsCode
    <3> QED BY <3>1 DEF WithoutPhi, Formed
  <2>3. p \in Nat
    BY <2>2 DEF IsCode
  <2>4. m = n /\ s = t => q = r
    BY <2>2, <2>3 DEF Back
  <2> HIDE DEF s, t
  <2>5. m \in Blocks(f) /\ n \in Blocks(f)
    BY <1>1
  <2>6. IsPhi(f.code[m][s]) => f.code[m][s].slot = NoSlot
    BY <2>1, <2>5 DEF OneEach
  <2>7. /\ f.code[m][s].slot = NoSlot /\ f.code[n][t].slot = NoSlot
        /\ f.code[m][s].name = f.code[n][t].name
        => m = n /\ s = t
    BY <2>1, <2>5 DEF OneEach
  <2> QED BY <2>1, <2>4, <2>6, <2>7
<1> QED BY <1>4, <1>5 DEF OneEach

LEMMA ErasedLocal ==
  ASSUME NEW f, Formed(f), NEW h, NEW b, NEW p, WithoutPhi(f, h, b, p),
         NEW y, y # f.code[b][p].name, Local(f, y)
  PROVE  Local(h, y)
<1>1. Blocks(h) = Blocks(f)
  BY DEF WithoutPhi
<1>2. \A n \in Blocks(h) :
        /\ Served(f.code[n], y) => Served(h.code[n], y)
        /\ Near(f.code[n], Len(f.code[n]), y) => Near(h.code[n], Len(h.code[n]), y)
  BY ErasedPlaces
<1>3. Read(h, y)
  BY <1>1, <1>2 DEF Read, Local
<1>4. \A n \in Blocks(h) : \A r \in DOMAIN h.code[n] :
        \E s \in DOMAIN f.code[n] : h.code[n][r] = f.code[n][s]
  <2> TAKE n \in Blocks(h)
  <2> TAKE r \in DOMAIN h.code[n]
  <2> DEFINE s == IF n = b THEN Back(p, r) ELSE r
  <2>1. s \in DOMAIN f.code[n] /\ h.code[n][r] = f.code[n][s]
    BY ErasedPlaces
  <2> HIDE DEF s
  <2> QED BY <2>1
<1>5. Handed(h, y)
  <2>1. SUFFICES ASSUME NEW n \in Blocks(h), NEW r \in DOMAIN h.code[n], IsPhi(h.code[n][r]),
                        NEW m \in DOMAIN h.code[n][r].args, h.code[n][r].args[m] = y
                 PROVE  Near(h.code[m], Len(h.code[m]), y)
    BY DEF Handed
  <2>2. PICK s \in DOMAIN f.code[n] : h.code[n][r] = f.code[n][s]
    BY <1>4
  <2>3. m \in Blocks(f) /\ Near(f.code[m], Len(f.code[m]), y)
    BY <1>1, <2>1, <2>2 DEF Formed, Handed, Local
  <2> QED BY <1>1, <1>2, <2>3
<1> QED BY <1>3, <1>5 DEF Local

\* The other PHIs are left, and this one is gone.
LEMMA ErasedPhis ==
  ASSUME NEW f, Formed(f), OneEach(f), NEW h, NEW b, NEW p, WithoutPhi(f, h, b, p), NEW y
  PROVE  HasPhi(h, y) <=> HasPhi(f, y) /\ y # f.code[b][p].name
<1>1. Blocks(h) = Blocks(f) /\ b \in Blocks(f) /\ p \in DOMAIN f.code[b] /\ IsPhi(f.code[b][p])
  BY DEF WithoutPhi
<1>2. ASSUME HasPhi(h, y) PROVE HasPhi(f, y) /\ y # f.code[b][p].name
  <2>1. PICK n \in Blocks(h) :
          \E r \in DOMAIN h.code[n] : IsPhi(h.code[n][r]) /\ h.code[n][r].name = y
    BY <1>2 DEF HasPhi
  <2>2. PICK r \in DOMAIN h.code[n] : IsPhi(h.code[n][r]) /\ h.code[n][r].name = y
    BY <2>1
  <2> DEFINE s == IF n = b THEN Back(p, r) ELSE r
  <2>3. s \in DOMAIN f.code[n] /\ h.code[n][r] = f.code[n][s] /\ (n = b => s # p)
    BY ErasedPlaces
  <2> HIDE DEF s
  <2>4. ~(n = b /\ s = p) /\ IsPhi(f.code[n][s]) /\ f.code[n][s].name = y /\ n \in Blocks(f)
    BY <1>1, <2>2, <2>3
  <2>5. f.code[n][s].slot = NoSlot /\ f.code[b][p].slot = NoSlot
    BY <1>1, <2>3, <2>4 DEF OneEach
  <2>6. y # f.code[b][p].name
    BY <1>1, <2>3, <2>4, <2>5 DEF OneEach
  <2> QED BY <2>3, <2>4, <2>6 DEF HasPhi
<1>3. ASSUME HasPhi(f, y), y # f.code[b][p].name PROVE HasPhi(h, y)
  <2>1. PICK n \in Blocks(f) :
          \E s \in DOMAIN f.code[n] : IsPhi(f.code[n][s]) /\ f.code[n][s].name = y
    BY <1>3 DEF HasPhi
  <2>2. PICK s \in DOMAIN f.code[n] : IsPhi(f.code[n][s]) /\ f.code[n][s].name = y
    BY <2>1
  <2>3. \E r \in DOMAIN h.code[n] : h.code[n][r] = f.code[n][s]
    <3>1. CASE n = b
      <4>1. s # p /\ IsCode(f.code[b]) /\ h.code[b] = RemoveAt(f.code[b], p)
        BY <1>3, <2>2, <3>1 DEF Formed, WithoutPhi
      <4> QED BY <1>1, <2>2, <3>1, <4>1, ErasedCode
    <3>2. CASE n # b
      BY <2>2, <3>2 DEF WithoutPhi
    <3> QED BY <3>1, <3>2
  <2> QED BY <1>1, <2>2, <2>3 DEF HasPhi
<1> QED BY <1>2, <1>3

AllLocal(f) == \A y : Local(f, y)

\* The stores of what the PHI takes, at the end of the blocks it comes from.
LEMMA StoresGrow ==
  ASSUME NEW f, Formed(f), AllLocal(f), NEW slot, slot # NoSlot,
         NEW b \in Blocks(f), NEW p \in DOMAIN f.code[b], IsPhi(f.code[b][p])
  PROVE  /\ Extended(f, StoreIncoming(f, f.code[b][p], slot))
         /\ p \in DOMAIN StoreIncoming(f, f.code[b][p], slot).code[b]
         /\ StoreIncoming(f, f.code[b][p], slot).code[b][p] = f.code[b][p]
<1> DEFINE g == StoreIncoming(f, f.code[b][p], slot)
           phi == f.code[b][p]
           e(n) == Store(phi.args[n], slot)
<1>1. /\ "code" \in DOMAIN g /\ Blocks(g) = Blocks(f)
      /\ \A n \in Blocks(f) : g.code[n] =
           IF n \in DOMAIN phi.args THEN BeforeBranch(f.code[n], e(n)) ELSE f.code[n]
  BY DEF StoreIncoming, Formed, Blocks
<1> HIDE DEF g
<1>2. ASSUME NEW n \in Blocks(f)
      PROVE  /\ Spread(f.code[n], g.code[n])
             /\ \A q \in 1 .. Len(f.code[n]) - 1 : g.code[n][q] = f.code[n][q]
  <2>1. IsCode(f.code[n])
    BY DEF Formed
  <2>2. CASE n \in DOMAIN phi.args
    <3> DEFINE s == e(n)
    <3>1. s.slot # NoSlot /\ ~IsPhi(s) /\ s.args = <<phi.args[n]>>
      BY DEF Store, IsPhi
    <3>2. Uses(s) = {phi.args[n]}
      <4>1. Range(<<phi.args[n]>>) = {phi.args[n]}
        BY DEF Range
      <4> HIDE DEF s
      <4> QED BY <3>1, <4>1 DEF Uses
    <3>3. Near(f.code[n], Len(f.code[n]), phi.args[n])
      BY <2>2 DEF AllLocal, Local, Handed
    <3>4. g.code[n] = BeforeBranch(f.code[n], s)
      BY <1>1, <2>2
    <3> HIDE DEF s
    <3>5. \A y \in Uses(s) : Near(f.code[n], Len(f.code[n]), y)
      BY <3>2, <3>3
    <3>6. /\ Spread(f.code[n], BeforeBranch(f.code[n], s))
          /\ \A q \in 1 .. Len(f.code[n]) - 1 : BeforeBranch(f.code[n], s)[q] = f.code[n][q]
      BY <2>1, <3>1, <3>5, BeforeBranchSpreads
    <3> QED BY <3>4, <3>6
  <2>3. CASE n \notin DOMAIN phi.args
    <3>1. g.code[n] = f.code[n]
      BY <1>1, <2>3
    <3> QED BY <2>1, <3>1, SpreadItself
  <2> QED BY <2>2, <2>3
<1>3. Extended(f, g)
  BY <1>1, <1>2 DEF Extended
<1>4. /\ IsCode(f.code[b]) /\ p \in 1 .. Len(f.code[b]) - 1
  <2>1. IsCode(f.code[b])
    BY DEF Formed
  <2>2. p # Len(f.code[b])
    BY <2>1 DEF IsCode
  <2> QED BY <2>1, <2>2 DEF IsCode
<1>5. g.code[b][p] = f.code[b][p]
  BY <1>2, <1>4
<1>6. p \in DOMAIN g.code[b]
  <2>1. PICK pos : SpreadBy(f.code[b], g.code[b], pos)
    BY <1>2 DEF Spread
  <2>2. Len(f.code[b]) <= Len(g.code[b])
    <3>1. CASE b \in DOMAIN phi.args
      <4>1. g.code[b] = InsertAt(f.code[b], Len(f.code[b]), e(b))
        BY <1>1, <3>1 DEF BeforeBranch
      <4>2. Len(f.code[b]) \in 1 .. Len(f.code[b]) + 1 /\ Len(f.code[b]) \in Nat
        BY <1>4 DEF IsCode
      <4>3. f.code[b] \in Seq(Range(f.code[b]))
        BY <1>4 DEF IsCode
      <4>4. Len(g.code[b]) = Len(f.code[b]) + 1
        BY <4>1, <4>2, <4>3, Inserted
      <4> QED BY <4>2, <4>4
    <3>2. CASE b \notin DOMAIN phi.args
      <4>1. g.code[b] = f.code[b] /\ Len(f.code[b]) \in Nat
        BY <1>1, <1>4, <3>2 DEF IsCode
      <4> QED BY <4>1
    <3> QED BY <3>1, <3>2
  <2>3. DOMAIN g.code[b] = 1 .. Len(g.code[b]) /\ Len(g.code[b]) \in Nat /\ Len(f.code[b]) \in Nat
    BY <1>4, <2>1 DEF SpreadBy, IsCode
  <2> QED BY <1>4, <2>2, <2>3
<1> QED BY <1>3, <1>5, <1>6 DEF g

\* The reload in the PHI's place: what was its value is near again.
LEMMA ReloadForPhi ==
  ASSUME NEW f, Formed(f), OneEach(f), \A y : Local(f, y),
         NEW h, NEW b, NEW p, WithoutPhi(f, h, b, p), NEW slot, slot # NoSlot,
         NEW x, x = f.code[b][p].name, NEW g,
         g = [h EXCEPT !.code[b] = InsertAt(@, FirstNonPhi(@), Load(x, slot))]
  PROVE  Extended(h, g) /\ \A y : Local(g, y)
<1> DEFINE l == Load(x, slot)
           c == h.code[b]
           d == g.code[b]
           k == FirstNonPhi(c)
<1>1. /\ "code" \in DOMAIN h /\ Blocks(h) = Blocks(f) /\ b \in Blocks(f)
      /\ Formed(h) /\ OneEach(h)
  BY ErasedFormed DEF WithoutPhi
<1>2. /\ "code" \in DOMAIN g /\ Blocks(g) = Blocks(h)
      /\ d = InsertAt(c, k, l)
      /\ \A n \in Blocks(h) : n # b => g.code[n] = h.code[n]
  BY <1>1 DEF Blocks
<1>3. l.name = x /\ l.slot # NoSlot /\ ~IsPhi(l) /\ Uses(l) = {}
  BY DEF Load, IsPhi, Uses, Range
<1>4. IsCode(c)
  BY <1>1 DEF Formed
<1>5. k \in 1 .. Len(c) /\ \A q \in DOMAIN c : IsPhi(c[q]) <=> q < k
  BY <1>4, FirstNonPhiFacts
<1> HIDE DEF l, c, d, k
<1>6. c \in Seq(Range(c)) /\ Len(c) \in Nat /\ DOMAIN c = 1 .. Len(c) /\ k \in 1 .. Len(c) + 1
  BY <1>4, <1>5 DEF IsCode
<1>7. Spread(c, d)
  <2>1. Spread(c, InsertAt(c, k, l))
    BY <1>3, <1>4, <1>5, <1>6, InsertSpreads
  <2> QED BY <1>2, <2>1
<1>8. Extended(h, g)
  <2>1. ASSUME NEW n \in Blocks(h) PROVE Spread(h.code[n], g.code[n])
    <3>1. CASE n = b
      BY <1>7, <3>1 DEF c, d
    <3>2. CASE n # b
      <4>1. g.code[n] = h.code[n] /\ IsCode(h.code[n])
        BY <1>1, <1>2, <3>2 DEF Formed
      <4> QED BY <4>1, SpreadItself
    <3> QED BY <3>1, <3>2
  <2> QED BY <1>2, <2>1 DEF Extended
<1>9. /\ Len(d) = Len(c) + 1
      /\ \A i \in 1 .. Len(c) + 1 : d[i] = IF i < k THEN c[i] ELSE IF i = k THEN l ELSE c[i - 1]
  <2>1. /\ Len(InsertAt(c, k, l)) = Len(c) + 1
        /\ \A i \in 1 .. Len(c) + 1 :
             InsertAt(c, k, l)[i] = IF i < k THEN c[i] ELSE IF i = k THEN l ELSE c[i - 1]
    BY ONLY <1>6, Inserted
  <2> QED BY <1>2, <2>1
<1>10. DOMAIN d = 1 .. Len(c) + 1
  <2>1. d \in Seq(Range(d))
    BY <1>7 DEF Spread, SpreadBy
  <2> QED BY <1>6, <1>9, <2>1
<1>11. ASSUME NEW r \in DOMAIN d, r > k PROVE Near(d, r, x)
  <2>1. k \in 1 .. r - 1 /\ d[k] = l
    BY <1>6, <1>9, <1>10, <1>11
  <2> QED BY <1>3, <2>1 DEF Near
<1>12. Served(d, x)
  <2>1. SUFFICES ASSUME NEW r \in DOMAIN d, ~IsPhi(d[r]), x \in Uses(d[r]) PROVE Near(d, r, x)
    BY DEF Served
  <2>2. r # k
    BY <1>3, <1>6, <1>9, <2>1
  <2>3. ~(r < k)
    <3>1. r < k => r \in DOMAIN c /\ d[r] = c[r] /\ IsPhi(c[r])
      BY <1>5, <1>6, <1>9, <1>10
    <3> QED BY <2>1, <3>1
  <2> QED BY <1>6, <1>10, <1>11, <2>2, <2>3
<1>13. Near(d, Len(d), x)
  <2>1. Len(d) \in DOMAIN d /\ Len(d) > k
    BY <1>5, <1>6, <1>9, <1>10
  <2> QED BY <1>11, <2>1
<1>14. Read(g, x)
  <2>1. SUFFICES ASSUME NEW n \in Blocks(g) PROVE Served(g.code[n], x)
    BY DEF Read
  <2>2. CASE n = b
    BY <1>12, <2>2 DEF d
  <2>3. CASE n # b
    <3>1. g.code[n] = f.code[n] /\ n \in Blocks(f)
      BY <1>1, <1>2, <2>3 DEF WithoutPhi
    <3> QED BY <3>1 DEF Local, Read
  <2> QED BY <2>2, <2>3
<1>15. Handed(g, x)
  <2>1. SUFFICES ASSUME NEW n \in Blocks(g), NEW r \in DOMAIN g.code[n], IsPhi(g.code[n][r]),
                        NEW m \in DOMAIN g.code[n][r].args, g.code[n][r].args[m] = x
                 PROVE  Near(g.code[m], Len(g.code[m]), x)
    BY DEF Handed
  <2>2. n \in Blocks(h) /\ Spread(h.code[n], g.code[n])
    BY <1>8 DEF Extended
  <2>3. PICK s \in DOMAIN h.code[n] : g.code[n][r] = h.code[n][s]
    <3>1. r \in DOMAIN g.code[n] /\ IsPhi(g.code[n][r])
      BY <2>1
    <3> QED BY ONLY <2>2, <3>1, SpreadPhi
  <2> DEFINE t == IF n = b THEN Back(p, s) ELSE s
  <2>4. t \in DOMAIN f.code[n] /\ h.code[n][s] = f.code[n][t]
    BY <2>2, ErasedPlaces
  <2> HIDE DEF t
  <2>5. m \in Blocks(f) /\ Near(f.code[m], Len(f.code[m]), x)
    BY <1>1, <2>1, <2>2, <2>3, <2>4 DEF Formed, Local, Handed
  <2>6. CASE m = b
    BY <1>13, <2>6 DEF d
  <2>7. CASE m # b
    <3>1. g.code[m] = f.code[m]
      BY <1>1, <1>2, <2>5, <2>7 DEF WithoutPhi
    <3> QED BY <2>5, <3>1
  <2> QED BY <2>6, <2>7
<1>16. ASSUME NEW y, y # x PROVE Local(g, y)
  <2>1. Local(h, y)
    BY <1>16, ErasedLocal
  <2> QED BY <1>1, <1>8, <2>1, ExtendedLocal
<1> QED BY <1>8, <1>14, <1>15, <1>16 DEF Local

\* What DemotePHIToStack promises of the function it changes.
Broken(f, g, x) ==
  /\ Formed(g) /\ OneEach(g)
  /\ \A y : Local(g, y)
  /\ \A y : HasPhi(g, y) <=> HasPhi(f, y) /\ y # x

LEMMA DemotePhiLocal ==
  ASSUME NEW f, Formed(f), OneEach(f), \A y : Local(f, y), NEW x, HasPhi(f, x)
  PROVE  Broken(f, DemotePHIToStack(f, x), x)
<1> DEFINE slot == <<"phi", x>>
           b    == BlockOf(f, x)
           p    == CHOOSE i \in DOMAIN f.code[b] : IsPhi(f.code[b][i]) /\ f.code[b][i].name = x
           s    == StoreIncoming(f, f.code[b][p], slot)
           rest == RemoveAt(s.code[b], p)
           h    == [s EXCEPT !.code[b] = rest]
           e    == [f EXCEPT !.code[b] = RemoveAt(@, p)]
           g    == DemotePHIToStack(f, x)
<1>1. slot # NoSlot
  BY DEF NoSlot
<1>2. \/ (\A i \in Instructions(f) : x \notin Uses(i)) /\ g = e
      \/ g = [s EXCEPT !.code[b] = InsertAt(rest, FirstNonPhi(rest), Load(x, slot))]
  BY Zenon DEF DemotePHIToStack
<1>3. PICK n \in Blocks(f) :
        \E q \in DOMAIN f.code[n] : IsPhi(f.code[n][q]) /\ f.code[n][q].name = x
  BY DEF HasPhi
<1>4. PICK q \in DOMAIN f.code[n] : IsPhi(f.code[n][q]) /\ f.code[n][q].name = x
  BY <1>3
<1>5. f.code[n][q].slot = NoSlot
  BY <1>4 DEF OneEach
<1>6. b = n
  <2>1. \E m \in Blocks(f) : \E i \in Range(f.code[m]) : IsOwn(i, x)
    BY <1>4, <1>5 DEF IsOwn, Range
  <2>2. b \in Blocks(f) /\ \E i \in Range(f.code[b]) : IsOwn(i, x)
    BY <2>1, Zenon DEF BlockOf
  <2> HIDE DEF b
  <2>3. PICK j \in DOMAIN f.code[b] : IsOwn(f.code[b][j], x)
    BY <2>2 DEF Range
  <2> QED BY <1>4, <1>5, <2>2, <2>3 DEF OneEach, IsOwn
<1> HIDE DEF b
<1>7. b \in Blocks(f) /\ p \in DOMAIN f.code[b] /\ IsPhi(f.code[b][p]) /\ f.code[b][p].name = x
  BY <1>4, <1>6, Zenon
<1> HIDE DEF slot, p, g
<1>8. CASE (\A i \in Instructions(f) : x \notin Uses(i)) /\ g = e
  <2>1. WithoutPhi(f, e, b, p)
    BY <1>7 DEF WithoutPhi, Formed, Blocks
  <2> HIDE DEF e
  <2>2. Formed(e) /\ OneEach(e)
    BY <2>1, ErasedFormed
  <2>3. \A y : HasPhi(e, y) <=> HasPhi(f, y) /\ y # x
    BY <1>7, <2>1, ErasedPhis
  <2>4. ASSUME NEW y, y # x PROVE Local(e, y)
    BY <1>7, <2>1, <2>4, ErasedLocal
  <2>5. ASSUME NEW m \in Blocks(e), NEW r \in DOMAIN e.code[m] PROVE x \notin Uses(e.code[m][r])
    <3> DEFINE t == IF m = b THEN Back(p, r) ELSE r
    <3>1. t \in DOMAIN f.code[m] /\ e.code[m][r] = f.code[m][t]
      BY <2>1, ErasedPlaces
    <3> HIDE DEF t
    <3>2. m \in Blocks(f)
      BY <2>1 DEF WithoutPhi
    <3> QED BY <1>8, <3>1, <3>2 DEF Instructions, Range
  <2>6. Local(e, x)
    <3>1. Read(e, x)
      BY <2>5 DEF Read, Served
    <3>2. Handed(e, x)
      BY <2>5 DEF Handed, Uses, Range
    <3> QED BY <3>1, <3>2 DEF Local
  <2> QED BY <1>8, <2>2, <2>3, <2>4, <2>6 DEF Broken, g
<1>9. CASE g = [s EXCEPT !.code[b] = InsertAt(rest, FirstNonPhi(rest), Load(x, slot))]
  <2>1. Extended(f, s) /\ p \in DOMAIN s.code[b] /\ s.code[b][p] = f.code[b][p]
    <3>1. Formed(f) /\ AllLocal(f)
      BY DEF AllLocal
    <3> QED BY ONLY <1>1, <1>7, <3>1, StoresGrow
  <2> HIDE DEF s
  <2>2. Formed(s) /\ OneEach(s) /\ \A y : Local(s, y)
    BY <2>1, ExtendedFormed, ExtendedOneEach, ExtendedLocal
  <2>3. WithoutPhi(s, h, b, p)
    BY <1>7, <2>1, <2>2 DEF WithoutPhi, Formed, Blocks, Extended
  <2>4. g = [h EXCEPT !.code[b] = InsertAt(@, FirstNonPhi(@), Load(x, slot))]
    BY <1>7, <1>9, <2>1, <2>2 DEF Formed, Extended, Blocks
  <2> HIDE DEF h, rest
  <2>5. Extended(h, g) /\ \A y : Local(g, y)
    BY <1>1, <1>7, <2>1, <2>2, <2>3, <2>4, ReloadForPhi
  <2>6. Formed(h) /\ OneEach(h)
    BY <2>2, <2>3, ErasedFormed
  <2>7. Formed(g) /\ OneEach(g)
    BY <2>5, <2>6, ExtendedFormed, ExtendedOneEach
  <2>8. ASSUME NEW y PROVE HasPhi(g, y) <=> HasPhi(f, y) /\ y # x
    <3>1. HasPhi(g, y) <=> HasPhi(h, y)
      BY <2>5, ExtendedHasPhi
    <3>2. HasPhi(h, y) <=> HasPhi(s, y) /\ y # x
      BY <1>7, <2>1, <2>2, <2>3, ErasedPhis
    <3>3. HasPhi(s, y) <=> HasPhi(f, y)
      BY <2>1, ExtendedHasPhi
    <3> QED BY <3>1, <3>2, <3>3
  <2> QED BY <2>5, <2>7, <2>8 DEF Broken, g
<1> QED BY <1>2, <1>8, <1>9

-----------------------------------------------------------------------------
(***************************************************************************)
(* The pass.  What is still to be demoted is in the function; the uses of  *)
(* all else are local.  Then the PHIs go, which are all in the list.       *)
(***************************************************************************)
SpillInv ==
  pass = "context_spill" =>
    /\ stage \in {"escaped", "values", "phis", "done", "run"}
    /\ stage = "escaped" => fn \in Functions
    /\ stage # "escaped" => Formed(fn) /\ OneEach(fn)
    /\ stage = "values" => \A y : IF y \in todo THEN Has(fn, y) ELSE Local(fn, y)
    /\ stage \in {"phis", "done", "run"} => AllLocal(fn)
    /\ stage = "phis" => \A y : HasPhi(fn, y) <=> y \in todo
    /\ stage \in {"done", "run"} => \A y : ~HasPhi(fn, y)

\* What FunctionsAssumption says of an instruction.
LEMMA KernelCode ==
  ASSUME NEW f \in Functions, NEW b \in Blocks(f)
  PROVE  /\ f.code[b] \in Seq(Range(f.code[b])) /\ f.code[b] # << >> /\ ~IsPhi(Last(f.code[b]))
         /\ \A p \in DOMAIN f.code[b] :
              Named(f, b, p) /\ PhiFormed(f, b, p) /\ UsesComputed(f, b, p)
BY FunctionsAssumption

LEMMA KernelNames ==
  ASSUME NEW f \in Functions
  PROVE  \A b \in Blocks(f) : \A p \in DOMAIN f.code[b] :
           /\ f.code[b][p].name # ""
           /\ f.code[b][p].slot = NoSlot
           /\ \A c \in Blocks(f) : \A q \in DOMAIN f.code[c] :
                f.code[c][q].name = f.code[b][p].name => c = b /\ q = p
<1> SUFFICES ASSUME NEW b \in Blocks(f), NEW p \in DOMAIN f.code[b]
    PROVE  /\ f.code[b][p].name # ""
           /\ f.code[b][p].slot = NoSlot
           /\ \A c \in Blocks(f) : \A q \in DOMAIN f.code[c] :
                f.code[c][q].name = f.code[b][p].name => c = b /\ q = p
  OBVIOUS
<1>1. Named(f, b, p)
  BY KernelCode
<1> QED BY <1>1 DEF Named

LEMMA KernelFormed ==
  ASSUME NEW f \in Functions
  PROVE  Formed(f) /\ OneEach(f)
<1>1. "code" \in DOMAIN f
  <2>1. DOMAIN f = {"layout", "code", "succ"}
    BY FunctionsAssumption
  <2> QED BY <2>1
<1>2. ASSUME NEW b \in Blocks(f)
      PROVE  /\ IsCode(f.code[b])
             /\ \A p \in DOMAIN f.code[b] :
                  IsPhi(f.code[b][p]) => DOMAIN f.code[b][p].args \subseteq Blocks(f)
  <2>1. f.code[b] \in Seq(Range(f.code[b])) /\ f.code[b] # << >> /\ ~IsPhi(Last(f.code[b]))
    BY KernelCode
  <2>2. \A p \in DOMAIN f.code[b] : IsPhi(f.code[b][p]) =>
          /\ \A q \in 1 .. p - 1 : IsPhi(f.code[b][q])
          /\ DOMAIN f.code[b][p].args = Pred(f)[b]
    <3> SUFFICES ASSUME NEW p \in DOMAIN f.code[b], IsPhi(f.code[b][p])
        PROVE  /\ \A q \in 1 .. p - 1 : IsPhi(f.code[b][q])
               /\ DOMAIN f.code[b][p].args = Pred(f)[b]
      OBVIOUS
    <3>1. PhiFormed(f, b, p)
      BY KernelCode
    <3> QED BY <3>1 DEF PhiFormed
  <2>3. IsCode(f.code[b])
    BY <2>1, <2>2 DEF IsCode, Last
  <2>4. Pred(f)[b] \subseteq Blocks(f)
    BY DEF Pred
  <2> QED BY <2>2, <2>3, <2>4
<1>3. ASSUME NEW b \in Blocks(f), NEW p \in DOMAIN f.code[b]
      PROVE  /\ f.code[b][p].slot = NoSlot
             /\ \A c \in Blocks(f) : \A q \in DOMAIN f.code[c] :
                  f.code[c][q].name = f.code[b][p].name => c = b /\ q = p
  BY KernelNames
<1>4. OneEach(f)
  BY <1>3 DEF OneEach
<1> QED BY <1>1, <1>2, <1>4 DEF Formed

\* isValueEscaped finds all that is not local.
LEMMA EscapedOrLocal ==
  ASSUME NEW f \in Functions, NEW y
  PROVE  IF y \in {x \in Names(f) : isValueEscaped(f, x)} THEN Has(f, y) ELSE Local(f, y)
<1>1. \A b \in Blocks(f) : \A p \in DOMAIN f.code[b] :
        /\ f.code[b][p].name # ""
        /\ f.code[b][p].slot = NoSlot
  BY KernelNames
<1>2. \A b, c \in Blocks(f) : \A p \in DOMAIN f.code[b], q \in DOMAIN f.code[c] :
        f.code[c][q].name = f.code[b][p].name => c = b
  BY KernelNames
<1>3. ASSUME y \in Names(f) PROVE Has(f, y)
  <2>1. PICK i \in Instructions(f) : i.name = y
    BY <1>3 DEF Names
  <2>2. PICK b \in Blocks(f) : i \in Range(f.code[b])
    BY DEF Instructions
  <2>3. PICK p \in DOMAIN f.code[b] : f.code[b][p] = i
    BY <2>2 DEF Range
  <2>4. IsOwn(f.code[b][p], y)
    BY <1>1, <2>1, <2>3 DEF IsOwn
  <2> QED BY <2>4 DEF Has
<1>4. ASSUME Has(f, y) PROVE y \in Names(f)
  <2>1. PICK b \in Blocks(f) : \E p \in DOMAIN f.code[b] : IsOwn(f.code[b][p], y)
    BY <1>4 DEF Has
  <2>2. PICK p \in DOMAIN f.code[b] : IsOwn(f.code[b][p], y)
    BY <2>1
  <2>3. f.code[b][p] \in Range(f.code[b])
    BY DEF Range
  <2>4. f.code[b][p] \in Instructions(f)
    BY <2>3 DEF Instructions
  <2>5. f.code[b][p].name = y /\ y # ""
    BY <1>1, <2>2 DEF IsOwn
  <2> QED BY <2>4, <2>5 DEF Names
<1>5. ASSUME ~(y \in Names(f) /\ isValueEscaped(f, y)) PROVE Local(f, y)
  <2>1. ASSUME NEW b \in Blocks(f), NEW p \in DOMAIN f.code[b], IsPhi(f.code[b][p]),
               NEW m \in DOMAIN f.code[b][p].args, f.code[b][p].args[m] = y
        PROVE  y \in DOMAIN Given
    <3>1. y \in Uses(f.code[b][p])
      BY <2>1 DEF Uses, Range
    <3>2. isValueEscaped(f, y)
      BY <2>1, <3>1 DEF isValueEscaped, Range
    <3>3. y \in DOMAIN Given \/ Computed(f, y)
      <4>1. PhiFormed(f, b, p)
        BY KernelCode
      <4> QED BY <2>1, <3>1, <4>1 DEF PhiFormed
    <3>4. ASSUME Computed(f, y) PROVE Has(f, y)
      <4>1. PICK i \in Instructions(f) : i.name = y
        BY <3>4 DEF Computed
      <4>2. PICK c \in Blocks(f) : i \in Range(f.code[c])
        BY DEF Instructions
      <4>3. PICK q \in DOMAIN f.code[c] : f.code[c][q] = i
        BY <4>2 DEF Range
      <4>4. IsOwn(f.code[c][q], y)
        BY <1>1, <4>1, <4>3 DEF IsOwn
      <4> QED BY <4>4 DEF Has
    <3> QED BY <1>4, <1>5, <3>2, <3>3, <3>4
  <2>2. ASSUME NEW b \in Blocks(f), NEW p \in DOMAIN f.code[b], ~IsPhi(f.code[b][p]),
               y \in Uses(f.code[b][p])
        PROVE  Near(f.code[b], p, y)
    <3>1. \/ y \in DOMAIN Given
          \/ \E q \in 1 .. p - 1 : f.code[b][q].name = y
          \/ \E c \in Blocks(f) \ {b} : \E q \in DOMAIN f.code[c] : f.code[c][q].name = y
      <4>1. UsesComputed(f, b, p)
        BY KernelCode
      <4> QED BY <2>2, <4>1 DEF UsesComputed
    <3>2. ASSUME NEW c \in Blocks(f) \ {b}, NEW q \in DOMAIN f.code[c], f.code[c][q].name = y
          PROVE  FALSE
      <4>1. Has(f, y)
        BY <1>1, <3>2 DEF Has, IsOwn
      <4>2. BlockOf(f, y) \in Blocks(f) /\ \E i \in Range(f.code[BlockOf(f, y)]) : IsOwn(i, y)
        <5>1. \E n \in Blocks(f) : \E i \in Range(f.code[n]) : IsOwn(i, y)
          BY <4>1 DEF Has, Range
        <5> QED BY <5>1, Zenon DEF BlockOf
      <4>3. BlockOf(f, y) = c
        <5>1. \E r \in DOMAIN f.code[BlockOf(f, y)] : f.code[BlockOf(f, y)][r].name = y
          BY <4>2 DEF Range, IsOwn
        <5> QED BY <1>2, <3>2, <4>2, <5>1
      <4>4. isValueEscaped(f, y)
        BY <2>2, <3>2, <4>3 DEF isValueEscaped, Range
      <4> QED BY <1>4, <1>5, <4>1, <4>4
    <3> QED BY <3>1, <3>2 DEF Near
  <2> QED BY <2>1, <2>2 DEF Local, Read, Handed, Served, Near
<1> QED BY <1>3, <1>5

LEMMA SpillInit == Init => SpillInv
BY DEF Init, SpillInv

LEMMA SpillNext == SpillInv /\ [Next]_vars => SpillInv'
<1> SUFFICES ASSUME SpillInv, [Next]_vars, pass' = "context_spill" PROVE SpillInv'
  BY DEF SpillInv
<1>1. ASSUME UNCHANGED passVars PROVE SpillInv'
  BY <1>1 DEF SpillInv, passVars
<1>2. ASSUME pass = "context_spill"
      PROVE  /\ ~CollectUnbreakablePHIs /\ ~SinkController /\ ~MoveInst
             /\ ~FindBreakable /\ ~BreakPhi2Alloca /\ ~PhisBroken
  BY <1>2 DEF SpillInv, CollectUnbreakablePHIs, SinkController, MoveInst,
              FindBreakable, BreakPhi2Alloca, PhisBroken
<1>3. CASE FindEscaped
  <2>1. /\ pass = "context_spill" /\ stage = "escaped" /\ fn \in Functions
        /\ fn' = fn /\ stage' = "values"
        /\ todo' = {x \in Names(fn) : isValueEscaped(fn, x)}
    BY <1>3 DEF FindEscaped, SpillInv
  <2>2. Formed(fn) /\ OneEach(fn)
    BY <2>1, KernelFormed
  <2>3. \A y : IF y \in todo' THEN Has(fn, y) ELSE Local(fn, y)
    BY <2>1, EscapedOrLocal
  <2> QED BY <2>1, <2>2, <2>3 DEF SpillInv
<1>4. CASE SpillValue
  <2>1. /\ pass = "context_spill" /\ stage = "values" /\ stage' = "values"
        /\ Formed(fn) /\ OneEach(fn)
        /\ \A y : IF y \in todo THEN Has(fn, y) ELSE Local(fn, y)
    BY <1>4 DEF SpillValue, SpillInv
  <2>2. PICK x \in todo : fn' = DemoteRegToStack(fn, x) /\ todo' = todo \ {x}
    BY <1>4 DEF SpillValue, Foremost
  <2>3. Demoted(fn, fn', x)
    BY <2>1, <2>2, DemoteRegLocal
  <2>4. Formed(fn') /\ OneEach(fn')
    BY <2>3 DEF Demoted
  <2>5. \A y : IF y \in todo' THEN Has(fn', y) ELSE Local(fn', y)
    BY <2>1, <2>2, <2>3 DEF Demoted
  <2> QED BY <2>1, <2>4, <2>5 DEF SpillInv
<1>5. CASE FindPhis
  <2>1. /\ pass = "context_spill" /\ stage = "values" /\ stage' = "phis" /\ fn' = fn
        /\ Formed(fn) /\ OneEach(fn) /\ todo = {}
        /\ \A y : IF y \in todo THEN Has(fn, y) ELSE Local(fn, y)
        /\ todo' = {i.name : i \in {j \in Instructions(fn) : IsPhi(j)}}
    BY <1>5 DEF FindPhis, SpillInv
  <2>2. AllLocal(fn)
    BY <2>1 DEF AllLocal
  <2>3. \A y : HasPhi(fn, y) <=> y \in todo'
    BY <2>1 DEF HasPhi, Instructions, Range
  <2> QED BY <2>1, <2>2, <2>3 DEF SpillInv
<1>6. CASE SpillPhi
  <2>1. /\ pass = "context_spill" /\ stage = "phis" /\ stage' = "phis"
        /\ Formed(fn) /\ OneEach(fn) /\ AllLocal(fn)
        /\ \A y : HasPhi(fn, y) <=> y \in todo
    BY <1>6 DEF SpillPhi, SpillInv
  <2>2. PICK x \in todo : fn' = DemotePHIToStack(fn, x) /\ todo' = todo \ {x}
    BY <1>6 DEF SpillPhi, Foremost
  <2>3. Broken(fn, fn', x)
    <3>1. HasPhi(fn, x) /\ \A y : Local(fn, y)
      BY <2>1 DEF AllLocal
    <3> QED BY <2>1, <2>2, <3>1, DemotePhiLocal
  <2>4. Formed(fn') /\ OneEach(fn') /\ AllLocal(fn')
    BY <2>3 DEF Broken, AllLocal
  <2>5. \A y : HasPhi(fn', y) <=> y \in todo'
    BY <2>1, <2>2, <2>3 DEF Broken
  <2> QED BY <2>1, <2>4, <2>5 DEF SpillInv
<1>7. CASE Spilled
  <2>1. /\ pass = "context_spill" /\ stage = "phis" /\ stage' = "done" /\ fn' = fn
        /\ todo = {} /\ Formed(fn) /\ OneEach(fn) /\ AllLocal(fn)
        /\ \A y : HasPhi(fn, y) <=> y \in todo
    BY <1>7 DEF Spilled, SpillInv
  <2>2. \A y : ~HasPhi(fn, y)
    BY <2>1
  <2> QED BY <2>1, <2>2 DEF SpillInv
<1>8. CASE Start
  <2>1. /\ pass = "context_spill" /\ stage = "done" /\ stage' = "run" /\ fn' = fn
        /\ Formed(fn) /\ OneEach(fn) /\ AllLocal(fn) /\ \A y : ~HasPhi(fn, y)
    BY <1>8 DEF Start, SpillInv
  <2> QED BY <2>1 DEF SpillInv
<1>9. CASE (\E w \in WorkItems : RunBlock(w)) \/ Returned \/ UNCHANGED vars
  BY <1>1, <1>9 DEF RunBlock, Returned, vars
<1>10. CASE \/ CollectUnbreakablePHIs \/ SinkController \/ MoveInst
            \/ FindBreakable \/ BreakPhi2Alloca \/ PhisBroken
  <2>1. pass = "context_spill"
    BY <1>10 DEF CollectUnbreakablePHIs, SinkController, MoveInst,
                 FindBreakable, BreakPhi2Alloca, PhisBroken
  <2> QED BY <1>2, <1>10, <2>1
<1> QED BY <1>3, <1>4, <1>5, <1>6, <1>7, <1>8, <1>9, <1>10 DEF Next

\* context_spill.cpp:44-134: of a spilled kernel no block uses a value of
\* another one, and no PHI is left, however many values cross, whatever they
\* feed, and though the demotion of each puts in new uses of it.
THEOREM SpilledNothingEscapes == Spec => []NothingEscapes
<1>1. SpillInv => NothingEscapes
  <2> SUFFICES ASSUME SpillInv, stage \in {"done", "run"}, pass = "context_spill",
                      NEW b \in Blocks(fn), NEW p \in DOMAIN fn.code[b]
               PROVE  /\ ~IsPhi(fn.code[b][p])
                      /\ \A x \in Uses(fn.code[b][p]) :
                           x \in DOMAIN Given \/ \E q \in 1 .. p - 1 : fn.code[b][q].name = x
    BY DEF NothingEscapes
  <2>1. AllLocal(fn) /\ \A y : ~HasPhi(fn, y)
    BY DEF SpillInv
  <2>2. ~IsPhi(fn.code[b][p])
    BY <2>1 DEF HasPhi
  <2>3. ASSUME NEW x \in Uses(fn.code[b][p])
        PROVE  x \in DOMAIN Given \/ \E q \in 1 .. p - 1 : fn.code[b][q].name = x
    <3>1. Served(fn.code[b], x)
      BY <2>1 DEF AllLocal, Local, Read
    <3>2. Near(fn.code[b], p, x)
      BY <2>2, <2>3, <3>1 DEF Served
    <3> QED BY <3>2 DEF Near
  <2> QED BY <2>2, <2>3
<1> QED BY <1>1, SpillInit, SpillNext, PTL DEF Spec

-----------------------------------------------------------------------------
(***************************************************************************)
(* Blocks that are made of another one's instructions.                     *)
(***************************************************************************)
IsBlock(c) == c \in Seq(Range(c)) /\ c # << >>

InFront(c) == \A p \in DOMAIN c : IsPhi(c[p]) => \A q \in 1 .. p - 1 : IsPhi(c[q])

\* A load or a store that was put in.
Memory(i) == ~IsPhi(i) /\ i.slot # NoSlot /\ (i.name = "" \/ i.args = << >>)

\* An instruction of d is of memory, or was at pos[r] in c.
FoundAt(c, d, pos) ==
  /\ pos \in [DOMAIN d -> Nat]
  /\ \A r \in DOMAIN d : Memory(d[r]) \/ (pos[r] \in DOMAIN c /\ d[r] = c[pos[r]])
  /\ \A r, s \in DOMAIN d : ~Memory(d[r]) /\ ~Memory(d[s]) /\ pos[r] = pos[s] => r = s

OldName(c, n) == n = "" \/ \E q \in DOMAIN c : c[q].name = n

Made(c, d) ==
  /\ IsBlock(d) /\ d[Len(d)] = c[Len(c)]
  /\ \A r \in DOMAIN d : OldName(c, d[r].name)
  /\ \E pos : FoundAt(c, d, pos)

LEMMA BlockLength ==
  ASSUME NEW c, IsBlock(c)
  PROVE  c \in Seq(Range(c)) /\ Len(c) \in Nat /\ Len(c) > 0 /\ DOMAIN c = 1 .. Len(c)
BY DEF IsBlock

LEMMA MadeItself ==
  ASSUME NEW c, IsBlock(c)
  PROVE  Made(c, c)
<1>1. FoundAt(c, c, [p \in DOMAIN c |-> p])
  BY BlockLength DEF FoundAt
<1>2. \A r \in DOMAIN c : OldName(c, c[r].name)
  BY DEF OldName
<1> QED BY <1>1, <1>2 DEF Made

LEMMA FoundAgain ==
  ASSUME NEW c, NEW d, NEW e, NEW old, FoundAt(c, d, old), NEW new, FoundAt(d, e, new)
  PROVE  \E pos : FoundAt(c, e, pos)
<1> DEFINE pos == [r \in DOMAIN e |-> IF Memory(e[r]) THEN 0 ELSE old[new[r]]]
<1>3. ASSUME NEW r \in DOMAIN e, ~Memory(e[r])
      PROVE  /\ new[r] \in DOMAIN d /\ e[r] = d[new[r]] /\ ~Memory(d[new[r]])
             /\ old[new[r]] \in DOMAIN c /\ e[r] = c[old[new[r]]] /\ old[new[r]] \in Nat
  <2>1. new[r] \in DOMAIN d /\ e[r] = d[new[r]]
    BY <1>3 DEF FoundAt
  <2> QED BY <1>3, <2>1 DEF FoundAt
<1>4. FoundAt(c, e, pos)
  <2>1. pos \in [DOMAIN e -> Nat]
    BY <1>3
  <2>2. ASSUME NEW r \in DOMAIN e
        PROVE  Memory(e[r]) \/ (pos[r] \in DOMAIN c /\ e[r] = c[pos[r]])
    BY <1>3
  <2>3. ASSUME NEW r \in DOMAIN e, NEW s \in DOMAIN e,
               ~Memory(e[r]), ~Memory(e[s]), pos[r] = pos[s]
        PROVE  r = s
    <3>1. old[new[r]] = old[new[s]]
      BY <2>3
    <3>2. /\ new[r] \in DOMAIN d /\ new[s] \in DOMAIN d
          /\ ~Memory(d[new[r]]) /\ ~Memory(d[new[s]])
      BY <1>3, <2>3
    <3>3. new[r] = new[s]
      BY <3>1, <3>2 DEF FoundAt
    <3> QED BY <2>3, <3>3 DEF FoundAt
  <2> HIDE DEF pos
  <2> QED BY <2>1, <2>2, <2>3 DEF FoundAt
<1> HIDE DEF pos
<1> QED BY <1>4

LEMMA MadeAgain ==
  ASSUME NEW c, NEW d, NEW e, Made(c, d), Made(d, e)
  PROVE  Made(c, e)
<1>1. \E pos : FoundAt(c, e, pos)
  BY FoundAgain DEF Made
<1>2. ASSUME NEW r \in DOMAIN e PROVE OldName(c, e[r].name)
  BY DEF Made, OldName
<1>3. IsBlock(e) /\ e[Len(e)] = c[Len(c)]
  BY DEF Made
<1> QED BY <1>1, <1>2, <1>3 DEF Made

\* A load or a store in front of the branch.
LEMMA StoreMade ==
  ASSUME NEW c, IsBlock(c), NEW i, Memory(i), NEW o, Made(o, c), OldName(o, i.name)
  PROVE  /\ Made(o, BeforeBranch(c, i))
         /\ InFront(c) /\ ~IsPhi(c[Len(c)]) => InFront(BeforeBranch(c, i))
         /\ \A p \in 1 .. Len(c) - 1 : BeforeBranch(c, i)[p] = c[p]
         /\ Len(BeforeBranch(c, i)) = Len(c) + 1
         /\ BeforeBranch(c, i)[Len(c) + 1] = c[Len(c)]
         /\ BeforeBranch(c, i)[Len(c)] = i
         /\ \A r \in DOMAIN BeforeBranch(c, i) :
              BeforeBranch(c, i)[r] = i \/ \E q \in DOMAIN c : BeforeBranch(c, i)[r] = c[q]
<1> DEFINE d == BeforeBranch(c, i)
           n == Len(c)
           pos == [r \in DOMAIN d |-> IF r < n THEN r ELSE n]
<1>1. c \in Seq(Range(c)) /\ n \in Nat /\ n > 0 /\ DOMAIN c = 1 .. n
  BY BlockLength
<1>2. /\ d \in Seq(Range(d)) /\ Len(d) = n + 1
      /\ \A k \in 1 .. n + 1 : d[k] = IF k < n THEN c[k] ELSE IF k = n THEN i ELSE c[k - 1]
  <2>1. n \in 1 .. n + 1
    BY <1>1
  <2>2. d = InsertAt(c, n, i)
    BY DEF BeforeBranch
  <2>3. n \in 1 .. Len(c) + 1 /\ Len(c) = n
    BY <2>1
  <2> HIDE DEF d, n
  <2> QED BY ONLY <1>1, <2>2, <2>3, Inserted
<1> HIDE DEF d, n
<1>3. DOMAIN d = 1 .. n + 1 /\ d # << >>
  <2>1. Len(d) # 0
    BY <1>1, <1>2
  <2> QED BY <1>2, <2>1
<1>4. d[n + 1] = c[n] /\ d[n] = i /\ \A p \in 1 .. n - 1 : d[p] = c[p]
  <2>1. n + 1 \in 1 .. n + 1 /\ ~(n + 1 < n) /\ n + 1 # n /\ (n + 1) - 1 = n
    BY <1>1
  <2>2. d[n + 1] = c[n]
    BY <1>2, <2>1
  <2>3. n \in 1 .. n + 1 /\ ~(n < n)
    BY <1>1
  <2>4. d[n] = i
    BY <1>2, <2>3
  <2>5. ASSUME NEW p \in 1 .. n - 1 PROVE d[p] = c[p]
    <3>1. p \in 1 .. n + 1 /\ p < n
      BY <1>1
    <3> QED BY <1>2, <3>1
  <2> QED BY <2>2, <2>4, <2>5
<1>5. \A r \in DOMAIN d : r = n \/ r < n \/ r = n + 1
  BY <1>1, <1>3
<1>6. \A r \in DOMAIN d : pos[r] = IF r < n THEN r ELSE n
  OBVIOUS
<1>7. pos \in [DOMAIN d -> Nat]
  BY <1>1, <1>3
<1> HIDE DEF pos
<1>8. \A r \in DOMAIN d : Memory(d[r]) \/ (pos[r] \in DOMAIN c /\ d[r] = c[pos[r]])
  BY <1>1, <1>3, <1>4, <1>5, <1>6
<1>9. \A r, s \in DOMAIN d : ~Memory(d[r]) /\ ~Memory(d[s]) /\ pos[r] = pos[s] => r = s
  BY <1>1, <1>3, <1>4, <1>5, <1>6
<1>10. \A r \in DOMAIN d : d[r] = i \/ \E q \in DOMAIN c : d[r] = c[q]
  <2> SUFFICES ASSUME NEW r \in DOMAIN d PROVE d[r] = i \/ \E q \in DOMAIN c : d[r] = c[q]
    OBVIOUS
  <2>1. CASE r < n
    <3>1. r \in 1 .. n - 1 /\ r \in DOMAIN c
      BY <1>1, <1>3, <2>1
    <3> QED BY <1>4, <3>1
  <2>2. CASE r = n
    BY <1>4, <2>2
  <2>3. CASE r = n + 1
    <3>1. n \in DOMAIN c
      BY <1>1
    <3> QED BY <1>4, <2>3, <3>1
  <2> QED BY <1>5, <2>1, <2>2, <2>3
<1>11. \A r \in DOMAIN d : OldName(o, d[r].name)
  <2>1. \A q \in DOMAIN c : OldName(o, c[q].name)
    BY DEF Made
  <2> QED BY <1>10, <2>1
<1>12. Made(o, d)
  <2>1. FoundAt(c, d, pos)
    BY <1>7, <1>8, <1>9 DEF FoundAt
  <2>2. d[Len(d)] = o[Len(o)]
    BY <1>2, <1>4 DEF n, Made
  <2>3. PICK old : FoundAt(o, c, old)
    BY DEF Made
  <2>4. \E new : FoundAt(o, d, new)
    BY <2>1, <2>3, FoundAgain
  <2> QED BY <1>2, <1>3, <1>11, <2>2, <2>4 DEF Made, IsBlock
<1>13. InFront(c) /\ ~IsPhi(c[n]) => InFront(d)
  <2> SUFFICES ASSUME InFront(c), ~IsPhi(c[n]), NEW p \in DOMAIN d, IsPhi(d[p]), NEW q \in 1 .. p - 1
               PROVE  IsPhi(d[q])
    BY DEF InFront
  <2>1. p < n /\ d[p] = c[p] /\ p \in DOMAIN c
    <3>1. p # n /\ p # n + 1
      BY <1>4 DEF Memory
    <3>2. p \in 1 .. n - 1 /\ p < n /\ p \in DOMAIN c
      BY <1>1, <1>3, <1>5, <3>1
    <3> QED BY <1>4, <3>2
  <2>2. IsPhi(c[q])
    BY <2>1 DEF InFront
  <2>3. q \in 1 .. n - 1
    BY <1>1, <1>3, <2>1
  <2> QED BY <1>4, <2>2, <2>3
<1> QED BY <1>2, <1>4, <1>12, <1>13, <1>10 DEF d, n

\* Something other than the branch is gone.
LEMMA EraseMade ==
  ASSUME NEW c, IsBlock(c), NEW p \in 1 .. Len(c) - 1
  PROVE  /\ Made(c, RemoveAt(c, p))
         /\ InFront(c) => InFront(RemoveAt(c, p))
         /\ Len(RemoveAt(c, p)) = Len(c) - 1
         /\ \A r \in DOMAIN RemoveAt(c, p) :
              \E q \in DOMAIN c : q # p /\ RemoveAt(c, p)[r] = c[q]
<1> DEFINE d == RemoveAt(c, p)
           n == Len(c)
           pos == [r \in DOMAIN d |-> Back(p, r)]
<1>1. c \in Seq(Range(c)) /\ n \in Nat /\ n > 1 /\ DOMAIN c = 1 .. n /\ p \in 1 .. n - 1
  BY BlockLength
<1>2. /\ d \in Seq(Range(d)) /\ Len(d) = n - 1
      /\ \A k \in 1 .. n - 1 : d[k] = IF k < p THEN c[k] ELSE c[k + 1]
  <2>1. p \in 1 .. n
    BY <1>1
  <2> QED BY <1>1, <2>1, Erased
<1> HIDE DEF d
<1>3. DOMAIN d = 1 .. n - 1 /\ d # << >>
  BY <1>1, <1>2
<1>4. pos \in [DOMAIN d -> Nat] /\ \A r \in DOMAIN d : pos[r] = Back(p, r)
  BY <1>1, <1>3 DEF Back
<1> HIDE DEF pos, n
<1>5. ASSUME NEW r \in DOMAIN d
      PROVE  pos[r] \in DOMAIN c /\ pos[r] # p /\ d[r] = c[pos[r]]
  <2>1. r \in 1 .. n - 1
    BY <1>3
  <2>2. d[r] = IF r < p THEN c[r] ELSE c[r + 1]
    BY ONLY <1>2, <2>1
  <2>3. d[r] = c[Back(p, r)]
    BY ONLY <2>2 DEF Back
  <2>4. Back(p, r) \in 1 .. n /\ Back(p, r) # p
    BY ONLY <1>1, <2>1 DEF Back
  <2> QED BY <1>1, <1>4, <2>3, <2>4
<1>6. ASSUME NEW r \in DOMAIN d, NEW s \in DOMAIN d, pos[r] = pos[s]
      PROVE  r = s
  <2>1. r \in 1 .. n - 1 /\ s \in 1 .. n - 1 /\ Back(p, r) = Back(p, s)
    BY <1>3, <1>4, <1>6
  <2> QED BY ONLY <1>1, <2>1 DEF Back
<1>7. Made(c, d)
  <2>1. FoundAt(c, d, pos)
    BY <1>4, <1>5, <1>6 DEF FoundAt
  <2>2. d[Len(d)] = c[Len(c)]
    <3>1. n - 1 \in 1 .. n - 1 /\ ~(n - 1 < p) /\ (n - 1) + 1 = n
      BY <1>1
    <3>2. d[n - 1] = c[n]
      BY <1>2, <3>1
    <3> QED BY <1>2, <3>2 DEF n
  <2>3. \A r \in DOMAIN d : OldName(c, d[r].name)
    BY <1>5 DEF OldName
  <2> QED BY <1>2, <1>3, <2>1, <2>2, <2>3 DEF Made, IsBlock
<1>8. InFront(c) => InFront(d)
  <2> SUFFICES ASSUME InFront(c), NEW r \in DOMAIN d, IsPhi(d[r]), NEW q \in 1 .. r - 1
               PROVE  IsPhi(d[q])
    BY DEF InFront
  <2>1. q \in DOMAIN d /\ pos[q] \in 1 .. pos[r] - 1
    <3>1. r \in 1 .. n - 1 /\ q \in 1 .. n - 1 /\ q < r
      BY <1>1, <1>3
    <3>2. Back(p, q) \in 1 .. Back(p, r) - 1
      BY <1>1, <3>1 DEF Back
    <3> QED BY <1>3, <1>4, <3>1, <3>2
  <2>2. IsPhi(c[pos[r]]) /\ pos[r] \in DOMAIN c
    BY <1>5
  <2>3. IsPhi(c[pos[q]])
    BY <2>1, <2>2 DEF InFront
  <2> QED BY <1>5, <2>1, <2>3
<1> QED BY <1>2, <1>5, <1>7, <1>8 DEF d, n

\* Something other than a PHI sinks down to the branch.
LEMMA MoveMade ==
  ASSUME NEW c, IsBlock(c), NEW p \in 1 .. Len(c) - 1, ~IsPhi(c[p]), ~IsPhi(c[Len(c)])
  PROVE  /\ Made(c, BeforeBranch(RemoveAt(c, p), c[p]))
         /\ InFront(c) => InFront(BeforeBranch(RemoveAt(c, p), c[p]))
         /\ \A r \in DOMAIN BeforeBranch(RemoveAt(c, p), c[p]) :
              \E q \in DOMAIN c : BeforeBranch(RemoveAt(c, p), c[p])[r] = c[q]
<1> DEFINE e == RemoveAt(c, p)
           d == BeforeBranch(e, c[p])
           n == Len(c)
           pos == [r \in DOMAIN d |-> IF r = n - 1 THEN p ELSE IF r = n THEN n ELSE Back(p, r)]
<1>1. c \in Seq(Range(c)) /\ n \in Nat /\ n > 1 /\ DOMAIN c = 1 .. n /\ p \in 1 .. n - 1
  BY BlockLength
<1>2. /\ e \in Seq(Range(e)) /\ Len(e) = n - 1
      /\ \A k \in 1 .. n - 1 : e[k] = IF k < p THEN c[k] ELSE c[k + 1]
  <2>1. p \in 1 .. n
    BY <1>1
  <2> QED BY <1>1, <2>1, Erased
<1> HIDE DEF e, n
<1>3. /\ d \in Seq(Range(d)) /\ Len(d) = n
      /\ \A k \in 1 .. n : d[k] = IF k < n - 1 THEN e[k] ELSE IF k = n - 1 THEN c[p] ELSE e[k - 1]
  <2>1. n - 1 \in 1 .. Len(e) + 1 /\ Len(e) + 1 = n
    BY <1>1, <1>2
  <2>2. d = InsertAt(e, n - 1, c[p])
    BY <1>2 DEF BeforeBranch
  <2> HIDE DEF d
  <2>3. /\ d \in Seq(Range(d)) /\ Len(d) = Len(e) + 1
        /\ \A k \in 1 .. Len(e) + 1 :
             d[k] = IF k < n - 1 THEN e[k] ELSE IF k = n - 1 THEN c[p] ELSE e[k - 1]
    BY ONLY <1>2, <2>1, <2>2, Inserted
  <2> QED BY <2>1, <2>3
<1> HIDE DEF d
<1>4. DOMAIN d = 1 .. n /\ d # << >>
  <2>1. Len(d) # 0
    BY <1>1, <1>3
  <2> QED BY <1>3, <2>1
<1>5. pos \in [DOMAIN d -> Nat]
      /\ \A r \in DOMAIN d : pos[r] = IF r = n - 1 THEN p ELSE IF r = n THEN n ELSE Back(p, r)
  BY <1>1, <1>4 DEF Back
<1> HIDE DEF pos
<1>6. ASSUME NEW r \in DOMAIN d
      PROVE  pos[r] \in DOMAIN c /\ d[r] = c[pos[r]]
  <2>1. CASE r = n - 1
    <3>1. r \in 1 .. n /\ ~(r < n - 1)
      BY <1>1, <1>4, <2>1
    <3>2. d[r] = c[p] /\ pos[r] = p
      BY <1>3, <1>5, <2>1, <3>1
    <3> QED BY <1>1, <3>2
  <2>2. CASE r = n
    <3>1. r \in 1 .. n /\ ~(r < n - 1) /\ r # n - 1 /\ n - 1 \in 1 .. n - 1 /\ ~(n - 1 < p)
          /\ (n - 1) + 1 = n /\ n \in DOMAIN c
      BY <1>1, <2>2
    <3>2. d[r] = e[n - 1] /\ pos[r] = n
      BY <1>3, <1>5, <2>2, <3>1
    <3>3. e[n - 1] = c[n]
      BY <1>2, <3>1
    <3> QED BY <3>1, <3>2, <3>3
  <2>3. CASE r # n - 1 /\ r # n
    <3>1. r \in 1 .. n /\ r < n - 1 /\ r \in 1 .. n - 1
      BY <1>1, <1>4, <2>3
    <3>2. d[r] = e[r] /\ pos[r] = Back(p, r)
      BY <1>3, <1>5, <2>3, <3>1
    <3>3. e[r] = c[Back(p, r)]
      BY <1>2, <3>1 DEF Back
    <3>4. Back(p, r) \in DOMAIN c
      BY <1>1, <3>1 DEF Back
    <3> QED BY <3>2, <3>3, <3>4
  <2> QED BY <2>1, <2>2, <2>3
<1>7. ASSUME NEW r \in DOMAIN d, NEW s \in DOMAIN d, pos[r] = pos[s]
      PROVE  r = s
  <2>1. /\ pos[r] = IF r = n - 1 THEN p ELSE IF r = n THEN n ELSE Back(p, r)
        /\ pos[s] = IF s = n - 1 THEN p ELSE IF s = n THEN n ELSE Back(p, s)
    BY <1>5
  <2>2. r \in 1 .. n /\ s \in 1 .. n
    BY <1>4
  <2>3. ASSUME NEW k \in 1 .. n, k # n - 1, k # n
        PROVE  Back(p, k) # p /\ Back(p, k) # n
    BY ONLY <1>1, <2>3 DEF Back
  <2>4. ASSUME r # n - 1, r # n, s # n - 1, s # n PROVE r = s
    <3>1. Back(p, r) = Back(p, s)
      BY <1>7, <2>1, <2>4
    <3> QED BY ONLY <1>1, <2>2, <3>1 DEF Back
  <2>5. CASE r = n - 1 \/ s = n - 1
    <3>1. p # n
      BY ONLY <1>1
    <3> QED BY <1>7, <2>1, <2>2, <2>3, <2>5, <3>1
  <2>6. CASE r # n - 1 /\ s # n - 1 /\ (r = n \/ s = n)
    BY <1>7, <2>1, <2>2, <2>3, <2>6
  <2> QED BY <2>4, <2>5, <2>6
<1>8. Made(c, d)
  <2>1. FoundAt(c, d, pos)
    BY <1>5, <1>6, <1>7 DEF FoundAt
  <2>2. d[Len(d)] = c[Len(c)]
    <3>1. n \in DOMAIN d /\ pos[n] = n
      BY <1>1, <1>4, <1>5
    <3> QED BY <1>3, <1>6, <3>1 DEF n
  <2>3. \A r \in DOMAIN d : OldName(c, d[r].name)
    BY <1>6 DEF OldName
  <2> QED BY <1>3, <1>4, <2>1, <2>2, <2>3 DEF Made, IsBlock
<1>9. InFront(c) => InFront(d)
  <2> SUFFICES ASSUME InFront(c), NEW r \in DOMAIN d, IsPhi(d[r]), NEW q \in 1 .. r - 1
               PROVE  IsPhi(d[q])
    BY DEF InFront
  <2>1. IsPhi(c[pos[r]]) /\ pos[r] \in DOMAIN c
    BY <1>6
  <2>2. r # n - 1 /\ r # n
    <3>1. pos[r] # p /\ pos[r] # n
      BY <2>1 DEF n
    <3> QED BY <1>5, <3>1
  <2>3. r \in 1 .. n - 2 /\ q \in 1 .. n - 2 /\ q < r /\ q # n - 1 /\ q # n
    <3>1. r \in 1 .. n
      BY <1>4
    <3> QED BY ONLY <1>1, <2>2, <3>1, q \in 1 .. r - 1
  <2>4. pos[r] = Back(p, r) /\ pos[q] = Back(p, q) /\ q \in DOMAIN d
    <3>1. r \in DOMAIN d /\ q \in DOMAIN d
      BY <1>1, <1>4, <2>3
    <3> QED BY <1>5, <2>2, <2>3, <3>1
  <2>5. Back(p, q) \in 1 .. Back(p, r) - 1
    BY <1>1, <2>3 DEF Back
  <2>6. IsPhi(c[pos[q]])
    BY <2>1, <2>4, <2>5 DEF InFront
  <2> QED BY <1>6, <2>4, <2>6
<1>10. \A r \in DOMAIN d : \E q \in DOMAIN c : d[r] = c[q]
  BY <1>6
<1> QED BY <1>8, <1>9, <1>10 DEF d, e

\* A load in an instruction's place.
LEMMA ReplaceMade ==
  ASSUME NEW c, IsBlock(c), NEW i, i # c[Len(c)],
         NEW l, Memory(l), OldName(c, l.name)
  PROVE  /\ Made(c, ReplaceAll(c, i, l))
         /\ DOMAIN ReplaceAll(c, i, l) = DOMAIN c
         /\ \A r \in DOMAIN c : ReplaceAll(c, i, l)[r] = IF c[r] = i THEN l ELSE c[r]
<1> DEFINE d == ReplaceAll(c, i, l)
<1>1. c \in Seq(Range(c)) /\ Len(c) \in Nat /\ Len(c) > 0 /\ DOMAIN c = 1 .. Len(c)
  BY BlockLength
<1>2. /\ DOMAIN d = 1 .. Len(c)
      /\ \A r \in 1 .. Len(c) : d[r] = IF c[r] = i THEN l ELSE c[r]
  BY DEF ReplaceAll
<1>3. d = [r \in 1 .. Len(c) |-> d[r]]
  BY DEF ReplaceAll
<1> HIDE DEF d
<1>4. d \in Seq(Range(d)) /\ Len(d) = Len(c)
  <2>1. \A r \in 1 .. Len(c) : d[r] \in Range(d)
    BY <1>2 DEF Range
  <2>2. d \in [1 .. Len(c) -> Range(d)]
    BY <1>3, <2>1
  <2> QED BY <1>1, <2>2
<1>5. d # << >>
  <2>1. Len(d) # 0
    BY <1>1, <1>4
  <2> QED BY <1>4, <2>1
<1>6. FoundAt(c, d, [r \in DOMAIN d |-> r])
  <2>1. [r \in DOMAIN d |-> r] \in [DOMAIN d -> Nat]
    BY <1>1, <1>2
  <2> QED BY <1>1, <1>2, <2>1 DEF FoundAt
<1>7. \A r \in DOMAIN d : OldName(c, d[r].name)
  <2> SUFFICES ASSUME NEW r \in DOMAIN d PROVE OldName(c, d[r].name)
    OBVIOUS
  <2>1. r \in DOMAIN c /\ (d[r] = l \/ d[r] = c[r])
    BY <1>1, <1>2
  <2>2. OldName(c, c[r].name)
    BY <2>1 DEF OldName
  <2> QED BY <2>1, <2>2
<1>8. d[Len(d)] = c[Len(c)]
  BY <1>1, <1>2, <1>4
<1>9. Made(c, d)
  BY <1>4, <1>5, <1>6, <1>7, <1>8 DEF Made, IsBlock
<1> QED BY <1>1, <1>2, <1>9 DEF d

-----------------------------------------------------------------------------
(***************************************************************************)
(* What a branch hangs on.                                                 *)
(***************************************************************************)
Own(c) == {c[p].name : p \in DOMAIN c} \ {""}

\* What uses of a block's own values lead to.
UsesWithin(c, C) == \A i \in Range(c) : i.name \in C => Own(c) \cap Uses(i) \subseteq C

LEMMA TransitiveUsesLeast ==
  ASSUME NEW c, IsBlock(c), c[Len(c)].name # ""
  PROVE  /\ TransitiveUses(c) \subseteq Own(c)
         /\ c[Len(c)].name \in TransitiveUses(c)
         /\ UsesWithin(c, TransitiveUses(c))
         /\ \A C : c[Len(c)].name \in C /\ UsesWithin(c, C) => TransitiveUses(c) \subseteq C
<1> DEFINE own == Own(c)
           uses == [x \in own |-> own \cap UNION {Uses(i) : i \in {j \in Range(c) : j.name = x}}]
           S == {c[Len(c)].name}
<1>1. c \in Seq(Range(c)) /\ Len(c) \in Nat /\ Len(c) > 0 /\ DOMAIN c = 1 .. Len(c)
  BY BlockLength
<1>2. IsFiniteSet(own)
  <2> DEFINE names == {c[p].name : p \in DOMAIN c}
             name == [p \in DOMAIN c |-> c[p].name]
  <2>1. IsFiniteSet(DOMAIN c)
    <3>1. 1 \in Int /\ Len(c) \in Int
      BY ONLY <1>1
    <3> QED BY <1>1, <3>1, FS_Interval
  <2>2. name \in Surjection(DOMAIN c, names)
    BY DEF Surjection
  <2>3. own \subseteq names
    BY DEF Own
  <2> HIDE DEF names, name, own
  <2>4. IsFiniteSet(names)
    BY <2>1, <2>2, FS_Surjection
  <2> QED BY <2>3, <2>4, FS_Subset
<1>3. TransitiveUses(c) = Reach(uses, S)
  BY DEF TransitiveUses, Own, Last
<1>4. S \in SUBSET own
  <2>1. Len(c) \in DOMAIN c
    BY ONLY <1>1
  <2>2. c[Len(c)].name \in Own(c)
    BY <2>1 DEF Own
  <2> HIDE DEF uses
  <2> QED BY <2>2
<1>5. DOMAIN uses = own /\ IsGraph(uses)
  BY <1>2 DEF IsGraph
<1>6. ASSUME NEW C, C \subseteq own PROVE ClosedUnder(uses, C) <=> UsesWithin(c, C)
  <2>1. \A x \in own : uses[x] = own \cap UNION {Uses(i) : i \in {j \in Range(c) : j.name = x}}
    OBVIOUS
  <2>2. \A i \in Range(c) : i.name \in C => i.name \in own
    BY <1>6
  <2> HIDE DEF uses, own
  <2>3. ASSUME ClosedUnder(uses, C), NEW i \in Range(c), i.name \in C, NEW x \in own \cap Uses(i)
        PROVE  x \in C
    <3>1. i \in {j \in Range(c) : j.name = i.name}
      BY <2>3
    <3>2. x \in own \cap UNION {Uses(k) : k \in {j \in Range(c) : j.name = i.name}}
      BY <2>3, <3>1
    <3>3. x \in uses[i.name] /\ i.name \in C
      BY <2>1, <2>2, <2>3, <3>2
    <3> QED BY <2>3, <3>3 DEF ClosedUnder
  <2>4. ASSUME UsesWithin(c, C), NEW n \in C, NEW x \in uses[n]
        PROVE  x \in C
    <3>1. n \in own
      BY <1>6
    <3>2. x \in own \cap UNION {Uses(i) : i \in {j \in Range(c) : j.name = n}}
      <4>1. uses[n] = own \cap UNION {Uses(i) : i \in {j \in Range(c) : j.name = n}}
        BY <2>1, <3>1
      <4> QED BY <4>1
    <3>3. PICK i \in Range(c) : i.name = n /\ x \in own \cap Uses(i)
      BY <3>2
    <3> QED BY <2>4, <3>3 DEF UsesWithin, own
  <2> QED BY <2>3, <2>4 DEF ClosedUnder, UsesWithin, own
<1> HIDE DEF own, uses, S
<1>7. /\ Reach(uses, S) \in SUBSET own
      /\ S \subseteq Reach(uses, S)
      /\ ClosedUnder(uses, Reach(uses, S))
  BY <1>4, <1>5, ReachIsLeast
<1>8. ASSUME NEW C, c[Len(c)].name \in C, UsesWithin(c, C)
      PROVE  Reach(uses, S) \subseteq C
  <2>1. UsesWithin(c, C \cap own)
    <3> SUFFICES ASSUME NEW i \in Range(c), i.name \in C \cap own, NEW x \in Own(c) \cap Uses(i)
                 PROVE  x \in C \cap own
      BY DEF UsesWithin
    <3>1. x \in C
      BY <1>8 DEF UsesWithin
    <3> QED BY <3>1 DEF own
  <2>2. ClosedUnder(uses, C \cap own)
    BY <1>6, <2>1
  <2>3. S \subseteq C \cap own
    BY <1>4, <1>8 DEF S
  <2>4. Reach(uses, S) \subseteq C \cap own
    BY <1>4, <1>5, <2>2, <2>3, ReachIsLeast
  <2> QED BY <2>4
<1>9. TransitiveUses(c) \subseteq own /\ c[Len(c)].name \in TransitiveUses(c)
      /\ UsesWithin(c, TransitiveUses(c))
  BY <1>3, <1>6, <1>7 DEF S
<1> QED BY <1>3, <1>8, <1>9 DEF own

LEMMA NoUses ==
  ASSUME NEW i, i.args = << >>
  PROVE  Uses(i) = {}
BY DEF Uses, Range

\* break_phi_to_alloca.cpp looks twice at what a branch hangs on: nothing
\* comes to it when loads and stores are put in and instructions move.
LEMMA TransitiveUsesStable ==
  ASSUME NEW c, IsBlock(c), c[Len(c)].name # "", NEW d, Made(c, d)
  PROVE  TransitiveUses(d) \subseteq TransitiveUses(c)
<1> DEFINE C == TransitiveUses(c)
<1>1. IsBlock(d) /\ d[Len(d)] = c[Len(c)] /\ d[Len(d)].name # ""
  BY DEF Made
<1>2. C \subseteq Own(c) /\ c[Len(c)].name \in C /\ UsesWithin(c, C)
  BY TransitiveUsesLeast
<1>3. Own(d) \subseteq Own(c)
  <2> SUFFICES ASSUME NEW r \in DOMAIN d, d[r].name # "" PROVE d[r].name \in Own(c)
    BY DEF Own
  <2>1. OldName(c, d[r].name)
    BY DEF Made
  <2> QED BY <2>1 DEF OldName, Own
<1> HIDE DEF C
<1>4. UsesWithin(d, C)
  <2> SUFFICES ASSUME NEW i \in Range(d), i.name \in C, NEW x \in Own(d) \cap Uses(i)
               PROVE  x \in C
    BY DEF UsesWithin
  <2>1. PICK r \in DOMAIN d : d[r] = i
    BY DEF Range
  <2>2. i.name # ""
    BY <1>2 DEF Own
  <2>3. CASE Memory(i)
    <3>1. i.args = << >>
      BY <2>2, <2>3 DEF Memory
    <3>2. Uses(i) = {}
      BY <3>1, NoUses
    <3> QED BY <3>2
  <2>4. CASE ~Memory(i)
    <3>1. PICK pos : FoundAt(c, d, pos)
      BY DEF Made
    <3>2. pos[r] \in DOMAIN c /\ i = c[pos[r]]
      BY <2>1, <2>4, <3>1 DEF FoundAt
    <3>3. i \in Range(c)
      BY <3>2 DEF Range
    <3> QED BY <1>2, <1>3, <3>3 DEF UsesWithin
  <2> QED BY <2>3, <2>4
<1>5. TransitiveUses(d) \subseteq C
  BY <1>1, <1>2, <1>4, TransitiveUsesLeast
<1> QED BY <1>5 DEF C

-----------------------------------------------------------------------------
(***************************************************************************)
(* Functions that are made of a kernel's instructions.                     *)
(***************************************************************************)
MadeOf(f, g) ==
  /\ "code" \in DOMAIN g
  /\ Blocks(g) = Blocks(f)
  /\ \A b \in Blocks(f) : Made(f.code[b], g.code[b])

LEMMA KernelBlock ==
  ASSUME NEW f \in Functions, NEW b \in Blocks(f)
  PROVE  /\ IsBlock(f.code[b]) /\ InFront(f.code[b])
         /\ ~IsPhi(f.code[b][Len(f.code[b])])
         /\ f.code[b][Len(f.code[b])].name # ""
<1>1. IsBlock(f.code[b]) /\ ~IsPhi(f.code[b][Len(f.code[b])])
  BY KernelCode DEF IsBlock, Last
<1>2. InFront(f.code[b])
  <2> SUFFICES ASSUME NEW p \in DOMAIN f.code[b], IsPhi(f.code[b][p])
               PROVE  \A q \in 1 .. p - 1 : IsPhi(f.code[b][q])
    BY DEF InFront
  <2>1. PhiFormed(f, b, p)
    BY KernelCode
  <2> QED BY <2>1 DEF PhiFormed
<1>3. Len(f.code[b]) \in DOMAIN f.code[b]
  BY <1>1, BlockLength
<1>4. f.code[b][Len(f.code[b])].name # ""
  BY <1>3, KernelNames
<1> QED BY <1>1, <1>2, <1>4

LEMMA KernelMade ==
  ASSUME NEW f \in Functions
  PROVE  MadeOf(f, f)
<1>1. "code" \in DOMAIN f
  <2>1. DOMAIN f = {"layout", "code", "succ"}
    BY FunctionsAssumption
  <2> QED BY <2>1
<1> QED BY <1>1, KernelBlock, MadeItself DEF MadeOf

LEMMA MadePhi ==
  ASSUME NEW c, NEW d, Made(c, d), NEW r \in DOMAIN d, IsPhi(d[r])
  PROVE  \E p \in DOMAIN c : d[r] = c[p]
<1>1. PICK pos : FoundAt(c, d, pos)
  BY DEF Made
<1>2. ~Memory(d[r])
  BY DEF Memory
<1> QED BY <1>1, <1>2 DEF FoundAt

LEMMA MadeLast ==
  ASSUME NEW f \in Functions, NEW g, MadeOf(f, g), NEW b \in Blocks(f)
  PROVE  /\ IsBlock(g.code[b])
         /\ g.code[b][Len(g.code[b])] = f.code[b][Len(f.code[b])]
         /\ ~IsPhi(g.code[b][Len(g.code[b])])
  BY KernelBlock DEF MadeOf, Made

LEMMA SameName ==
  ASSUME NEW f \in Functions, NEW b \in Blocks(f), NEW c \in Blocks(f),
         NEW p \in DOMAIN f.code[b], NEW q \in DOMAIN f.code[c],
         f.code[b][p].name = f.code[c][q].name
  PROVE  b = c /\ p = q
<1>1. Named(f, b, p)
  BY KernelCode
<1> QED BY <1>1 DEF Named

LEMMA MadeOneEach ==
  ASSUME NEW f \in Functions, NEW g, MadeOf(f, g)
  PROVE  OneEach(g)
<1>1. \A b \in Blocks(g) : b \in Blocks(f) /\ Made(f.code[b], g.code[b])
  BY DEF MadeOf
<1>2. ASSUME NEW b \in Blocks(g), NEW p \in DOMAIN g.code[b], IsPhi(g.code[b][p])
      PROVE  g.code[b][p].slot = NoSlot
  <2> DEFINE c == f.code[b]  d == g.code[b]
  <2>1. Made(c, d) /\ p \in DOMAIN d /\ IsPhi(d[p])
    BY <1>1, <1>2
  <2> HIDE DEF c, d
  <2>2. PICK q \in DOMAIN c : d[p] = c[q]
    BY ONLY <2>1, MadePhi
  <2> USE DEF c, d
  <2>3. b \in Blocks(f) /\ f.code[b][q].slot = NoSlot
    BY <1>1, <2>2, KernelNames
  <2> QED BY <2>2, <2>3
<1>3. ASSUME NEW b \in Blocks(g), NEW c \in Blocks(g),
             NEW p \in DOMAIN g.code[b], NEW q \in DOMAIN g.code[c],
             g.code[b][p].slot = NoSlot, g.code[c][q].slot = NoSlot,
             g.code[b][p].name = g.code[c][q].name
      PROVE  b = c /\ p = q
  <2>1. PICK pos : FoundAt(f.code[b], g.code[b], pos)
    BY <1>1 DEF Made
  <2>2. PICK pas : FoundAt(f.code[c], g.code[c], pas)
    BY <1>1 DEF Made
  <2>3. ~Memory(g.code[b][p]) /\ ~Memory(g.code[c][q])
    BY <1>3 DEF Memory
  <2>4. pos[p] \in DOMAIN f.code[b] /\ g.code[b][p] = f.code[b][pos[p]]
    BY <2>1, <2>3 DEF FoundAt
  <2>5. pas[q] \in DOMAIN f.code[c] /\ g.code[c][q] = f.code[c][pas[q]]
    BY <2>2, <2>3 DEF FoundAt
  <2>6. b = c
    <3>1. f.code[b][pos[p]].name = f.code[c][pas[q]].name
      BY <1>3, <2>4, <2>5
    <3> QED BY <1>1, <2>4, <2>5, <3>1, SameName
  <2>7. pos[q] \in DOMAIN f.code[b] /\ g.code[b][q] = f.code[b][pos[q]]
    BY <2>1, <2>3, <2>6 DEF FoundAt
  <2>8. pos[p] = pos[q]
    <3>1. f.code[b][pos[p]].name = f.code[b][pos[q]].name
      BY <1>3, <2>4, <2>6, <2>7
    <3> QED BY <1>1, <2>4, <2>7, <3>1, SameName
  <2>9. p = q
    BY <2>1, <2>3, <2>6, <2>8 DEF FoundAt
  <2> QED BY <2>6, <2>9
<1> QED BY <1>2, <1>3 DEF OneEach

\* Perhaps a store in front of the branch.
Added(c, d) == d = c \/ \E i : Memory(i) /\ i.name = "" /\ d = BeforeBranch(c, i)

LEMMA AddedFacts ==
  ASSUME NEW c, IsBlock(c), ~IsPhi(c[Len(c)]), NEW d, Added(c, d)
  PROVE  /\ Made(c, d)
         /\ InFront(c) => InFront(d)
         /\ \A p \in 1 .. Len(c) - 1 : p \in 1 .. Len(d) - 1 /\ d[p] = c[p]
         /\ \A p \in DOMAIN c : \E r \in DOMAIN d : d[r] = c[p]
<1>1. c \in Seq(Range(c)) /\ Len(c) \in Nat /\ Len(c) > 0 /\ DOMAIN c = 1 .. Len(c)
  BY BlockLength
<1>2. CASE d = c
  BY <1>2, MadeItself
<1>3. ASSUME NEW i, Memory(i), i.name = "", d = BeforeBranch(c, i)
      PROVE  /\ Made(c, d)
             /\ InFront(c) => InFront(d)
             /\ \A p \in 1 .. Len(c) - 1 : p \in 1 .. Len(d) - 1 /\ d[p] = c[p]
             /\ \A p \in DOMAIN c : \E r \in DOMAIN d : d[r] = c[p]
  <2>1. OldName(c, i.name) /\ Made(c, c)
    BY <1>3, MadeItself DEF OldName
  <2>2. /\ Made(c, d)
        /\ InFront(c) => InFront(d)
        /\ \A p \in 1 .. Len(c) - 1 : d[p] = c[p]
        /\ Len(d) = Len(c) + 1
        /\ d[Len(c) + 1] = c[Len(c)]
    <3>1. /\ Made(c, BeforeBranch(c, i))
          /\ InFront(c) /\ ~IsPhi(c[Len(c)]) => InFront(BeforeBranch(c, i))
      BY <1>3, <2>1, StoreMade
    <3>2. /\ \A p \in 1 .. Len(c) - 1 : BeforeBranch(c, i)[p] = c[p]
          /\ Len(BeforeBranch(c, i)) = Len(c) + 1
          /\ BeforeBranch(c, i)[Len(c) + 1] = c[Len(c)]
      <4>1. Memory(i) /\ Made(c, c) /\ OldName(c, i.name) /\ IsBlock(c)
        BY <1>3, <2>1
      <4> QED BY ONLY <4>1, StoreMade
    <3> QED BY <1>3, <3>1, <3>2
  <2>3. DOMAIN d = 1 .. Len(d)
    BY <2>2, BlockLength DEF Made
  <2>4. ASSUME NEW p \in 1 .. Len(c) - 1 PROVE p \in 1 .. Len(d) - 1
    BY <1>1, <2>2
  <2>5. ASSUME NEW p \in DOMAIN c PROVE \E r \in DOMAIN d : d[r] = c[p]
    <3>1. CASE p = Len(c)
      <4>1. Len(c) + 1 \in DOMAIN d
        BY <1>1, <2>2, <2>3
      <4> QED BY <2>2, <3>1, <4>1
    <3>2. CASE p # Len(c)
      <4>1. p \in 1 .. Len(c) - 1 /\ p \in DOMAIN d
        BY <1>1, <2>2, <2>3, <3>2
      <4> QED BY <2>2, <4>1
    <3> QED BY <3>1, <3>2
  <2> QED BY <2>2, <2>4, <2>5
<1> QED BY <1>2, <1>3 DEF Added

LEMMA StoreIncomingAdds ==
  ASSUME NEW f, "code" \in DOMAIN f, NEW phi, NEW slot, slot # NoSlot
  PROVE  /\ "code" \in DOMAIN StoreIncoming(f, phi, slot)
         /\ Blocks(StoreIncoming(f, phi, slot)) = Blocks(f)
         /\ \A b \in Blocks(f) : Added(f.code[b], StoreIncoming(f, phi, slot).code[b])
<1> DEFINE g == StoreIncoming(f, phi, slot)
<1>1. /\ "code" \in DOMAIN g
      /\ g.code = [b \in Blocks(f) |->
           IF b \in DOMAIN phi.args THEN BeforeBranch(f.code[b], Store(phi.args[b], slot))
           ELSE f.code[b]]
  BY DEF StoreIncoming, Blocks
<1> HIDE DEF g
<1>2. \A x : Memory(Store(x, slot)) /\ Store(x, slot).name = ""
  BY DEF Memory, Store, IsPhi
<1>3. ASSUME NEW b \in Blocks(f) PROVE Added(f.code[b], g.code[b])
  BY <1>1, <1>2 DEF Added
<1> QED BY <1>1, <1>3 DEF g, Blocks

\* What sinking an instruction promises of the function it changes.
Sank(g, h, b, i) ==
  \A c \in Blocks(g) :
    /\ InFront(g.code[c]) => InFront(h.code[c])
    /\ \A r \in DOMAIN h.code[c] : IsPhi(h.code[c][r]) =>
         <<c, h.code[c][r]>> # <<b, i>> /\ \E q \in DOMAIN g.code[c] : h.code[c][r] = g.code[c][q]

LEMMA SinkPhiSinks ==
  ASSUME NEW f \in Functions, NEW g, MadeOf(f, g), NEW b \in Blocks(g),
         NEW p \in 1 .. Len(g.code[b]) - 1, IsPhi(g.code[b][p])
  PROVE  MadeOf(f, SinkPhi(g, b, p)) /\ Sank(g, SinkPhi(g, b, p), b, g.code[b][p])
<1> DEFINE h    == SinkPhi(g, b, p)
           phi  == g.code[b][p]
           slot == <<"ex_phi", phi.name>>
           l    == Load(phi.name, slot)
           s    == StoreIncoming(g, phi, slot)
           e    == RemoveAt(s.code[b], p)
           d    == BeforeBranch(e, l)
<1>1. slot # NoSlot
  BY DEF NoSlot
<1>2. h = [s EXCEPT !.code[b] = d]
  BY DEF SinkPhi
<1>3. Memory(l) /\ l.name = phi.name
  BY <1>1 DEF Memory, Load, IsPhi
<1> HIDE DEF h, slot, l
<1>4. /\ "code" \in DOMAIN s /\ Blocks(s) = Blocks(g)
      /\ \A c \in Blocks(g) : Added(g.code[c], s.code[c])
  <2>1. "code" \in DOMAIN g
    BY DEF MadeOf
  <2> HIDE DEF s, phi
  <2> QED BY <1>1, <2>1, StoreIncomingAdds DEF s
<1> HIDE DEF s
<1>5. /\ "code" \in DOMAIN h /\ Blocks(h) = Blocks(g)
      /\ h.code[b] = d /\ \A c \in Blocks(g) : c # b => h.code[c] = s.code[c]
  <2> HIDE DEF d
  <2> QED BY <1>2, <1>4 DEF Blocks
<1>6. /\ Blocks(g) = Blocks(f)
      /\ \A c \in Blocks(g) : Made(f.code[c], g.code[c])
  BY DEF MadeOf
<1>7. ASSUME NEW c \in Blocks(g)
      PROVE  /\ IsBlock(g.code[c]) /\ ~IsPhi(g.code[c][Len(g.code[c])])
             /\ Made(g.code[c], s.code[c])
             /\ InFront(g.code[c]) => InFront(s.code[c])
  <2>1. IsBlock(g.code[c]) /\ ~IsPhi(g.code[c][Len(g.code[c])])
    BY <1>6, MadeLast
  <2>2. Added(g.code[c], s.code[c])
    BY <1>4
  <2> QED BY <2>1, <2>2, AddedFacts
<1>8. p \in 1 .. Len(s.code[b]) - 1 /\ s.code[b][p] = phi
  BY <1>4, <1>7, AddedFacts
<1>9. IsBlock(s.code[b]) /\ ~IsPhi(s.code[b][Len(s.code[b])])
  BY <1>7 DEF Made
<1>10. /\ Made(s.code[b], e)
       /\ InFront(s.code[b]) => InFront(e)
       /\ \A r \in DOMAIN e : \E q \in DOMAIN s.code[b] : q # p /\ e[r] = s.code[b][q]
  BY <1>8, <1>9, EraseMade
<1> HIDE DEF e
<1>11. IsBlock(e) /\ ~IsPhi(e[Len(e)])
  BY <1>9, <1>10 DEF Made
<1>12. /\ Made(s.code[b], d)
       /\ InFront(e) => InFront(d)
       /\ \A r \in DOMAIN d : d[r] = l \/ \E q \in DOMAIN e : d[r] = e[q]
  <2>1. p \in DOMAIN s.code[b]
    BY <1>8, <1>9, BlockLength
  <2>2. OldName(s.code[b], l.name)
    BY <1>3, <1>8, <2>1 DEF OldName
  <2> QED BY <1>3, <1>10, <1>11, <2>2, StoreMade
<1>13. ASSUME NEW r \in DOMAIN d, IsPhi(d[r])
       PROVE  d[r] # phi /\ \E q \in DOMAIN g.code[b] : d[r] = g.code[b][q]
  <2>1. PICK t \in DOMAIN e : d[r] = e[t]
    <3>1. d[r] # l
      BY <1>3, <1>13 DEF Memory
    <3> QED BY <1>12, <3>1
  <2>2. PICK u \in DOMAIN s.code[b] : u # p /\ d[r] = s.code[b][u]
    BY <1>10, <2>1
  <2>3. d[r] # phi
    <3>1. MadeOf(f, s)
      BY <1>4, <1>6, <1>7, MadeAgain DEF MadeOf
    <3>2. OneEach(s)
      BY <3>1, MadeOneEach
    <3>3. p \in DOMAIN s.code[b] /\ b \in Blocks(s)
      BY <1>4, <1>8, <1>9, BlockLength
    <3>4. IsPhi(s.code[b][p]) /\ s.code[b][u] # s.code[b][p]
      <4>1. IsPhi(s.code[b][p])
        BY <1>8
      <4>2. s.code[b][p].slot = NoSlot
        BY <3>2, <3>3, <4>1 DEF OneEach
      <4>3. s.code[b][u] # s.code[b][p]
        BY <2>2, <3>2, <3>3, <4>2 DEF OneEach
      <4> QED BY <4>1, <4>3
    <3> QED BY <1>8, <2>2, <3>4
  <2>4. \E q \in DOMAIN g.code[b] : d[r] = g.code[b][q]
    BY <1>7, <1>13, <2>2, MadePhi
  <2> QED BY <2>3, <2>4
<1> HIDE DEF d
<1>14. ASSUME NEW c \in Blocks(g), c # b, NEW r \in DOMAIN h.code[c], IsPhi(h.code[c][r])
       PROVE  \E q \in DOMAIN g.code[c] : h.code[c][r] = g.code[c][q]
  BY <1>5, <1>7, <1>14, MadePhi
<1>15. MadeOf(f, h)
  <2>1. ASSUME NEW c \in Blocks(g) PROVE Made(f.code[c], h.code[c])
    <3>1. Made(f.code[c], s.code[c])
      BY <1>6, <1>7, MadeAgain
    <3>2. CASE c = b
      BY <1>5, <1>12, <3>1, <3>2, MadeAgain
    <3>3. CASE c # b
      BY <1>5, <3>1, <3>3
    <3> QED BY <3>2, <3>3
  <2> QED BY <1>5, <1>6, <2>1 DEF MadeOf
<1>16. Sank(g, h, b, phi)
  <2>1. ASSUME NEW c \in Blocks(g), InFront(g.code[c]) PROVE InFront(h.code[c])
    BY <1>5, <1>7, <1>10, <1>12, <2>1
  <2>2. ASSUME NEW c \in Blocks(g), NEW r \in DOMAIN h.code[c], IsPhi(h.code[c][r])
        PROVE  /\ <<c, h.code[c][r]>> # <<b, phi>>
               /\ \E q \in DOMAIN g.code[c] : h.code[c][r] = g.code[c][q]
    <3>1. CASE c = b
      BY <1>5, <1>13, <2>2, <3>1
    <3>2. CASE c # b
      BY <1>14, <2>2, <3>2
    <3> QED BY <3>1, <3>2
  <2> HIDE DEF phi
  <2> QED BY <2>1, <2>2 DEF Sank
<1> QED BY <1>15, <1>16 DEF h

LEMMA MoveSinks ==
  ASSUME NEW f \in Functions, NEW g, MadeOf(f, g), NEW b \in Blocks(g),
         NEW p \in 1 .. Len(g.code[b]) - 1, ~IsPhi(g.code[b][p]),
         NEW h, h = [g EXCEPT !.code[b] = BeforeBranch(RemoveAt(@, p), g.code[b][p])]
  PROVE  MadeOf(f, h) /\ Sank(g, h, b, g.code[b][p])
<1> DEFINE d == BeforeBranch(RemoveAt(g.code[b], p), g.code[b][p])
<1>1. /\ "code" \in DOMAIN g /\ Blocks(g) = Blocks(f)
      /\ \A c \in Blocks(g) : Made(f.code[c], g.code[c])
  BY DEF MadeOf
<1>2. IsBlock(g.code[b]) /\ ~IsPhi(g.code[b][Len(g.code[b])])
  BY <1>1, MadeLast
<1>3. /\ Made(g.code[b], d)
      /\ InFront(g.code[b]) => InFront(d)
      /\ \A r \in DOMAIN d : \E q \in DOMAIN g.code[b] : d[r] = g.code[b][q]
  BY <1>2, MoveMade
<1> HIDE DEF d
<1>4. h = [g EXCEPT !.code[b] = d]
  BY DEF d
<1>5. /\ "code" \in DOMAIN h /\ Blocks(h) = Blocks(g)
      /\ h.code[b] = d /\ \A c \in Blocks(g) : c # b => h.code[c] = g.code[c]
  BY <1>1, <1>4 DEF Blocks
<1>6. MadeOf(f, h)
  <2>1. ASSUME NEW c \in Blocks(g) PROVE Made(f.code[c], h.code[c])
    <3>1. CASE c = b
      BY <1>1, <1>3, <1>5, <3>1, MadeAgain
    <3>2. CASE c # b
      BY <1>1, <1>5, <3>2
    <3> QED BY <3>1, <3>2
  <2> QED BY <1>1, <1>5, <2>1 DEF MadeOf
<1>7. ASSUME NEW c \in Blocks(g), NEW r \in DOMAIN h.code[c], IsPhi(h.code[c][r])
      PROVE  /\ <<c, h.code[c][r]>> # <<b, g.code[b][p]>>
             /\ \E q \in DOMAIN g.code[c] : h.code[c][r] = g.code[c][q]
  <2>1. h.code[c][r] # g.code[b][p]
    BY <1>7
  <2>2. \E q \in DOMAIN g.code[c] : h.code[c][r] = g.code[c][q]
    BY <1>3, <1>5
  <2> QED BY <2>1, <2>2
<1>8. ASSUME NEW c \in Blocks(g), InFront(g.code[c]) PROVE InFront(h.code[c])
  BY <1>3, <1>5, <1>8
<1> QED BY <1>6, <1>7, <1>8 DEF Sank

\* A PHI is replaced: the others stay, and in other blocks they stay in front.
LEMMA BreakPhiBreaks ==
  ASSUME NEW f \in Functions, NEW g, MadeOf(f, g), NEW x, HasPhi(g, x)
  PROVE  /\ MadeOf(f, BreakPhi(g, x))
         /\ \A c \in Blocks(g) : \A r \in DOMAIN BreakPhi(g, x).code[c] :
              IsPhi(BreakPhi(g, x).code[c][r]) =>
                /\ BreakPhi(g, x).code[c][r].name # x
                /\ \E q \in DOMAIN g.code[c] : BreakPhi(g, x).code[c][r] = g.code[c][q]
         /\ \A c \in Blocks(g) :
              /\ InFront(g.code[c])
              /\ \A q \in DOMAIN g.code[c] : ~(IsPhi(g.code[c][q]) /\ g.code[c][q].name = x)
              => InFront(BreakPhi(g, x).code[c])
         /\ \A y : HasPhi(g, y) /\ y # x => HasPhi(BreakPhi(g, x), y)
<1> DEFINE b    == BlockOf(g, x)
           p    == CHOOSE p \in DOMAIN g.code[b] : IsOwn(g.code[b][p], x)
           phi  == g.code[b][p]
           slot == <<"ex_phi", x>>
           l    == Load(x, slot)
           s    == StoreIncoming(g, phi, slot)
           d    == ReplaceAll(s.code[b], phi, l)
           h    == BreakPhi(g, x)
<1>1. h = [s EXCEPT !.code[b] = d]
  BY DEF BreakPhi
<1>2. slot # NoSlot
  BY DEF NoSlot
<1>3. Memory(l) /\ l.name = x
  BY <1>2 DEF Memory, Load, IsPhi
<1> HIDE DEF h, slot, l
<1>4. /\ "code" \in DOMAIN g /\ Blocks(g) = Blocks(f)
      /\ \A c \in Blocks(g) : Made(f.code[c], g.code[c])
  BY DEF MadeOf
<1>5. OneEach(g)
  BY MadeOneEach
<1>6. PICK b0 \in Blocks(g) : \E p0 \in DOMAIN g.code[b0] :
        IsPhi(g.code[b0][p0]) /\ g.code[b0][p0].name = x
  BY DEF HasPhi
<1>7. PICK p0 \in DOMAIN g.code[b0] : IsPhi(g.code[b0][p0]) /\ g.code[b0][p0].name = x
  BY <1>6
<1>8. IsOwn(g.code[b0][p0], x)
  BY <1>5, <1>6, <1>7 DEF OneEach, IsOwn
<1>9. b = b0 /\ b \in Blocks(g)
  <2>1. \E m \in Blocks(g) : \E i \in Range(g.code[m]) : IsOwn(i, x)
    BY <1>6, <1>7, <1>8 DEF Range
  <2>2. b \in Blocks(g) /\ \E i \in Range(g.code[b]) : IsOwn(i, x)
    BY <2>1, Zenon DEF BlockOf
  <2> HIDE DEF b
  <2>3. PICK j \in DOMAIN g.code[b] : IsOwn(g.code[b][j], x)
    BY <2>2 DEF Range
  <2> QED BY <1>5, <1>6, <1>7, <1>8, <2>2, <2>3 DEF OneEach, IsOwn
<1>10. p = p0 /\ p \in DOMAIN g.code[b]
  <2> HIDE DEF b
  <2>1. p \in DOMAIN g.code[b] /\ IsOwn(g.code[b][p], x)
    BY <1>8, <1>9
  <2> QED BY <1>5, <1>6, <1>7, <1>8, <1>9, <2>1 DEF OneEach, IsOwn
<1> HIDE DEF b, p
<1>11. IsPhi(phi) /\ phi.name = x
  BY <1>7, <1>9, <1>10
<1> HIDE DEF phi
<1>12. /\ "code" \in DOMAIN s /\ Blocks(s) = Blocks(g)
       /\ \A c \in Blocks(g) : Added(g.code[c], s.code[c])
  <2> HIDE DEF s
  <2> QED BY <1>2, <1>4, StoreIncomingAdds DEF s
<1> HIDE DEF s
<1>13. /\ "code" \in DOMAIN h /\ Blocks(h) = Blocks(g)
       /\ h.code[b] = d /\ \A c \in Blocks(g) : c # b => h.code[c] = s.code[c]
  <2> HIDE DEF d
  <2> QED BY <1>1, <1>9, <1>12 DEF Blocks
<1>14. ASSUME NEW c \in Blocks(g)
       PROVE  /\ IsBlock(g.code[c]) /\ ~IsPhi(g.code[c][Len(g.code[c])])
              /\ Made(g.code[c], s.code[c])
              /\ InFront(g.code[c]) => InFront(s.code[c])
              /\ \A q \in DOMAIN g.code[c] : \E r \in DOMAIN s.code[c] : s.code[c][r] = g.code[c][q]
  <2>1. IsBlock(g.code[c]) /\ ~IsPhi(g.code[c][Len(g.code[c])])
    BY <1>4, MadeLast
  <2>2. Added(g.code[c], s.code[c])
    BY <1>12
  <2> QED BY <2>1, <2>2, AddedFacts
<1>15. IsBlock(s.code[b]) /\ ~IsPhi(s.code[b][Len(s.code[b])])
  BY <1>9, <1>14 DEF Made
<1>16. /\ Made(s.code[b], d)
       /\ DOMAIN d = DOMAIN s.code[b]
       /\ \A r \in DOMAIN s.code[b] : d[r] = IF s.code[b][r] = phi THEN l ELSE s.code[b][r]
  <2> DEFINE c == s.code[b]
  <2>1. phi # c[Len(c)] /\ IsBlock(c)
    BY <1>11, <1>15
  <2>2. OldName(c, l.name)
    <3>1. PICK r \in DOMAIN s.code[b] : s.code[b][r] = phi
      BY <1>9, <1>10, <1>14 DEF phi
    <3> QED BY <1>3, <1>11, <3>1 DEF OldName
  <2>3. Memory(l)
    BY <1>3
  <2>4. d = ReplaceAll(c, phi, l)
    OBVIOUS
  <2> HIDE DEF c, d
  <2>5. /\ Made(c, d) /\ DOMAIN d = DOMAIN c
        /\ \A r \in DOMAIN c : d[r] = IF c[r] = phi THEN l ELSE c[r]
    BY ONLY <2>1, <2>2, <2>3, <2>4, ReplaceMade
  <2> QED BY <2>5 DEF c
<1> HIDE DEF d
<1>17. MadeOf(f, s)
  BY <1>4, <1>12, <1>14, MadeAgain DEF MadeOf
<1>18. MadeOf(f, h)
  <2>1. ASSUME NEW c \in Blocks(g) PROVE Made(f.code[c], h.code[c])
    <3>1. Made(f.code[c], s.code[c])
      BY <1>4, <1>14, MadeAgain
    <3>2. CASE c = b
      BY <1>13, <1>16, <3>1, <3>2, MadeAgain
    <3>3. CASE c # b
      BY <1>13, <3>1, <3>3
    <3> QED BY <3>2, <3>3
  <2> QED BY <1>4, <1>13, <2>1 DEF MadeOf
<1>19. ASSUME NEW c \in Blocks(g), NEW r \in DOMAIN h.code[c], IsPhi(h.code[c][r])
       PROVE  /\ h.code[c][r].name # x
              /\ \E q \in DOMAIN g.code[c] : h.code[c][r] = g.code[c][q]
  <2>1. \/ c # b
        \/ r \in DOMAIN s.code[c] /\ h.code[c][r] = s.code[c][r] /\ s.code[c][r] # phi
    <3>1. CASE c = b
      <4>1. r \in DOMAIN s.code[c] /\ h.code[c][r] = IF s.code[c][r] = phi THEN l ELSE s.code[c][r]
        BY <1>13, <1>16, <3>1
      <4>2. h.code[c][r] # l
        BY <1>3, <1>19 DEF Memory
      <4> QED BY <4>1, <4>2
    <3> QED BY <3>1
  <2>2. r \in DOMAIN s.code[c] /\ h.code[c][r] = s.code[c][r]
    BY <1>13, <2>1
  <2>3. PICK q \in DOMAIN g.code[c] : h.code[c][r] = g.code[c][q]
    BY <1>14, <1>19, <2>2, MadePhi
  <2>4. h.code[c][r] # phi \/ c # b
    BY <2>1, <2>2
  <2>5. g.code[c][q].name # x
    <3> SUFFICES ASSUME g.code[c][q].name = x PROVE FALSE
      OBVIOUS
    <3>1. g.code[c][q].slot = NoSlot
      BY <1>5, <1>19, <2>3 DEF OneEach
    <3>2. c = b /\ q = p
      BY <1>5, <1>8, <1>9, <1>10, <3>1 DEF OneEach, IsOwn
    <3> QED BY <2>3, <2>4, <3>2 DEF phi
  <2> QED BY <2>3, <2>5
<1>20. ASSUME NEW c \in Blocks(g), InFront(g.code[c]),
              \A q \in DOMAIN g.code[c] : ~(IsPhi(g.code[c][q]) /\ g.code[c][q].name = x)
       PROVE  InFront(h.code[c])
  <2>1. c # b
    BY <1>9, <1>10, <1>11, <1>20 DEF phi
  <2> QED BY <1>13, <1>14, <1>20, <2>1
<1>21. ASSUME NEW y, HasPhi(g, y), y # x PROVE HasPhi(h, y)
  <2>1. PICK c \in Blocks(g) : \E q \in DOMAIN g.code[c] :
          IsPhi(g.code[c][q]) /\ g.code[c][q].name = y
    BY <1>21 DEF HasPhi
  <2>2. PICK q \in DOMAIN g.code[c] : IsPhi(g.code[c][q]) /\ g.code[c][q].name = y
    BY <2>1
  <2>3. PICK r \in DOMAIN s.code[c] : s.code[c][r] = g.code[c][q]
    BY <1>14
  <2>4. r \in DOMAIN h.code[c] /\ h.code[c][r] = g.code[c][q]
    <3>1. CASE c = b
      <4>1. s.code[c][r] # phi
        BY <1>11, <1>21, <2>2, <2>3
      <4> QED BY <1>13, <1>16, <2>3, <3>1, <4>1
    <3>2. CASE c # b
      BY <1>13, <2>3, <3>2
    <3> QED BY <3>1, <3>2
  <2> QED BY <1>13, <2>1, <2>2, <2>4 DEF HasPhi
<1> QED BY <1>18, <1>19, <1>20, <1>21 DEF h

-----------------------------------------------------------------------------
(***************************************************************************)
(* The breaking.  While controllers sink, PHIs stay in front everywhere;   *)
(* those of a controller that was sunk stay, or have still to sink.  What  *)
(* is broken then is not in a controller.                                  *)
(***************************************************************************)
BranchOf(f, b) == f.code[b][Len(f.code[b])]

StaySinking ==
  /\ todo \subseteq BBsCtrl(source)
  /\ \A b \in Blocks(source) : InFront(fn.code[b])
  /\ \A b \in BBsCtrl(source) \ todo : \A p \in DOMAIN fn.code[b] :
       IsPhi(fn.code[b][p]) =>
         <<b, fn.code[b][p]>> \in InstToMove \/ fn.code[b][p].name \in UnbreakablePHIs
  /\ \A m \in InstToMove : m[2].name # BranchOf(source, m[1]).name

StayBreaking ==
  /\ todo \cap UnbreakablePHIs = {}
  /\ stage # "break" => todo = {}
  /\ \A b \in Blocks(source) : \A p \in DOMAIN fn.code[b] :
       IsPhi(fn.code[b][p]) => fn.code[b][p].name \in UnbreakablePHIs \cup todo
  /\ \A x \in todo : HasPhi(fn, x)
  /\ \A b \in BBsCtrl(source) :
       /\ InFront(fn.code[b])
       /\ \A p \in DOMAIN fn.code[b] :
            IsPhi(fn.code[b][p]) => fn.code[b][p].name \in UnbreakablePHIs

BreakInv ==
  pass # "context_spill" =>
    /\ source \in Functions /\ MadeOf(source, fn)
    /\ stage \in {"collect", "sink", "break", "done", "run"}
    /\ stage = "collect" => fn = source /\ InstToMove = {}
    /\ stage # "collect" =>
         UnbreakablePHIs = UNION {Unbreakable(source, b) : b \in BBsCtrl(source)}
    /\ stage = "sink" => StaySinking
    /\ stage \in {"break", "done", "run"} => StayBreaking

LEMMA BreakInit == Init => BreakInv
BY KernelMade DEF Init, BreakInv

LEMMA CollectKeeps ==
  ASSUME BreakInv, CollectUnbreakablePHIs, pass # "context_spill"
  PROVE  BreakInv'
<1>1. /\ source \in Functions /\ MadeOf(source, fn) /\ fn = source /\ InstToMove = {}
      /\ todo' = BBsCtrl(source) /\ stage' = "sink"
      /\ UnbreakablePHIs' = UNION {Unbreakable(source, b) : b \in BBsCtrl(source)}
      /\ source' = source /\ fn' = fn /\ pass' = pass /\ InstToMove' = InstToMove
  BY DEF BreakInv, CollectUnbreakablePHIs
<1>2. \A b \in Blocks(source) : InFront(fn.code[b])
  BY <1>1, KernelBlock
<1>3. StaySinking'
  BY <1>1, <1>2 DEF StaySinking
<1> QED BY <1>1, <1>3 DEF BreakInv

\* Nothing new comes to what the controller's branch hangs on.
LEMMA ControllerKeeps ==
  ASSUME BreakInv, SinkController, pass # "context_spill"
  PROVE  BreakInv'
<1>1. /\ source \in Functions /\ MadeOf(source, fn) /\ StaySinking
      /\ UnbreakablePHIs = UNION {Unbreakable(source, b) : b \in BBsCtrl(source)}
      /\ stage = "sink" /\ InstToMove = {}
  BY DEF BreakInv, SinkController
<1>2. PICK b \in todo :
        /\ InstToMove' = {<<b, i>> : i \in {j \in Range(fn.code[b]) :
                                              j.name \notin TransitiveUses(fn.code[b])}}
        /\ todo' = todo \ {b}
  BY DEF SinkController
<1>3. /\ source' = source /\ fn' = fn /\ pass' = pass /\ stage' = stage
      /\ UnbreakablePHIs' = UnbreakablePHIs
  BY DEF SinkController
<1>4. b \in BBsCtrl(source) /\ b \in Blocks(source)
  BY <1>1 DEF StaySinking, BBsCtrl
<1>5. /\ IsBlock(source.code[b]) /\ Made(source.code[b], fn.code[b])
      /\ BranchOf(source, b).name # ""
  BY <1>1, <1>4, KernelBlock DEF MadeOf, BranchOf
<1>6. /\ IsBlock(fn.code[b]) /\ BranchOf(fn, b) = BranchOf(source, b)
  BY <1>5 DEF Made, BranchOf
<1>7. TransitiveUses(fn.code[b]) \subseteq TransitiveUses(source.code[b])
  BY <1>5, TransitiveUsesStable DEF BranchOf
<1>8. BranchOf(source, b).name \in TransitiveUses(fn.code[b])
  BY <1>5, <1>6, TransitiveUsesLeast DEF BranchOf
<1>9. \A m \in InstToMove' : m[2].name # BranchOf(source, m[1]).name
  BY <1>2, <1>8
<1>10. ASSUME NEW p \in DOMAIN fn.code[b], IsPhi(fn.code[b][p])
       PROVE  <<b, fn.code[b][p]>> \in InstToMove' \/ fn.code[b][p].name \in UnbreakablePHIs
  <2>1. CASE fn.code[b][p].name \notin TransitiveUses(fn.code[b])
    <3>1. fn.code[b][p] \in Range(fn.code[b])
      BY DEF Range
    <3> QED BY <1>2, <2>1, <3>1
  <2>2. CASE fn.code[b][p].name \in TransitiveUses(fn.code[b])
    <3> DEFINE c == source.code[b]  d == fn.code[b]
    <3>0. Made(c, d) /\ p \in DOMAIN d /\ IsPhi(d[p])
      BY <1>5, <1>10
    <3> HIDE DEF c, d
    <3>1. PICK q \in DOMAIN c : d[p] = c[q]
      BY ONLY <3>0, MadePhi
    <3> USE DEF c, d
    <3>2. fn.code[b][p].name \in Unbreakable(source, b)
      <4>1. source.code[b][q] \in {j \in Range(source.code[b]) : IsPhi(j)}
        BY <1>10, <3>1 DEF Range
      <4>2. fn.code[b][p].name \in {i.name : i \in {j \in Range(source.code[b]) : IsPhi(j)}}
        BY <3>1, <4>1
      <4> QED BY <1>7, <2>2, <4>2 DEF Unbreakable
    <3> QED BY <1>1, <1>4, <3>2
  <2> QED BY <2>1, <2>2
<1>11. ASSUME NEW c \in BBsCtrl(source) \ todo', NEW p \in DOMAIN fn.code[c], IsPhi(fn.code[c][p])
       PROVE  <<c, fn.code[c][p]>> \in InstToMove' \/ fn.code[c][p].name \in UnbreakablePHIs
  <2>1. CASE c = b
    BY <1>10, <1>11, <2>1
  <2>2. CASE c # b
    <3>1. c \in BBsCtrl(source) \ todo
      BY <1>2, <2>2
    <3> QED BY <1>1, <1>11, <3>1 DEF StaySinking
  <2> QED BY <2>1, <2>2
<1>12. todo' \subseteq BBsCtrl(source) /\ \A c \in Blocks(source) : InFront(fn.code[c])
  BY <1>1, <1>2 DEF StaySinking
<1>13. StaySinking'
  BY <1>3, <1>9, <1>11, <1>12 DEF StaySinking
<1> QED BY <1>1, <1>3, <1>13 DEF BreakInv

LEMMA MoveKeeps ==
  ASSUME BreakInv, MoveInst, pass # "context_spill"
  PROVE  BreakInv'
<1>1. /\ source \in Functions /\ MadeOf(source, fn) /\ StaySinking
      /\ UnbreakablePHIs = UNION {Unbreakable(source, b) : b \in BBsCtrl(source)}
      /\ stage = "sink"
  BY DEF BreakInv, MoveInst
<1>2. PICK b \in Blocks(fn) : \E p \in DOMAIN fn.code[b] :
        /\ <<b, fn.code[b][p]>> \in InstToMove
        /\ fn' = (IF IsPhi(fn.code[b][p]) THEN SinkPhi(fn, b, p)
                  ELSE [fn EXCEPT !.code[b] = BeforeBranch(RemoveAt(@, p), fn.code[b][p])])
        /\ InstToMove' = InstToMove \ {<<b, fn.code[b][p]>>}
  BY Zenon DEF MoveInst
<1>3. PICK p \in DOMAIN fn.code[b] :
        /\ <<b, fn.code[b][p]>> \in InstToMove
        /\ fn' = (IF IsPhi(fn.code[b][p]) THEN SinkPhi(fn, b, p)
                  ELSE [fn EXCEPT !.code[b] = BeforeBranch(RemoveAt(@, p), fn.code[b][p])])
        /\ InstToMove' = InstToMove \ {<<b, fn.code[b][p]>>}
  BY <1>2, Zenon
<1>4. /\ source' = source /\ pass' = pass /\ stage' = stage /\ todo' = todo
      /\ UnbreakablePHIs' = UnbreakablePHIs
  BY DEF MoveInst
<1>5. Blocks(fn) = Blocks(source)
  BY <1>1 DEF MadeOf
<1>6. p \in 1 .. Len(fn.code[b]) - 1
  <2>1. IsBlock(fn.code[b]) /\ BranchOf(fn, b) = BranchOf(source, b)
    BY <1>1, <1>5, MadeLast DEF BranchOf
  <2>2. fn.code[b][p].name # BranchOf(source, b).name
    BY <1>1, <1>3 DEF StaySinking
  <2>3. p # Len(fn.code[b])
    BY <2>1, <2>2 DEF BranchOf
  <2>4. Len(fn.code[b]) \in Nat /\ p \in 1 .. Len(fn.code[b])
    BY <2>1, BlockLength
  <2> QED BY ONLY <2>3, <2>4
<1>7. MadeOf(source, fn') /\ Sank(fn, fn', b, fn.code[b][p])
  <2>1. CASE IsPhi(fn.code[b][p])
    <3>1. fn' = SinkPhi(fn, b, p)
      BY <1>3, <2>1
    <3>2. MadeOf(source, SinkPhi(fn, b, p)) /\ Sank(fn, SinkPhi(fn, b, p), b, fn.code[b][p])
      BY <1>1, <1>6, <2>1, SinkPhiSinks
    <3> QED BY <3>1, <3>2
  <2>2. CASE ~IsPhi(fn.code[b][p])
    <3>1. fn' = [fn EXCEPT !.code[b] = BeforeBranch(RemoveAt(@, p), fn.code[b][p])]
      BY <1>3, <2>2
    <3> QED BY <1>1, <1>6, <2>2, <3>1, MoveSinks
  <2> QED BY <2>1, <2>2
<1>8. ASSUME NEW c \in BBsCtrl(source) \ todo, NEW r \in DOMAIN fn'.code[c], IsPhi(fn'.code[c][r])
      PROVE  <<c, fn'.code[c][r]>> \in InstToMove' \/ fn'.code[c][r].name \in UnbreakablePHIs
  <2>1. c \in Blocks(fn)
    BY <1>5 DEF BBsCtrl
  <2>2. <<c, fn'.code[c][r]>> # <<b, fn.code[b][p]>>
    BY <1>7, <1>8, <2>1 DEF Sank
  <2>3. PICK q \in DOMAIN fn.code[c] : fn'.code[c][r] = fn.code[c][q]
    BY <1>7, <1>8, <2>1 DEF Sank
  <2>4. <<c, fn.code[c][q]>> \in InstToMove \/ fn.code[c][q].name \in UnbreakablePHIs
    BY <1>1, <1>8, <2>3 DEF StaySinking
  <2> QED BY <1>3, <2>2, <2>3, <2>4
<1>9. \A c \in Blocks(source) : InFront(fn'.code[c])
  BY <1>1, <1>5, <1>7 DEF StaySinking, Sank
<1>10. \A m \in InstToMove' : m[2].name # BranchOf(source, m[1]).name
  BY <1>1, <1>3 DEF StaySinking
<1>11. StaySinking'
  BY <1>1, <1>4, <1>8, <1>9, <1>10 DEF StaySinking
<1> QED BY <1>1, <1>4, <1>7, <1>11 DEF BreakInv

LEMMA FindKeeps ==
  ASSUME BreakInv, FindBreakable, pass # "context_spill"
  PROVE  BreakInv'
<1>1. /\ source \in Functions /\ MadeOf(source, fn) /\ StaySinking
      /\ UnbreakablePHIs = UNION {Unbreakable(source, b) : b \in BBsCtrl(source)}
      /\ stage = "sink" /\ todo = {} /\ InstToMove = {}
  BY DEF BreakInv, FindBreakable
<1>2. /\ todo' = {i.name : i \in {j \in Instructions(fn) : IsPhi(j)}} \ UnbreakablePHIs
      /\ source' = source /\ fn' = fn /\ pass' = pass /\ stage' = "break"
      /\ UnbreakablePHIs' = UnbreakablePHIs
  BY DEF FindBreakable
<1>3. Blocks(fn) = Blocks(source)
  BY <1>1 DEF MadeOf
<1>4. ASSUME NEW b \in Blocks(source), NEW p \in DOMAIN fn.code[b], IsPhi(fn.code[b][p])
      PROVE  fn.code[b][p].name \in UnbreakablePHIs \cup todo'
  <2>1. fn.code[b][p] \in Instructions(fn)
    BY <1>3 DEF Instructions, Range
  <2> QED BY <1>2, <1>4, <2>1
<1>5. \A x \in todo' : HasPhi(fn, x)
  BY <1>2 DEF HasPhi, Instructions, Range
<1>6. ASSUME NEW b \in BBsCtrl(source)
      PROVE  /\ InFront(fn.code[b])
             /\ \A p \in DOMAIN fn.code[b] :
                  IsPhi(fn.code[b][p]) => fn.code[b][p].name \in UnbreakablePHIs
  BY <1>1 DEF StaySinking, BBsCtrl
<1>7. StayBreaking'
  BY <1>2, <1>4, <1>5, <1>6 DEF StayBreaking
<1> QED BY <1>1, <1>2, <1>7 DEF BreakInv

LEMMA BreakKeeps ==
  ASSUME BreakInv, BreakPhi2Alloca, pass # "context_spill"
  PROVE  BreakInv'
<1>1. /\ source \in Functions /\ MadeOf(source, fn) /\ StayBreaking
      /\ UnbreakablePHIs = UNION {Unbreakable(source, b) : b \in BBsCtrl(source)}
      /\ stage = "break"
  BY DEF BreakInv, BreakPhi2Alloca
<1>2. PICK x \in todo : fn' = BreakPhi(fn, x) /\ todo' = todo \ {x}
  BY DEF BreakPhi2Alloca
<1>3. /\ source' = source /\ pass' = pass /\ stage' = stage
      /\ UnbreakablePHIs' = UnbreakablePHIs
  BY DEF BreakPhi2Alloca
<1>4. Blocks(fn) = Blocks(source)
  BY <1>1 DEF MadeOf
<1>5. HasPhi(fn, x) /\ x \notin UnbreakablePHIs
  BY <1>1 DEF StayBreaking
<1>6. MadeOf(source, fn')
  BY <1>1, <1>2, <1>5, BreakPhiBreaks
<1>7. ASSUME NEW c \in Blocks(fn), NEW r \in DOMAIN fn'.code[c], IsPhi(fn'.code[c][r])
      PROVE  fn'.code[c][r].name # x /\ \E q \in DOMAIN fn.code[c] : fn'.code[c][r] = fn.code[c][q]
  <2>1. \A d \in Blocks(fn) : \A s \in DOMAIN BreakPhi(fn, x).code[d] :
          IsPhi(BreakPhi(fn, x).code[d][s]) =>
            /\ BreakPhi(fn, x).code[d][s].name # x
            /\ \E q \in DOMAIN fn.code[d] : BreakPhi(fn, x).code[d][s] = fn.code[d][q]
    BY <1>1, <1>5, BreakPhiBreaks
  <2> QED BY <1>2, <1>7, <2>1
<1>8. ASSUME NEW b \in Blocks(source), NEW p \in DOMAIN fn'.code[b], IsPhi(fn'.code[b][p])
      PROVE  fn'.code[b][p].name \in UnbreakablePHIs \cup todo'
  <2>1. fn'.code[b][p].name # x
    BY <1>4, <1>7, <1>8
  <2>2. PICK q \in DOMAIN fn.code[b] : fn'.code[b][p] = fn.code[b][q]
    BY <1>4, <1>7, <1>8
  <2>3. fn.code[b][q].name \in UnbreakablePHIs \cup todo
    BY <1>1, <1>8, <2>2 DEF StayBreaking
  <2> QED BY <1>2, <2>1, <2>2, <2>3
<1>9. ASSUME NEW y \in todo' PROVE HasPhi(fn', y)
  <2>1. HasPhi(fn, y) /\ y # x
    BY <1>1, <1>2 DEF StayBreaking
  <2>2. HasPhi(BreakPhi(fn, x), y)
    BY <1>1, <1>5, <2>1, BreakPhiBreaks
  <2> QED BY <1>2, <2>2
<1>10. ASSUME NEW b \in BBsCtrl(source)
       PROVE  /\ InFront(fn'.code[b])
              /\ \A p \in DOMAIN fn'.code[b] :
                   IsPhi(fn'.code[b][p]) => fn'.code[b][p].name \in UnbreakablePHIs
  <2>1. b \in Blocks(fn)
    BY <1>4 DEF BBsCtrl
  <2>2. /\ InFront(fn.code[b])
        /\ \A p \in DOMAIN fn.code[b] :
             IsPhi(fn.code[b][p]) => fn.code[b][p].name \in UnbreakablePHIs
    BY <1>1 DEF StayBreaking
  <2>3. \A q \in DOMAIN fn.code[b] : ~(IsPhi(fn.code[b][q]) /\ fn.code[b][q].name = x)
    BY <1>5, <2>2
  <2>4. InFront(BreakPhi(fn, x).code[b])
    BY <1>1, <1>5, <2>1, <2>2, <2>3, BreakPhiBreaks
  <2>5. ASSUME NEW p \in DOMAIN fn'.code[b], IsPhi(fn'.code[b][p])
        PROVE  fn'.code[b][p].name \in UnbreakablePHIs
    BY <1>7, <2>1, <2>2, <2>5
  <2> QED BY <1>2, <2>4, <2>5
<1>11. todo' \cap UnbreakablePHIs = {} /\ stage' = "break"
  BY <1>1, <1>2, <1>3 DEF StayBreaking
<1>12. StayBreaking'
  BY <1>3, <1>8, <1>9, <1>10, <1>11 DEF StayBreaking
<1> QED BY <1>1, <1>3, <1>6, <1>12 DEF BreakInv

LEMMA BreakNext == BreakInv /\ [Next]_vars => BreakInv'
<1> SUFFICES ASSUME BreakInv, [Next]_vars, pass' # "context_spill" PROVE BreakInv'
  BY DEF BreakInv
<1>1. ASSUME UNCHANGED passVars PROVE BreakInv'
  BY <1>1 DEF BreakInv, StaySinking, StayBreaking, passVars
<1>2. ASSUME pass # "context_spill"
      PROVE  ~FindEscaped /\ ~SpillValue /\ ~FindPhis /\ ~SpillPhi /\ ~Spilled
  BY <1>2 DEF BreakInv, FindEscaped, SpillValue, FindPhis, SpillPhi, Spilled
<1>3. CASE CollectUnbreakablePHIs
  <2>1. pass # "context_spill"
    BY <1>3 DEF CollectUnbreakablePHIs
  <2> QED BY <1>3, <2>1, CollectKeeps
<1>4. CASE SinkController
  <2>1. pass # "context_spill"
    BY <1>4 DEF SinkController
  <2> QED BY <1>4, <2>1, ControllerKeeps
<1>5. CASE MoveInst
  <2>1. pass # "context_spill"
    BY <1>5 DEF MoveInst
  <2> QED BY <1>5, <2>1, MoveKeeps
<1>6. CASE FindBreakable
  <2>1. pass # "context_spill"
    BY <1>6 DEF FindBreakable
  <2> QED BY <1>6, <2>1, FindKeeps
<1>7. CASE BreakPhi2Alloca
  <2>1. pass # "context_spill"
    BY <1>7 DEF BreakPhi2Alloca
  <2> QED BY <1>7, <2>1, BreakKeeps
<1>8. CASE PhisBroken \/ Start
  <2>1. /\ pass # "context_spill" /\ stage \in {"break", "done"} /\ stage' \in {"done", "run"}
        /\ todo = {} \/ stage # "break"
    BY <1>8 DEF PhisBroken, Start
  <2>2. /\ source' = source /\ fn' = fn /\ todo' = todo
        /\ UnbreakablePHIs' = UnbreakablePHIs
    BY <1>8 DEF PhisBroken, Start
  <2>3. /\ source \in Functions /\ MadeOf(source, fn) /\ StayBreaking
        /\ UnbreakablePHIs = UNION {Unbreakable(source, b) : b \in BBsCtrl(source)}
    BY <2>1 DEF BreakInv
  <2>4. StayBreaking'
    BY <2>1, <2>2, <2>3 DEF StayBreaking
  <2> QED BY <2>1, <2>2, <2>3, <2>4 DEF BreakInv
<1>9. CASE FindEscaped \/ SpillValue \/ FindPhis \/ SpillPhi \/ Spilled
  <2>1. pass # "context_spill"
    BY <1>9 DEF FindEscaped, SpillValue, FindPhis, SpillPhi, Spilled
  <2> QED BY <1>2, <1>9, <2>1
<1>10. CASE (\E w \in WorkItems : RunBlock(w)) \/ Returned \/ UNCHANGED vars
  BY <1>1, <1>10 DEF RunBlock, Returned, vars
<1> QED BY <1>3, <1>4, <1>5, <1>6, <1>7, <1>8, <1>9, <1>10 DEF Next

\* break_phi_to_alloca.cpp:243-256: the PHIs that are left are among those
\* found first, though what a branch hangs on is looked for again while other
\* blocks are sunk; and none is behind the load of a broken one.
THEOREM BrokenPhisInFront == Spec => []PhisInFront
<1>1. SpillInv /\ BreakInv => PhisInFront
  <2> SUFFICES ASSUME SpillInv, BreakInv, stage \in {"done", "run"},
                      NEW b \in Blocks(fn), NEW p \in DOMAIN fn.code[b], IsPhi(fn.code[b][p])
               PROVE  /\ fn.code[b][p].name \in UnbreakablePHIs
                      /\ \A q \in 1 .. p : IsPhi(fn.code[b][q])
    BY DEF PhisInFront
  <2>1. pass # "context_spill"
    BY DEF SpillInv, HasPhi
  <2>2. /\ source \in Functions /\ MadeOf(source, fn) /\ StayBreaking
        /\ UnbreakablePHIs = UNION {Unbreakable(source, c) : c \in BBsCtrl(source)}
    BY <2>1 DEF BreakInv
  <2>3. b \in Blocks(source) /\ Made(source.code[b], fn.code[b])
    BY <2>2 DEF MadeOf
  <2>4. fn.code[b][p].name \in UnbreakablePHIs
    BY <2>2, <2>3 DEF StayBreaking
  <2>5. PICK c \in BBsCtrl(source) : fn.code[b][p].name \in Unbreakable(source, c)
    BY <2>2, <2>4
  <2>6. c \in Blocks(source) /\ \E q \in DOMAIN source.code[c] :
          source.code[c][q].name = fn.code[b][p].name
    BY <2>5 DEF Unbreakable, BBsCtrl, Range
  <2>7. PICK q \in DOMAIN source.code[b] : fn.code[b][p] = source.code[b][q]
    BY <2>3, MadePhi
  <2>8. b = c
    BY <2>2, <2>3, <2>6, <2>7, SameName
  <2>9. InFront(fn.code[b])
    BY <2>2, <2>8 DEF StayBreaking
  <2>10. \A k \in 1 .. p : k = p \/ k \in 1 .. p - 1
    <3>1. p \in 1 .. Len(fn.code[b]) /\ Len(fn.code[b]) \in Nat
      BY <2>3, BlockLength DEF Made
    <3> QED BY <3>1
  <2> QED BY <2>4, <2>9, <2>10 DEF InFront
<1> QED BY <1>1, SpillInit, SpillNext, BreakInit, BreakNext, PTL DEF Spec

=============================================================================
