---------------------------- MODULE LedgerProofs ----------------------------
(***************************************************************************)
(* BlockCanonization implements ReplicatedLedger: the inductive invariant  *)
(* that ties every queue of a node to a position of the raft log, and the  *)
(* theorems that follow from it.                                           *)
(***************************************************************************)
EXTENDS BlockCanonizationProofs

-----------------------------------------------------------------------------
(* Positions of the raft log *)

At(lg, k) == IF k = 0 THEN Genesis ELSE lg[k]

\* Block b is one of the first a canonized blocks, or genesis.
Known(lg, a, b) == Len(b) <= a /\ b = At(lg, Len(b))

\* The canonized blocks are numbered from 1 and each extends the previous one.
Chained(lg) == \A i \in 1 .. Len(lg) : Len(lg[i]) = i /\ Extends(At(lg, i - 1), lg[i])

Follows(lg, b) == Len(b) = Len(lg) + 1 /\ Extends(At(lg, Len(lg)), b)

\* The queue q is the part of lg that follows position p.
Slice(lg, p, q) == \A i \in 1 .. Len(q) : q[i] = lg[p + i]

Entry(lg, k, b) == k \in 1 .. Len(lg) /\ b = lg[k]

Recorded(a, ra) == \A k \in 1 .. a : ra[k] = k

\* A node that has applied a entries of lg: the WAL w is a prefix of them, the
\* canonizer's queue rx and the source's queue rp are the last ones, in order.
Aligned(lg, w, a, ra, rx, rp) ==
    /\ Len(w) <= a /\ a <= Len(lg) /\ Len(rx) + Len(rp) <= a
    /\ Recorded(a, ra)
    /\ Slice(lg, 0, w)
    /\ Slice(lg, a - Len(rx), rx)
    /\ Slice(lg, a - Len(rx) - Len(rp), rp)

LEMMA SeqLen ==
  ASSUME NEW S, NEW s \in Seq(S)
  PROVE  Len(s) \in Nat
  OBVIOUS

LEMMA SliceAppend ==
  ASSUME NEW lg \in Seq(Block), NEW p \in Nat, NEW q \in Seq(Block), NEW b \in Block,
         Slice(lg, p, q), b = lg[p + Len(q) + 1]
  PROVE  Append(q, b) \in Seq(Block) /\ Slice(lg, p, Append(q, b))
<1> DEFINE t == Append(q, b)
<1>1. /\ Len(q) \in Nat /\ t \in Seq(Block) /\ Len(t) = Len(q) + 1 /\ t[Len(q) + 1] = b
      /\ \A i \in 1 .. Len(q) : t[i] = q[i]
  OBVIOUS
<1> HIDE DEF t
<1>2. \A i \in 1 .. Len(t) : t[i] = lg[p + i]
  <2> TAKE i \in 1 .. Len(t)
  <2>1. CASE i \in 1 .. Len(q)
    BY <1>1, <2>1, Zenon DEF Slice
  <2>2. CASE i = Len(q) + 1
    <3>1. p + i = p + Len(q) + 1
      BY <1>1, <2>2
    <3> QED
      BY <1>1, <2>2, <3>1, Zenon
  <2> QED
    BY <1>1, <2>1, <2>2
<1> QED
  BY <1>1, <1>2, Zenon DEF Slice, t

LEMMA SliceTail ==
  ASSUME NEW lg \in Seq(Block), NEW p \in Nat, NEW q \in Seq(Block),
         Slice(lg, p, q), q # << >>
  PROVE  /\ Tail(q) \in Seq(Block) /\ Len(q) > 0 /\ Len(Tail(q)) = Len(q) - 1
         /\ Head(q) = lg[p + 1] /\ Head(q) \in Block /\ q[1] = Head(q)
         /\ Slice(lg, p + 1, Tail(q))
<1> DEFINE t == Tail(q)
<1>1. /\ Len(q) \in Nat \ {0} /\ t \in Seq(Block) /\ Len(t) = Len(q) - 1
      /\ Head(q) = q[1] /\ q[1] \in Block
      /\ \A i \in 1 .. Len(t) : t[i] = q[i + 1]
  OBVIOUS
<1> HIDE DEF t
<1>2. \A i \in 1 .. Len(t) : i + 1 \in 1 .. Len(q) /\ p + (i + 1) = p + 1 + i
  BY <1>1
<1>3. 1 \in 1 .. Len(q)
  BY <1>1
<1>4. Slice(lg, p + 1, t)
  BY <1>1, <1>2, Zenon DEF Slice
<1>5. q[1] = lg[p + 1]
  BY <1>3, Zenon DEF Slice
<1> QED
  BY <1>1, <1>4, <1>5 DEF t

LEMMA SliceExtend ==
  ASSUME NEW lg \in Seq(Block), NEW tl \in Seq(Block), NEW p \in Nat, NEW q \in Seq(Block),
         Slice(lg, p, q), p + Len(q) <= Len(lg)
  PROVE  Slice(lg \o tl, p, q)
<1> DEFINE l2 == lg \o tl
<1>1. Len(q) \in Nat /\ Len(lg) \in Nat /\ \A i \in 1 .. Len(lg) : l2[i] = lg[i]
  OBVIOUS
<1> HIDE DEF l2
<1>2. \A i \in 1 .. Len(q) : p + i \in 1 .. Len(lg)
  BY <1>1
<1>3. Slice(l2, p, q)
  BY <1>1, <1>2, Zenon DEF Slice
<1> QED
  BY <1>3, Zenon DEF l2

LEMMA SliceEmpty ==
  ASSUME NEW lg, NEW p
  PROVE  Slice(lg, p, << >>)
  BY DEF Slice

LEMMA AlignedBounds ==
  ASSUME NEW lg, NEW w, NEW a, NEW ra, NEW rx, NEW rp, Aligned(lg, w, a, ra, rx, rp)
  PROVE  Len(w) <= a /\ a <= Len(lg) /\ Len(rx) + Len(rp) <= a
  BY Zenon DEF Aligned

LEMMA AlignedApply ==
  ASSUME NEW lg, NEW w, NEW a, NEW ra, NEW rx, NEW rp, Aligned(lg, w, a, ra, rx, rp),
         lg \in Seq(Block), w \in Seq(Block), a \in Nat, ra \in [1 .. MaxLog -> Nat],
         rx \in Seq(Block), rp \in Seq(Block), a < Len(lg), a + 1 <= MaxLog
  PROVE  Aligned(lg, w, a + 1, [ra EXCEPT ![a + 1] = a + 1], Append(rx, lg[a + 1]), rp)
<1> DEFINE x == lg[a + 1]
           t == Append(rx, x)
           rb == [ra EXCEPT ![a + 1] = a + 1]
<1>1. /\ Len(lg) \in Nat /\ Len(w) \in Nat /\ Len(rx) \in Nat /\ Len(rp) \in Nat
      /\ MaxLog \in Nat /\ x \in Block /\ Len(t) = Len(rx) + 1
  BY MaxLogAssumption
<1>2. Recorded(a + 1, rb)
  <2>1. \A k \in 1 .. a + 1 : k \in 1 .. MaxLog /\ (k = a + 1 \/ k \in 1 .. a)
    BY <1>1
  <2>2. Recorded(a, ra)
    BY Zenon DEF Aligned
  <2> QED
    BY <2>1, <2>2 DEF Recorded
<1>3. Slice(lg, a - Len(rx), rx) /\ Slice(lg, a - Len(rx) - Len(rp), rp) /\ Slice(lg, 0, w)
  BY Zenon DEF Aligned
<1>4. Len(w) <= a /\ a <= Len(lg) /\ Len(rx) + Len(rp) <= a
  BY Zenon DEF Aligned
<1> HIDE DEF t, rb, x
<1>5. /\ a - Len(rx) \in Nat /\ a - Len(rx) + Len(rx) + 1 = a + 1
      /\ (a + 1) - Len(t) = a - Len(rx) /\ (a + 1) - Len(t) - Len(rp) = a - Len(rx) - Len(rp)
      /\ Len(w) <= a + 1 /\ a + 1 <= Len(lg) /\ Len(t) + Len(rp) <= a + 1
  BY <1>1, <1>4
<1>6. x = lg[a - Len(rx) + Len(rx) + 1]
  BY <1>5, Zenon DEF x
<1>7. Slice(lg, a - Len(rx), t)
  BY <1>1, <1>3, <1>5, <1>6, SliceAppend, Zenon DEF t
<1>8. /\ Slice(lg, (a + 1) - Len(t), t)
      /\ Slice(lg, (a + 1) - Len(t) - Len(rp), rp)
  BY <1>3, <1>5, <1>7, Zenon
<1>9. Aligned(lg, w, a + 1, rb, t, rp)
  BY <1>2, <1>3, <1>5, <1>8, Zenon DEF Aligned
<1> QED
  BY <1>9, Zenon DEF t, rb, x

LEMMA AlignedForward ==
  ASSUME NEW lg, NEW w, NEW a, NEW ra, NEW rx, NEW rp, Aligned(lg, w, a, ra, rx, rp),
         lg \in Seq(Block), w \in Seq(Block), a \in Nat,
         rx \in Seq(Block), rp \in Seq(Block), rx # << >>,
         NEW t, t = Tail(rx), NEW u, u = Append(rp, Head(rx))
  PROVE  /\ Aligned(lg, w, a, ra, t, u)
         /\ Len(t) = Len(rx) - 1 /\ Len(u) = Len(rp) + 1
<1> DEFINE p == a - Len(rx)
           r == a - Len(rx) - Len(rp)
<1>1. Len(lg) \in Nat /\ Len(w) \in Nat /\ Len(rx) \in Nat /\ Len(rp) \in Nat
  BY SeqLen, Zenon
<1>2. /\ Slice(lg, p, rx) /\ Slice(lg, r, rp) /\ Slice(lg, 0, w)
      /\ Len(w) <= a /\ a <= Len(lg) /\ Len(rx) + Len(rp) <= a /\ Recorded(a, ra)
  BY Zenon DEF Aligned
<1>3. p \in Nat /\ r \in Nat
  BY <1>1, <1>2
<1>4. /\ Len(t) = Len(rx) - 1 /\ Head(rx) = lg[p + 1] /\ Head(rx) \in Block
      /\ Slice(lg, p + 1, t)
  BY <1>2, <1>3, SliceTail, Zenon
<1>5. r + Len(rp) + 1 = p + 1
  BY <1>1
<1>6. Slice(lg, r, u)
  <2> HIDE DEF p, r
  <2>1. Head(rx) = lg[r + Len(rp) + 1]
    BY <1>4, <1>5, Zenon
  <2> QED
    BY <1>2, <1>3, <1>4, <2>1, SliceAppend, Zenon
<1>7. Len(u) = Len(rp) + 1
  BY <1>4
<1>8. a - Len(t) = p + 1 /\ a - Len(t) - Len(u) = r /\ Len(t) + Len(u) <= a
  BY <1>1, <1>2, <1>4, <1>7
<1> HIDE DEF p, r
<1>9. Slice(lg, a - Len(t), t) /\ Slice(lg, a - Len(t) - Len(u), u)
  BY <1>4, <1>6, <1>8, Zenon
<1>10. Aligned(lg, w, a, ra, t, u)
  BY <1>2, <1>8, <1>9, Zenon DEF Aligned
<1> QED
  BY <1>4, <1>7, <1>10, Zenon

LEMMA NextCanonized ==
  ASSUME NEW lg, NEW w, NEW a, NEW ra, NEW rx, NEW rp, Aligned(lg, w, a, ra, rx, rp),
         lg \in Seq(Block), a \in Nat, rx \in Seq(Block), rp \in Seq(Block), rx # << >>
  PROVE  /\ Entry(lg, a - Len(rx) + 1, Head(rx)) /\ a - Len(rx) + 1 <= a
         /\ rx[1] = Head(rx)
<1> DEFINE r == a - Len(rx)
<1>1. Len(rx) \in Nat /\ Len(lg) \in Nat /\ Len(rp) \in Nat
  BY SeqLen, Zenon
<1>2. Slice(lg, r, rx) /\ Len(rx) + Len(rp) <= a /\ a <= Len(lg)
  BY Zenon DEF Aligned
<1>3. r \in Nat
  BY <1>1, <1>2
<1>4. Len(rx) > 0 /\ Head(rx) = lg[r + 1] /\ rx[1] = Head(rx)
  <2> HIDE DEF r
  <2> QED
    BY <1>2, <1>3, SliceTail, Zenon
<1>5. r + 1 \in 1 .. Len(lg) /\ r + 1 <= a
  BY <1>1, <1>2, <1>4
<1> QED
  BY <1>4, <1>5, Zenon DEF Entry

LEMMA AlignedTake ==
  ASSUME NEW lg, NEW w, NEW a, NEW ra, NEW rx, NEW rp, Aligned(lg, w, a, ra, rx, rp),
         lg \in Seq(Block), w \in Seq(Block), a \in Nat,
         rx \in Seq(Block), rp = << >>, rx # << >>, NEW t, t = Tail(rx)
  PROVE  Aligned(lg, w, a, ra, t, rp)
<1> DEFINE p == a - Len(rx)
<1>1. Len(lg) \in Nat /\ Len(w) \in Nat /\ Len(rx) \in Nat /\ Len(rp) = 0
  BY SeqLen
<1>2. /\ Slice(lg, p, rx) /\ Slice(lg, 0, w)
      /\ Len(w) <= a /\ a <= Len(lg) /\ Len(rx) + Len(rp) <= a /\ Recorded(a, ra)
  BY Zenon DEF Aligned
<1>3. p \in Nat
  BY <1>1, <1>2
<1>4. Len(rx) > 0 /\ Len(t) = Len(rx) - 1 /\ Slice(lg, p + 1, t)
  BY <1>2, <1>3, SliceTail, Zenon
<1>5. a - Len(t) = p + 1 /\ Len(t) + Len(rp) <= a
  BY <1>1, <1>2, <1>4
<1>6. Slice(lg, a - Len(t), t) /\ Slice(lg, a - Len(t) - Len(rp), rp)
  BY <1>4, <1>5, SliceEmpty, Zenon
<1> QED
  BY <1>2, <1>5, <1>6, Zenon DEF Aligned

LEMMA AlignedReplay ==
  ASSUME NEW lg, NEW w, NEW a, NEW ra, NEW rx, NEW rp, Aligned(lg, w, a, ra, rx, rp),
         lg \in Seq(Block), w \in Seq(Block), a \in Nat,
         rx \in Seq(Block), rp \in Seq(Block), rp # << >>, NEW t, t = Tail(rp)
  PROVE  /\ Aligned(lg, w, a, ra, rx, t) /\ Len(t) = Len(rp) - 1
         /\ Head(rp) = lg[a - Len(rx) - Len(rp) + 1]
         /\ a - Len(rx) - Len(rp) + 1 \in 1 .. a
<1> DEFINE r == a - Len(rx) - Len(rp)
<1>1. Len(lg) \in Nat /\ Len(w) \in Nat /\ Len(rx) \in Nat /\ Len(rp) \in Nat
  BY SeqLen, Zenon
<1>2. /\ Slice(lg, a - Len(rx), rx) /\ Slice(lg, r, rp) /\ Slice(lg, 0, w)
      /\ Len(w) <= a /\ a <= Len(lg) /\ Len(rx) + Len(rp) <= a /\ Recorded(a, ra)
  BY Zenon DEF Aligned
<1>3. r \in Nat
  BY <1>1, <1>2
<1>4. /\ Len(rp) > 0 /\ Len(t) = Len(rp) - 1 /\ Head(rp) = lg[r + 1]
      /\ Slice(lg, r + 1, t)
  <2> HIDE DEF r
  <2> QED
    BY <1>2, <1>3, SliceTail, Zenon
<1>5. a - Len(rx) - Len(t) = r + 1 /\ Len(rx) + Len(t) <= a /\ r + 1 \in 1 .. a
  BY <1>1, <1>2, <1>4
<1>6. Slice(lg, a - Len(rx) - Len(t), t)
  BY <1>4, <1>5, Zenon
<1>7. Aligned(lg, w, a, ra, rx, t)
  BY <1>2, <1>5, <1>6, Zenon DEF Aligned
<1> QED
  BY <1>4, <1>5, <1>7, Zenon

LEMMA NextReplay ==
  ASSUME NEW lg, NEW w, NEW a, NEW ra, NEW rx, NEW rp, Aligned(lg, w, a, ra, rx, rp),
         lg \in Seq(Block), a \in Nat, rx \in Seq(Block), rp \in Seq(Block), rp # << >>
  PROVE  /\ Entry(lg, a - Len(rx) - Len(rp) + 1, Head(rp))
         /\ a - Len(rx) - Len(rp) + 1 <= a
<1> DEFINE r == a - Len(rx) - Len(rp)
<1>1. Len(rx) \in Nat /\ Len(rp) \in Nat /\ Len(lg) \in Nat
  BY SeqLen, Zenon
<1>2. Slice(lg, r, rp) /\ Len(rx) + Len(rp) <= a /\ a <= Len(lg)
  BY Zenon DEF Aligned
<1>3. r \in Nat
  BY <1>1, <1>2
<1>4. Len(rp) > 0 /\ Head(rp) = lg[r + 1]
  <2> HIDE DEF r
  <2> QED
    BY <1>2, <1>3, SliceTail, Zenon
<1>5. r + 1 \in 1 .. Len(lg) /\ r + 1 <= a
  BY <1>1, <1>2, <1>4
<1> QED
  BY <1>4, <1>5, Zenon DEF Entry

LEMMA AlignedPersist ==
  ASSUME NEW lg, NEW w, NEW a, NEW ra, NEW rx, NEW rp, Aligned(lg, w, a, ra, rx, rp),
         lg \in Seq(Block), w \in Seq(Block), a \in Nat,
         rx \in Seq(Block), rp \in Seq(Block), Len(w) < a,
         NEW b \in Block, b = lg[Len(w) + 1]
  PROVE  Aligned(lg, Append(w, b), a, ra, rx, rp) /\ Len(Append(w, b)) = Len(w) + 1
<1> DEFINE t == Append(w, b)
<1>1. Len(w) \in Nat /\ Len(t) = Len(w) + 1 /\ 0 \in Nat /\ 0 + Len(w) + 1 = Len(w) + 1
  BY SeqLen
<1>2. Slice(lg, 0, w)
  BY Zenon DEF Aligned
<1>3. Slice(lg, 0, t)
  BY <1>1, <1>2, SliceAppend, Zenon
<1> HIDE DEF t
<1>4. Len(t) <= a
  BY <1>1
<1>5. Aligned(lg, t, a, ra, rx, rp)
  BY <1>3, <1>4, Zenon DEF Aligned
<1> QED
  BY <1>1, <1>5, Zenon DEF t

LEMMA AlignedCommit ==
  ASSUME NEW lg, NEW w, NEW a, NEW ra, NEW rx, NEW rp, Aligned(lg, w, a, ra, rx, rp),
         lg \in Seq(Block), w \in Seq(Block), a \in Nat,
         rx \in Seq(Block), rp \in Seq(Block), NEW tl \in Seq(Block)
  PROVE  Aligned(lg \o tl, w, a, ra, rx, rp)
<1>1. Len(lg) \in Nat /\ Len(w) \in Nat /\ Len(rx) \in Nat /\ Len(rp) \in Nat
  BY SeqLen, Zenon
<1>2. /\ Slice(lg, a - Len(rx), rx) /\ Slice(lg, a - Len(rx) - Len(rp), rp) /\ Slice(lg, 0, w)
      /\ Len(w) <= a /\ a <= Len(lg) /\ Len(rx) + Len(rp) <= a /\ Recorded(a, ra)
  BY Zenon DEF Aligned
<1>3. /\ a - Len(rx) \in Nat /\ a - Len(rx) - Len(rp) \in Nat /\ 0 \in Nat
      /\ a - Len(rx) + Len(rx) <= Len(lg) /\ a - Len(rx) - Len(rp) + Len(rp) <= Len(lg)
      /\ 0 + Len(w) <= Len(lg)
  BY <1>1, <1>2
<1>4. /\ Slice(lg \o tl, a - Len(rx), rx) /\ Slice(lg \o tl, a - Len(rx) - Len(rp), rp)
      /\ Slice(lg \o tl, 0, w)
  BY <1>2, <1>3, SliceExtend, Zenon
<1>5. a <= Len(lg \o tl)
  BY <1>1, <1>2
<1> QED
  BY <1>2, <1>4, <1>5, Zenon DEF Aligned

LEMMA AlignedRestart ==
  ASSUME NEW lg, NEW w, NEW a, NEW ra, NEW rx, NEW rp, Aligned(lg, w, a, ra, rx, rp),
         lg \in Seq(Block), w \in Seq(Block), a \in Nat
  PROVE  /\ Aligned(lg, w, Len(w), ra, << >>, << >>)
         /\ w # << >> => ra[Len(w)] = Len(w)
<1>1. Len(lg) \in Nat /\ Len(w) \in Nat /\ (w # << >> => Len(w) > 0) /\ Len(<< >>) = 0
  BY SeqLen
<1>2. Slice(lg, 0, w) /\ Len(w) <= a /\ a <= Len(lg) /\ Recorded(a, ra)
  BY Zenon DEF Aligned
<1>3. Recorded(Len(w), ra) /\ (w # << >> => ra[Len(w)] = Len(w))
  BY <1>1, <1>2 DEF Recorded
<1>4. Len(w) <= Len(w) /\ Len(w) <= Len(lg) /\ Len(<< >>) + Len(<< >>) <= Len(w)
  BY <1>1, <1>2
<1> QED
  BY <1>2, <1>3, <1>4, SliceEmpty, Zenon DEF Aligned

-----------------------------------------------------------------------------
(* Blocks that are known to be canonized *)

LEMMA BlockLen ==
  ASSUME NEW b \in Block
  PROVE  Len(b) \in Nat /\ Len(b) <= MaxLog /\ b # NoBlock /\ (b # Genesis => Len(b) > 0)
<1>1. b \in Seq(Payloads) /\ Len(b) <= MaxLog
  BY Zenon DEF Block
<1>2. Len(b) \in Nat /\ (b # << >> => Len(b) > 0)
  BY <1>1
<1>3. b # NoBlock
  BY <1>1, NoBlockAssumption, Zenon
<1> QED
  BY <1>1, <1>2, <1>3, Zenon DEF Genesis

LEMMA GenesisLen == Genesis \in Block /\ Len(Genesis) = 0
  BY MaxLogAssumption DEF Genesis, Block

LEMMA AtLen ==
  ASSUME NEW lg \in Seq(Block), Chained(lg), NEW k \in Nat, k <= Len(lg)
  PROVE  At(lg, k) \in Block /\ Len(At(lg, k)) = k
<1>1. CASE k = 0
  BY <1>1, GenesisLen, Zenon DEF At
<1>2. CASE k # 0
  <2>1. Len(lg) \in Nat /\ k \in 1 .. Len(lg)
    BY <1>2, SeqLen
  <2>2. lg[k] \in Block
    BY <2>1
  <2>3. Len(lg[k]) = k
    BY <2>1, Zenon DEF Chained
  <2> QED
    BY <1>2, <2>2, <2>3, Zenon DEF At
<1> QED
  BY <1>1, <1>2, Zenon

LEMMA KnownAt ==
  ASSUME NEW lg \in Seq(Block), Chained(lg), NEW a \in Nat, a <= Len(lg),
         NEW k \in Nat, k <= a
  PROVE  At(lg, k) \in Block /\ Len(At(lg, k)) = k /\ Known(lg, a, At(lg, k))
<1>1. k <= Len(lg)
  BY SeqLen
<1> QED
  BY <1>1, AtLen, Zenon DEF Known

LEMMA EntryKnown ==
  ASSUME NEW lg, NEW k, NEW b, Entry(lg, k, b), lg \in Seq(Block), Chained(lg),
         NEW a \in Nat, a <= Len(lg), k <= a
  PROVE  b \in Block /\ Len(b) = k /\ Known(lg, a, b)
<1>1. k \in 1 .. Len(lg) /\ b = lg[k] /\ Len(lg) \in Nat
  BY SeqLen, Zenon DEF Entry
<1>2. k \in Nat /\ k # 0
  BY <1>1
<1> QED
  BY <1>1, <1>2, KnownAt, Zenon DEF At

LEMMA KnownMore ==
  ASSUME NEW lg, NEW a \in Nat, NEW c \in Nat, NEW b \in Block, a <= c, Known(lg, a, b)
  PROVE  Known(lg, c, b)
<1>1. Len(b) <= c
  BY BlockLen DEF Known
<1> QED
  BY <1>1, Zenon DEF Known

LEMMA AtExtend ==
  ASSUME NEW lg \in Seq(Block), NEW tl \in Seq(Block), NEW k \in Nat, k <= Len(lg)
  PROVE  At(lg \o tl, k) = At(lg, k)
<1>1. k = 0 \/ k \in 1 .. Len(lg)
  BY SeqLen
<1>2. k \in 1 .. Len(lg) => (lg \o tl)[k] = lg[k]
  OBVIOUS
<1> QED
  BY <1>1, <1>2, Zenon DEF At

LEMMA KnownExtend ==
  ASSUME NEW lg \in Seq(Block), NEW tl \in Seq(Block), NEW a \in Nat, a <= Len(lg),
         NEW b \in Block, Known(lg, a, b)
  PROVE  Known(lg \o tl, a, b)
<1>1. Len(b) \in Nat /\ Len(b) <= Len(lg)
  BY SeqLen, BlockLen DEF Known
<1> QED
  BY <1>1, AtExtend, Zenon DEF Known

LEMMA KnownExtends ==
  ASSUME NEW lg \in Seq(Block), Chained(lg), NEW a \in Nat, a <= Len(lg),
         NEW b \in Block, NEW c \in Block, Known(lg, a, b), Known(lg, a, c),
         Len(c) = Len(b) + 1
  PROVE  Extends(b, c)
<1> DEFINE k == Len(c)
<1>1. /\ k \in 1 .. Len(lg) /\ k # 0 /\ k - 1 = Len(b)
  BY SeqLen, BlockLen DEF Known
<1>2. b = At(lg, Len(b)) /\ c = At(lg, k)
  BY Zenon DEF Known
<1> HIDE DEF k
<1>3. Extends(At(lg, k - 1), lg[k])
  BY <1>1, Zenon DEF Chained
<1> QED
  BY <1>1, <1>2, <1>3, Zenon DEF At

LEMMA ChainedCommit ==
  ASSUME NEW lg \in Seq(Block), Chained(lg), NEW b \in Block, Follows(lg, b)
  PROVE  /\ lg \o << b >> \in Seq(Block) /\ Chained(lg \o << b >>)
         /\ Len(lg \o << b >>) = Len(lg) + 1 /\ (lg \o << b >>)[Len(lg) + 1] = b
<1> DEFINE l2 == lg \o << b >>
<1>1. /\ Len(lg) \in Nat /\ << b >> \in Seq(Block) /\ l2 \in Seq(Block)
      /\ Len(l2) = Len(lg) + 1 /\ l2[Len(lg) + 1] = b
      /\ \A i \in 1 .. Len(lg) : l2[i] = lg[i]
  OBVIOUS
<1>2. \A k \in Nat : k <= Len(lg) => At(l2, k) = At(lg, k)
  BY <1>1, AtExtend, Zenon
<1> HIDE DEF l2
<1>3. \A i \in 1 .. Len(l2) : Len(l2[i]) = i /\ Extends(At(l2, i - 1), l2[i])
  <2> TAKE i \in 1 .. Len(l2)
  <2>1. i - 1 \in Nat /\ i - 1 <= Len(lg) /\ (i \in 1 .. Len(lg) \/ i = Len(lg) + 1)
    BY <1>1
  <2>2. At(l2, i - 1) = At(lg, i - 1)
    BY <1>2, <2>1, Zenon
  <2>3. CASE i \in 1 .. Len(lg)
    BY <1>1, <2>2, <2>3, Zenon DEF Chained
  <2>4. CASE i = Len(lg) + 1
    <3>1. i - 1 = Len(lg)
      BY <1>1, <2>4
    <3> QED
      BY <1>1, <2>2, <2>4, <3>1, Zenon DEF Follows
  <2> QED
    BY <2>1, <2>3, <2>4, Zenon
<1> QED
  BY <1>1, <1>3, Zenon DEF Chained, l2

-----------------------------------------------------------------------------
(* The commands between the source and the executor of a node *)

Holds(q, type) == q # << >> /\ q[1].type = type

\* Block b is the next one an executor replays whose last block is `last`: a
\* process that has replayed nothing yet starts at a block of its WAL.
IsNext(lg, a, W, last, b) ==
    /\ Known(lg, a, b)
    /\ last = NoBlock => Len(b) <= W
    /\ last # NoBlock => Len(b) = Len(last) + 1

\* The last block, the replay the executor has taken (x) and the one the source
\* has queued (c) are consecutive canonized blocks.
InOrder(lg, a, W, c, x, last) ==
    /\ last # NoBlock => Known(lg, a, last)
    /\ Holds(x, "Replay") => IsNext(lg, a, W, last, x[1].block)
    /\ Holds(c, "Replay") /\ x = << >> => IsNext(lg, a, W, last, c[1].block)
    /\ Holds(c, "Replay") /\ Holds(x, "Replay") =>
          Known(lg, a, c[1].block) /\ Len(c[1].block) = Len(x[1].block) + 1

\* Block k is the newest of them.
EndsAt(W, c, x, last, k) ==
    /\ Holds(c, "Replay") => Len(c[1].block) = k
    /\ ~Holds(c, "Replay") /\ Holds(x, "Replay") => Len(x[1].block) = k
    /\ ~Holds(c, "Replay") /\ ~Holds(x, "Replay") =>
          /\ last # NoBlock => Len(last) = k
          /\ last = NoBlock => k < W

LEMMA CommandShape ==
  ASSUME NEW b
  PROVE  /\ Holds(<< Replay(b) >>, "Replay") /\ ~Holds(<< Replay(b) >>, "Produce")
         /\ << Replay(b) >>[1].block = b /\ << Replay(b) >> # << >>
         /\ Holds(<< Produce >>, "Produce") /\ ~Holds(<< Produce >>, "Replay")
         /\ << Produce >> # << >>
         /\ \A type : ~Holds(<< >>, type)
  BY DEF Holds, Replay, Produce

LEMMA QueuedBlock ==
  ASSUME NEW q \in AtMostOne(Command), NEW type, Holds(q, type)
  PROVE  q[1] \in Command /\ q[1].block \in Block /\ Head(q) = q[1] /\ Tail(q) = << >>
<1>1. q \in Seq(Command) /\ q # << >>
  BY Zenon DEF AtMostOne, Holds
<1>2. Len(q) = 1 /\ q[1] \in Command
  BY <1>1, OnlyElement, Zenon
<1>3. Head(q) = q[1]
  BY <1>1
<1>4. Tail(q) = << >>
  BY <1>1, <1>2, TailOfOne, Zenon
<1> QED
  BY <1>2, <1>3, <1>4 DEF Command

LEMMA OrderGrows ==
  ASSUME NEW lg, NEW a \in Nat, NEW a2 \in Nat, a <= a2, NEW W \in Nat, NEW W2 \in Nat, W <= W2,
         NEW c \in AtMostOne(Command), NEW x \in AtMostOne(Command),
         NEW last \in Block \cup {NoBlock}, InOrder(lg, a, W, c, x, last)
  PROVE  InOrder(lg, a2, W2, c, x, last)
<1>1. \A b \in Block : Known(lg, a, b) => Known(lg, a2, b)
  BY KnownMore, Zenon
<1>2. \A b \in Block : Len(b) <= W => Len(b) <= W2
  BY BlockLen
<1>3. /\ Holds(x, "Replay") => x[1].block \in Block
      /\ Holds(c, "Replay") => c[1].block \in Block
      /\ last # NoBlock => last \in Block
  BY QueuedBlock, Zenon
<1> QED
  BY <1>1, <1>2, <1>3, Zenon DEF InOrder, IsNext

LEMMA OrderExtends ==
  ASSUME NEW lg \in Seq(Block), NEW tl \in Seq(Block), NEW a \in Nat, a <= Len(lg), NEW W,
         NEW c \in AtMostOne(Command), NEW x \in AtMostOne(Command),
         NEW last \in Block \cup {NoBlock}, InOrder(lg, a, W, c, x, last)
  PROVE  InOrder(lg \o tl, a, W, c, x, last)
<1>1. \A b \in Block : Known(lg, a, b) => Known(lg \o tl, a, b)
  BY KnownExtend, Zenon
<1>2. /\ Holds(x, "Replay") => x[1].block \in Block
      /\ Holds(c, "Replay") => c[1].block \in Block
      /\ last # NoBlock => last \in Block
  BY QueuedBlock, Zenon
<1> QED
  BY <1>1, <1>2, Zenon DEF InOrder, IsNext

LEMMA EndGrows ==
  ASSUME NEW W \in Nat, NEW W2 \in Nat, W <= W2, NEW c, NEW x, NEW last, NEW k \in Int,
         EndsAt(W, c, x, last, k)
  PROVE  EndsAt(W2, c, x, last, k)
<1>1. k < W => k < W2
  OBVIOUS
<1> QED
  BY <1>1, Zenon DEF EndsAt

LEMMA OrderSend ==
  ASSUME NEW lg, NEW a, NEW W \in Nat, NEW x \in AtMostOne(Command), NEW last,
         InOrder(lg, a, W, << >>, x, last), ~Holds(x, "Produce"),
         NEW b \in Block, Known(lg, a, b), EndsAt(W, << >>, x, last, Len(b) - 1)
  PROVE  /\ InOrder(lg, a, W, << Replay(b) >>, x, last)
         /\ EndsAt(W, << Replay(b) >>, x, last, Len(b))
<1> DEFINE c == << Replay(b) >>
<1>1. Holds(c, "Replay") /\ c[1].block = b /\ \A type : ~Holds(<< >>, type)
  BY CommandShape, Zenon
<1>2. Len(b) \in Nat
  BY BlockLen, Zenon
<1>3. x = << >> \/ Holds(x, "Replay")
  <2> SUFFICES ASSUME x # << >> PROVE x[1].type = "Replay"
    BY Zenon DEF Holds
  <2>1. x[1] \in Command
    BY OnlyElement, Zenon
  <2>2. x[1].type \in {"Produce", "Replay"}
    BY <2>1 DEF Command
  <2> QED
    BY <2>2, Zenon DEF Holds
<1>4. Holds(x, "Replay") => Len(b) = Len(x[1].block) + 1
  <2>1. Holds(x, "Replay") => Len(x[1].block) = Len(b) - 1
    BY <1>1, Zenon DEF EndsAt
  <2> QED
    BY <1>2, <2>1
<1>5. x = << >> => IsNext(lg, a, W, last, b)
  <2>1. x = << >> => /\ last # NoBlock => Len(last) = Len(b) - 1
                     /\ last = NoBlock => Len(b) - 1 < W
    BY <1>1, Zenon DEF EndsAt
  <2>2. x = << >> => /\ last # NoBlock => Len(b) = Len(last) + 1
                     /\ last = NoBlock => Len(b) <= W
    BY <1>2, <2>1
  <2> QED
    BY <2>2, Zenon DEF IsNext
<1> HIDE DEF c
<1>6. InOrder(lg, a, W, c, x, last)
  BY <1>1, <1>3, <1>4, <1>5, Zenon DEF InOrder
<1>7. EndsAt(W, c, x, last, Len(b))
  BY <1>1, Zenon DEF EndsAt
<1> QED
  BY <1>6, <1>7, Zenon DEF c

LEMMA OrderSendBehind ==
  ASSUME NEW lg, NEW a, NEW W, NEW x, NEW last, NEW c,
         InOrder(lg, a, W, << >>, x, last), Holds(x, "Produce")
  PROVE  InOrder(lg, a, W, c, x, last)
<1>1. ~Holds(x, "Replay") /\ x # << >>
  BY DEF Holds
<1> QED
  BY <1>1, Zenon DEF InOrder

LEMMA OrderProduce ==
  ASSUME NEW lg, NEW a, NEW W, NEW x, NEW last, InOrder(lg, a, W, << >>, x, last)
  PROVE  /\ InOrder(lg, a, W, << Produce >>, x, last)
         /\ \A k : EndsAt(W, << >>, x, last, k) => EndsAt(W, << Produce >>, x, last, k)
<1>1. ~Holds(<< Produce >>, "Replay") /\ ~Holds(<< >>, "Replay")
  BY CommandShape, Zenon
<1> QED
  BY <1>1, Zenon DEF InOrder, EndsAt

LEMMA OrderReceive ==
  ASSUME NEW lg, NEW a, NEW W, NEW last, NEW c, NEW x, x = << c[1] >>, c # << >>,
         InOrder(lg, a, W, c, << >>, last)
  PROVE  /\ InOrder(lg, a, W, << >>, x, last)
         /\ \A type : Holds(x, type) <=> Holds(c, type)
         /\ \A k : EndsAt(W, c, << >>, last, k) => EndsAt(W, << >>, x, last, k)
<1>1. x[1] = c[1] /\ x # << >>
  OBVIOUS
<1>2. \A type : Holds(x, type) <=> Holds(c, type)
  BY <1>1, Zenon DEF Holds
<1>3. \A type : ~Holds(<< >>, type)
  BY Zenon DEF Holds
<1> QED
  BY <1>1, <1>2, <1>3, Zenon DEF InOrder, EndsAt

LEMMA OrderExecute ==
  ASSUME NEW lg, NEW a, NEW W \in Nat, NEW c, NEW x \in AtMostOne(Command), Holds(x, "Replay"),
         NEW last \in Block \cup {NoBlock}, NEW b, b = x[1].block,
         InOrder(lg, a, W, c, x, last)
  PROVE  /\ InOrder(lg, a, W, c, << >>, b)
         /\ \A k : EndsAt(W, c, x, last, k) => EndsAt(W, c, << >>, b, k)
         /\ b \in Block /\ IsNext(lg, a, W, last, b)
<1>1. b \in Block /\ b # NoBlock
  BY QueuedBlock, BlockLen, Zenon
<1>2. ~Holds(<< >>, "Replay")
  BY Zenon DEF Holds
<1>3. IsNext(lg, a, W, last, b)
  BY Zenon DEF InOrder
<1>4. Holds(c, "Replay") => IsNext(lg, a, W, b, c[1].block)
  BY <1>1, Zenon DEF InOrder, IsNext
<1>5. Known(lg, a, b)
  BY <1>3, Zenon DEF IsNext
<1> QED
  BY <1>1, <1>2, <1>3, <1>4, <1>5, Zenon DEF InOrder, EndsAt

LEMMA OrderCanonized ==
  ASSUME NEW lg, NEW a, NEW W, NEW c, NEW x, NEW last, last # NoBlock, Known(lg, a, last),
         ~Holds(c, "Replay"), ~Holds(x, "Replay")
  PROVE  InOrder(lg, a, W, c, x, last) /\ EndsAt(W, c, x, last, Len(last))
  BY Zenon DEF InOrder, EndsAt

LEMMA OrderRestart ==
  ASSUME NEW lg, NEW a, NEW W, NEW k, k < W
  PROVE  InOrder(lg, a, W, << >>, << >>, NoBlock) /\ EndsAt(W, << >>, << >>, NoBlock, k)
  BY Zenon DEF InOrder, EndsAt, Holds

-----------------------------------------------------------------------------
(***************************************************************************)
(* The invariant of a node.  Taken, Forwarded and Upto are positions of    *)
(* the raft log: what the canonizer has received, what the source has been *)
(* given and has sent on, and the last block sent to the executor.         *)
(***************************************************************************)

Taken(n) == applied[n] - Len(canonized_blocks_rx[n])
Forwarded(n) == Taken(n) - Len(replays_to_execute[n])
Upto(n) == IF ReplayingWal(n) THEN wal_cursor[n] - 1 ELSE Forwarded(n)

\* A block of the node's own is in flight, or a command to produce one is.
Own(n) == Holds(executed[n], "Produce") \/ proposing[n] # << >> \/ produced_queue[n] # << >>
Producing(n) == Holds(commands[n], "Produce") \/ Holds(executing[n], "Produce")

Idle(n) == /\ executed[n] = << >> /\ proposing[n] = << >>
           /\ produced_queue[n] = << >> /\ canonical[n] = << >>

Placed(n) == Aligned(log, wal[n], applied[n], raft_applied[n],
                     canonized_blocks_rx[n], replays_to_execute[n])

\* A process first replays its WAL; meanwhile nothing is taken from raft's queues.
WalFirst(n) ==
    /\ replay_until[n] <= Len(wal[n])
    /\ wal_cursor[n] <= replay_until[n] + 1
    /\ ReplayingWal(n) => Forwarded(n) = replay_until[n]

LeadersOnly(n) == role[n] = "Replica" \/ ReplayingWal(n) => ~Own(n) /\ ~Producing(n)

NoGap(n) ==
    last_block[n] # NoBlock =>
       /\ Len(last_block[n]) <= Len(wal[n]) + 1
       /\ Idle(n) => Len(last_block[n]) <= Len(wal[n])

ProposedTerm(n) ==
    proposing[n] # << >> =>
       proposing[n][1].term <= term /\ (proposing[n][1].term = term => leader = n)

\* Without a block of its own in flight, a node executes what raft canonized, in
\* order; a deposed leader may have a stale command to produce in between.
Stream(n) ==
    ~Own(n) =>
       /\ InOrder(log, applied[n], Len(wal[n]), commands[n], executing[n], last_block[n])
       /\ ~Producing(n) \/ leader = n =>
             EndsAt(Len(wal[n]), commands[n], executing[n], last_block[n], Upto(n))

\* A block of the leader's own comes right after everything it has forwarded.
OwnLast(n) ==
    /\ Own(n) /\ (leader = n \/ produced_queue[n] # << >>) =>
          /\ replays_to_execute[n] = << >>
          /\ ~Holds(commands[n], "Replay") /\ ~Holds(executing[n], "Replay")
          /\ last_block[n] # NoBlock /\ Len(last_block[n]) = Forwarded(n) + 1
    /\ produced_queue[n] # << >> =>
          canonized_blocks_rx[n] # << >> /\ produced_queue[n][1] = canonized_blocks_rx[n][1]

\* The block the leader proposes is raft's uncommitted entry, or its last one.
Proposed(n) ==
    \/ /\ tail = << proposing[n][1].block >> /\ proposing[n][1].index = Len(log) + 1
       /\ Taken(n) = Len(log)
    \/ /\ tail = << >> /\ Len(log) > 0 /\ proposing[n][1].index = Len(log)
       /\ log[Len(log)] = proposing[n][1].block /\ Taken(n) = Len(log) - 1

CaughtUpWithLog(n) ==
    applied[n] = Len(log) /\ canonized_blocks_rx[n] = << >> /\ tail = << >>

\* A confirmed leader holds everything that is committed.
Leads(n) ==
    role[n] = "Leader" /\ leader = n =>
       /\ established
       /\ Producing(n) => replays_to_execute[n] = << >>
       /\ Holds(executing[n], "Produce") => ~Holds(commands[n], "Replay")
       /\ ~Own(n) \/ Holds(executed[n], "Produce") => CaughtUpWithLog(n)
       /\ Holds(executed[n], "Produce") => Extends(At(log, Len(log)), last_block[n])
       /\ proposing[n] # << >> => Proposed(n)
       /\ produced_queue[n] # << >> =>
             tail = << >> /\ applied[n] = Len(log) /\ Taken(n) = Len(log) - 1

NodeInv(n) ==
    /\ Placed(n) /\ WalFirst(n) /\ LeadersOnly(n) /\ NoGap(n)
    /\ ProposedTerm(n) /\ Stream(n) /\ OwnLast(n) /\ Leads(n)

LogInv ==
    /\ Chained(log)
    /\ tail # << >> => Follows(log, tail[1])
    /\ established /\ tail # << >> => leader \in Nodes /\ role[leader] = "Leader"

LedgerInv == timely => LogInv /\ \A n \in Nodes : NodeInv(n)

-----------------------------------------------------------------------------
(* What a step leaves alone *)

LEMMA NodeTypes ==
  ASSUME Inv, NEW n \in Nodes
  PROVE  /\ log \in Seq(Block) /\ Len(log) \in Nat /\ tail \in AtMostOne(Block) /\ term \in Nat
         /\ wal[n] \in Seq(Block) /\ Len(wal[n]) \in Nat
         /\ raft_applied[n] \in [1 .. MaxLog -> Nat] /\ applied[n] \in Nat
         /\ canonized_blocks_rx[n] \in Seq(Block) /\ Len(canonized_blocks_rx[n]) \in Nat
         /\ replays_to_execute[n] \in Seq(Block) /\ Len(replays_to_execute[n]) \in Nat
         /\ wal_cursor[n] \in Nat /\ replay_until[n] \in Nat
         /\ commands[n] \in AtMostOne(Command) /\ executing[n] \in AtMostOne(Command)
         /\ last_block[n] \in Block \cup {NoBlock} /\ role[n] \in {"Replica", "Leader"}
         /\ proposing[n] \in AtMostOne(Proposal)
<1>1. /\ log \in Seq(Block) /\ tail \in AtMostOne(Block) /\ term \in Nat
      /\ wal[n] \in AtMostMaxLog(Block)
      /\ raft_applied[n] \in [1 .. MaxLog -> Nat] /\ applied[n] \in Nat
      /\ canonized_blocks_rx[n] \in Seq(Block)
      /\ replays_to_execute[n] \in Seq(Block)
      /\ wal_cursor[n] \in Nat /\ replay_until[n] \in Nat
      /\ commands[n] \in AtMostOne(Command) /\ executing[n] \in AtMostOne(Command)
      /\ last_block[n] \in Block \cup {NoBlock} /\ role[n] \in {"Replica", "Leader"}
      /\ proposing[n] \in AtMostOne(Proposal)
  BY Zenon DEF Inv, TypeInv, TypeOK, RaftType, DurableType, SourceType, ExecutorType,
     CanonizerType
<1>2. wal[n] \in Seq(Block)
  BY <1>1, Zenon DEF AtMostMaxLog
<1> QED
  BY <1>1, <1>2, SeqLen, Zenon

LEMMA Positions ==
  ASSUME Inv, NEW n \in Nodes, Placed(n)
  PROVE  /\ Taken(n) \in Nat /\ Forwarded(n) \in Nat
         /\ Forwarded(n) <= Taken(n) /\ Taken(n) <= applied[n] /\ applied[n] <= Len(log)
         /\ Len(wal[n]) <= applied[n]
<1>1. /\ Len(canonized_blocks_rx[n]) \in Nat /\ Len(replays_to_execute[n]) \in Nat
      /\ applied[n] \in Nat
  BY NodeTypes, Zenon
<1>2. /\ Len(wal[n]) <= applied[n] /\ applied[n] <= Len(log)
      /\ Len(canonized_blocks_rx[n]) + Len(replays_to_execute[n]) <= applied[n]
  BY AlignedBounds, Zenon DEF Placed
<1>3. /\ Taken(n) \in Nat /\ Forwarded(n) \in Nat
      /\ Forwarded(n) <= Taken(n) /\ Taken(n) <= applied[n]
  <2> DEFINE i == Len(canonized_blocks_rx[n])
             j == Len(replays_to_execute[n])
             a == applied[n]
  <2>1. Taken(n) = a - i /\ Forwarded(n) = a - i - j
    BY Zenon DEF Taken, Forwarded
  <2> HIDE DEF i, j, a
  <2>2. i \in Nat /\ j \in Nat /\ a \in Nat /\ i + j <= a
    BY <1>1, <1>2, Zenon DEF i, j, a
  <2>3. a - i \in Nat /\ a - i - j \in Nat /\ a - i - j <= a - i /\ a - i <= a
    BY <2>2
  <2> QED
    BY <2>1, <2>3, Zenon DEF a
<1> QED
  BY <1>2, <1>3, Zenon

QueuesKept(n) ==
    /\ wal'[n] = wal[n] /\ raft_applied'[n] = raft_applied[n] /\ applied'[n] = applied[n]
    /\ canonized_blocks_rx'[n] = canonized_blocks_rx[n]
    /\ replays_to_execute'[n] = replays_to_execute[n]

CursorKept(n) == wal_cursor'[n] = wal_cursor[n] /\ replay_until'[n] = replay_until[n]

CommandsKept(n) == commands'[n] = commands[n] /\ executing'[n] = executing[n]

OwnKept(n) ==
    /\ executed'[n] = executed[n] /\ proposing'[n] = proposing[n]
    /\ produced_queue'[n] = produced_queue[n]

LEMMA PlacedKept ==
  ASSUME NEW n, log' = log, QueuesKept(n), Placed(n)
  PROVE  Placed(n)'
  BY Zenon DEF Placed, QueuesKept

LEMMA WalFirstKept ==
  ASSUME NEW n, QueuesKept(n), CursorKept(n), WalFirst(n)
  PROVE  WalFirst(n)'
  BY Zenon DEF WalFirst, QueuesKept, CursorKept, ReplayingWal, Forwarded, Taken

LEMMA LeadersOnlyKept ==
  ASSUME NEW n, role'[n] = role[n], CursorKept(n), CommandsKept(n), OwnKept(n), LeadersOnly(n)
  PROVE  LeadersOnly(n)'
  BY Zenon DEF LeadersOnly, CursorKept, CommandsKept, OwnKept, ReplayingWal, Own, Producing

LEMMA NoGapKept ==
  ASSUME NEW n, wal'[n] = wal[n], last_block'[n] = last_block[n], OwnKept(n),
         canonical'[n] = canonical[n], NoGap(n)
  PROVE  NoGap(n)'
  BY Zenon DEF NoGap, Idle, OwnKept

LEMMA ProposedTermKept ==
  ASSUME NEW n, proposing'[n] = proposing[n], term' = term, leader' = leader, ProposedTerm(n)
  PROVE  ProposedTerm(n)'
  BY Zenon DEF ProposedTerm

LEMMA StreamKept ==
  ASSUME NEW n, log' = log, leader' = leader, QueuesKept(n), CursorKept(n), CommandsKept(n),
         OwnKept(n), last_block'[n] = last_block[n], Stream(n)
  PROVE  Stream(n)'
<1>1. Upto(n)' = Upto(n) /\ (Own(n)' <=> Own(n)) /\ (Producing(n)' <=> Producing(n))
  BY Zenon DEF Upto, QueuesKept, CursorKept, CommandsKept, OwnKept, ReplayingWal, Forwarded,
     Taken, Own, Producing
<1> QED
  BY <1>1, Zenon DEF Stream, QueuesKept, CommandsKept

LEMMA OwnLastKept ==
  ASSUME NEW n, leader' = leader, QueuesKept(n), CommandsKept(n),
         OwnKept(n), last_block'[n] = last_block[n], OwnLast(n)
  PROVE  OwnLast(n)'
<1>1. Forwarded(n)' = Forwarded(n) /\ (Own(n)' <=> Own(n))
  BY Zenon DEF QueuesKept, OwnKept, Forwarded, Taken, Own
<1> QED
  BY <1>1, Zenon DEF OwnLast, QueuesKept, CommandsKept, OwnKept

LEMMA LeadsKept ==
  ASSUME NEW n, UNCHANGED <<log, tail, leader, established>>, role'[n] = role[n],
         QueuesKept(n), CommandsKept(n), OwnKept(n), last_block'[n] = last_block[n], Leads(n)
  PROVE  Leads(n)'
<1>1. /\ Taken(n)' = Taken(n) /\ (Own(n)' <=> Own(n)) /\ (Producing(n)' <=> Producing(n))
  BY Zenon DEF QueuesKept, CommandsKept, OwnKept, Taken, Own, Producing
<1>2. (CaughtUpWithLog(n)' <=> CaughtUpWithLog(n)) /\ (Proposed(n)' <=> Proposed(n))
  BY <1>1, Zenon DEF CaughtUpWithLog, Proposed, QueuesKept, OwnKept
<1> QED
  BY <1>1, <1>2, Zenon DEF Leads, QueuesKept, CommandsKept, OwnKept

NodeKept(n) ==
    /\ QueuesKept(n) /\ CursorKept(n) /\ CommandsKept(n) /\ OwnKept(n)
    /\ role'[n] = role[n] /\ last_block'[n] = last_block[n] /\ canonical'[n] = canonical[n]

LEMMA NodeInvKept ==
  ASSUME NEW n, UNCHANGED <<log, tail, term, leader, established>>, NodeKept(n), NodeInv(n)
  PROVE  NodeInv(n)'
<1>1. Placed(n)' /\ WalFirst(n)' /\ LeadersOnly(n)'
  BY PlacedKept, WalFirstKept, LeadersOnlyKept, Zenon DEF NodeInv, NodeKept
<1>2. NoGap(n)' /\ ProposedTerm(n)'
  BY NoGapKept, ProposedTermKept, Zenon DEF NodeInv, NodeKept, QueuesKept, OwnKept
<1>3. Stream(n)' /\ OwnLast(n)' /\ Leads(n)'
  BY StreamKept, OwnLastKept, LeadsKept, Zenon DEF NodeInv, NodeKept
<1> QED
  BY <1>1, <1>2, <1>3, Zenon DEF NodeInv

OthersIdle(n) == \A m \in Nodes : m # n => NodeKept(m)

\* A step of node n that raft does not take part in.
LEMMA NodeStepInv ==
  ASSUME LedgerInv, timely, NEW n \in Nodes, UNCHANGED raftVars, OthersIdle(n),
         role'[n] = role[n] \/ role'[n] = "Leader", NodeInv(n)'
  PROVE  LedgerInv'
<1>1. UNCHANGED <<log, tail, term, leader, established, timely>>
  BY Zenon DEF raftVars
<1>2. \A m \in Nodes : NodeInv(m)'
  BY <1>1, NodeInvKept, Zenon DEF LedgerInv, OthersIdle
<1>3. \A m \in Nodes : role[m] = "Leader" => role'[m] = "Leader"
  BY Zenon DEF OthersIdle, NodeKept
<1>4. LogInv'
  BY <1>1, <1>3, Zenon DEF LedgerInv, LogInv
<1> QED
  BY <1>2, <1>4, Zenon DEF LedgerInv

-----------------------------------------------------------------------------
(* Steps of a node *)

LEMMA OneOfFour ==
  ASSUME NEW e \in Seq(Payload), NEW p \in Seq(Proposal), NEW q \in Seq(Block),
         NEW c \in Seq(Block), Len(e) + Len(p) + Len(q) + Len(c) <= 1
  PROVE  /\ e # << >> => p = << >> /\ q = << >> /\ c = << >> /\ Len(e) = 1
         /\ p # << >> => e = << >> /\ q = << >> /\ c = << >> /\ Len(p) = 1
         /\ q # << >> => e = << >> /\ p = << >> /\ c = << >> /\ Len(q) = 1
         /\ c # << >> => e = << >> /\ p = << >> /\ q = << >> /\ Len(c) = 1
<1> DEFINE i == Len(e)
           j == Len(p)
           k == Len(q)
           l == Len(c)
<1>1. i \in Nat /\ j \in Nat /\ k \in Nat /\ l \in Nat /\ i + j + k + l <= 1
  BY SeqLen, Zenon
<1>2. /\ (i = 0 <=> e = << >>) /\ (j = 0 <=> p = << >>)
      /\ (k = 0 <=> q = << >>) /\ (l = 0 <=> c = << >>)
  OBVIOUS
<1> HIDE DEF i, j, k, l
<1>3. /\ i # 0 => j = 0 /\ k = 0 /\ l = 0 /\ i = 1
      /\ j # 0 => i = 0 /\ k = 0 /\ l = 0 /\ j = 1
      /\ k # 0 => i = 0 /\ j = 0 /\ l = 0 /\ k = 1
      /\ l # 0 => i = 0 /\ j = 0 /\ k = 0 /\ l = 1
  BY <1>1
<1> QED
  BY <1>2, <1>3, Zenon DEF i, j, k, l

LEMMA FrontOfOne ==
  ASSUME NEW S, NEW s \in Seq(S), Len(s) = 1
  PROVE  /\ s[1] \in S /\ s[1] \in Elems(s) /\ Head(s) = s[1] /\ Tail(s) = << >>
         /\ s # << >>
<1>1. s # << >>
  OBVIOUS
<1>2. Tail(s) = << >>
  BY <1>1, TailOfOne, Zenon
<1>3. s[1] \in S /\ Head(s) = s[1]
  OBVIOUS
<1>4. s[1] \in Elems(s)
  BY DEF Elems
<1> QED
  BY <1>1, <1>2, <1>3, <1>4, Zenon

\* At most one of a node's queues holds a block, and that block is last_block.
LEMMA OneQueue ==
  ASSUME Inv, NEW n \in Nodes
  PROVE  /\ executed[n] # << >> =>
               /\ proposing[n] = << >> /\ produced_queue[n] = << >> /\ canonical[n] = << >>
               /\ executed[n][1].block = last_block[n] /\ Head(executed[n]) = executed[n][1]
               /\ Tail(executed[n]) = << >> /\ executed[n][1] \in Payload
               /\ last_block[n] \in Block
         /\ proposing[n] # << >> =>
               /\ executed[n] = << >> /\ produced_queue[n] = << >> /\ canonical[n] = << >>
               /\ proposing[n][1].block = last_block[n] /\ proposing[n][1] \in Proposal
               /\ last_block[n] \in Block
         /\ produced_queue[n] # << >> =>
               /\ executed[n] = << >> /\ proposing[n] = << >> /\ canonical[n] = << >>
               /\ Head(produced_queue[n]) = last_block[n] /\ produced_queue[n][1] = last_block[n]
               /\ Tail(produced_queue[n]) = << >> /\ last_block[n] \in Block
         /\ canonical[n] # << >> =>
               /\ executed[n] = << >> /\ proposing[n] = << >> /\ produced_queue[n] = << >>
               /\ Head(canonical[n]) = last_block[n] /\ Tail(canonical[n]) = << >>
               /\ last_block[n] \in Block
<1>1. /\ executed[n] \in Seq(Payload) /\ proposing[n] \in Seq(Proposal)
      /\ produced_queue[n] \in Seq(Block) /\ canonical[n] \in Seq(Block)
      /\ last_block[n] \in Block \cup {NoBlock}
  BY QueueTypes, Zenon DEF Inv
<1>2. /\ InFlight(n) <= 1
      /\ \A b \in InFlightBlocks(n) : b = last_block[n]
  BY Zenon DEF Inv, FlightInv, InFlightIsLast
<1>3. /\ executed[n] # << >> => proposing[n] = << >> /\ produced_queue[n] = << >>
                                /\ canonical[n] = << >> /\ Len(executed[n]) = 1
      /\ proposing[n] # << >> => executed[n] = << >> /\ produced_queue[n] = << >>
                                /\ canonical[n] = << >> /\ Len(proposing[n]) = 1
      /\ produced_queue[n] # << >> => executed[n] = << >> /\ proposing[n] = << >>
                                /\ canonical[n] = << >> /\ Len(produced_queue[n]) = 1
      /\ canonical[n] # << >> => executed[n] = << >> /\ proposing[n] = << >>
                                /\ produced_queue[n] = << >> /\ Len(canonical[n]) = 1
  BY <1>1, <1>2, OneOfFour, Zenon DEF InFlight
<1>4. /\ \A p \in Elems(executed[n]) : p.block = last_block[n]
      /\ \A p \in Elems(proposing[n]) : p.block = last_block[n]
      /\ \A b \in Elems(produced_queue[n]) : b = last_block[n]
      /\ \A b \in Elems(canonical[n]) : b = last_block[n]
  BY <1>2, Zenon DEF InFlightBlocks
<1>5. (\E p \in Payload : p.block = last_block[n]) => last_block[n] \in Block
  BY DEF Payload
<1>6. (\E p \in Proposal : p.block = last_block[n]) => last_block[n] \in Block
  BY DEF Proposal
<1>7. CASE executed[n] # << >>
  BY <1>1, <1>3, <1>4, <1>5, <1>7, FrontOfOne, Zenon
<1>8. CASE proposing[n] # << >>
  BY <1>1, <1>3, <1>4, <1>6, <1>8, FrontOfOne, Zenon
<1>9. CASE produced_queue[n] # << >>
  BY <1>1, <1>3, <1>4, <1>9, FrontOfOne, Zenon
<1>10. CASE canonical[n] # << >>
  BY <1>1, <1>3, <1>4, <1>10, FrontOfOne, Zenon
<1> QED
  BY <1>7, <1>8, <1>9, <1>10, Zenon

\* A replica, or a node that still replays its WAL, only replays.
LEMMA OnlyReplays ==
  ASSUME NEW n, LeadersOnly(n), role[n] = "Replica" \/ ReplayingWal(n)
  PROVE  ~Own(n) /\ ~Producing(n)
  BY Zenon DEF LeadersOnly

LEMMA ApplyLedger ==
  ASSUME Inv, LedgerInv, timely, NEW n \in Nodes, Apply(n)
  PROVE  LedgerInv'
<1> DEFINE i == applied[n] + 1
<1>1. NodeInv(n) /\ LogInv
  BY Zenon DEF LedgerInv
<1>2. /\ UNCHANGED raftVars /\ OthersIdle(n) /\ CursorKept(n) /\ CommandsKept(n) /\ OwnKept(n)
      /\ role'[n] = role[n] /\ last_block'[n] = last_block[n] /\ canonical'[n] = canonical[n]
      /\ wal'[n] = wal[n] /\ replays_to_execute'[n] = replays_to_execute[n]
      /\ raft_applied'[n] = [raft_applied[n] EXCEPT ![Len(log[i])] = i]
      /\ canonized_blocks_rx'[n] = Append(canonized_blocks_rx[n], log[i])
      /\ applied'[n] = i
  <2>1. /\ applied \in [Nodes -> Nat] /\ canonized_blocks_rx \in [Nodes -> Seq(Block)]
        /\ raft_applied \in [Nodes -> [1 .. MaxLog -> Nat]]
    BY Zenon DEF Inv, TypeInv, TypeOK, DurableType, CanonizerType
  <2> QED
    BY <2>1, Zenon DEF Apply, OthersIdle, NodeKept, QueuesKept, CursorKept, CommandsKept,
       OwnKept, sourceVars, executorVars, applierVars
<1>3. UNCHANGED <<log, tail, term, leader, established, timely>>
  BY <1>2, Zenon DEF raftVars
<1>4. /\ applied[n] \in Nat /\ applied[n] < Len(log) /\ Len(log) \in Nat /\ log \in Seq(Block)
      /\ raft_applied[n] \in [1 .. MaxLog -> Nat]
      /\ wal[n] \in Seq(Block) /\ Len(wal[n]) \in Nat
      /\ canonized_blocks_rx[n] \in Seq(Block) /\ Len(canonized_blocks_rx[n]) \in Nat
      /\ replays_to_execute[n] \in Seq(Block) /\ Len(replays_to_execute[n]) \in Nat
  BY NodeTypes, Zenon DEF Apply
<1>5. i \in Nat /\ i # 0 /\ i <= Len(log) /\ log[i] \in Block /\ i \in 1 .. Len(log)
      /\ applied[n] <= i
  BY <1>4
<1>6. Len(log[i]) = i /\ i <= MaxLog
  <2>1. Len(log[i]) = i
    BY <1>1, <1>5, Zenon DEF LogInv, Chained
  <2> QED
    BY <1>5, <2>1, BlockLen
<1>7. Placed(n)'
  <2>1. Aligned(log, wal[n], i, [raft_applied[n] EXCEPT ![i] = i],
                Append(canonized_blocks_rx[n], log[i]), replays_to_execute[n])
    BY <1>1, <1>4, <1>6, AlignedApply, Zenon DEF NodeInv, Placed
  <2> QED
    BY <1>2, <1>3, <1>6, <2>1, Zenon DEF Placed
<1>8. /\ Taken(n)' = Taken(n) /\ Forwarded(n)' = Forwarded(n) /\ Upto(n)' = Upto(n)
      /\ canonized_blocks_rx'[n] # << >>
      /\ canonized_blocks_rx[n] # << >> => canonized_blocks_rx'[n][1] = canonized_blocks_rx[n][1]
  <2>1. /\ Len(canonized_blocks_rx'[n]) = Len(canonized_blocks_rx[n]) + 1
        /\ canonized_blocks_rx'[n] # << >>
        /\ canonized_blocks_rx[n] # << >> => canonized_blocks_rx'[n][1] = canonized_blocks_rx[n][1]
    <3> DEFINE s == canonized_blocks_rx[n]
               b == log[i]
    <3>1. s \in Seq(Block) /\ b \in Block /\ canonized_blocks_rx'[n] = Append(s, b)
      BY <1>2, <1>4, <1>5, Zenon
    <3> HIDE DEF s, b
    <3>2. Len(Append(s, b)) = Len(s) + 1 /\ Append(s, b) # << >> /\ (s # << >> => Append(s, b)[1] = s[1])
      BY <3>1
    <3> QED
      BY <3>1, <3>2, Zenon DEF s
  <2>2. Taken(n)' = Taken(n)
    <3> DEFINE a == applied[n]
               k == Len(canonized_blocks_rx[n])
    <3>1. Taken(n) = a - k /\ Taken(n)' = (a + 1) - (k + 1) /\ a \in Nat /\ k \in Nat
      BY <1>2, <1>4, <2>1, Zenon DEF Taken
    <3> HIDE DEF a, k
    <3>2. (a + 1) - (k + 1) = a - k
      BY <3>1
    <3> QED
      BY <3>1, <3>2, Zenon
  <2>3. Forwarded(n)' = Forwarded(n)
    BY <1>2, <2>2, Zenon DEF Forwarded
  <2>4. Upto(n)' = Upto(n)
    BY <1>2, <2>3, Zenon DEF Upto, ReplayingWal, CursorKept
  <2> QED
    BY <2>1, <2>2, <2>3, <2>4, Zenon
<1>9. (Own(n)' <=> Own(n)) /\ (Producing(n)' <=> Producing(n))
  BY <1>2, Zenon DEF CommandsKept, OwnKept, Own, Producing
<1>10. WalFirst(n)' /\ LeadersOnly(n)' /\ NoGap(n)' /\ ProposedTerm(n)'
  <2>1. WalFirst(n)'
    BY <1>1, <1>2, <1>8, Zenon DEF NodeInv, WalFirst, CursorKept, ReplayingWal
  <2> QED
    BY <1>1, <1>2, <1>3, <2>1, LeadersOnlyKept, NoGapKept, ProposedTermKept, Zenon DEF NodeInv,
       OwnKept
<1>11. Stream(n)'
  <2>1. /\ commands[n] \in AtMostOne(Command) /\ executing[n] \in AtMostOne(Command)
        /\ last_block[n] \in Block \cup {NoBlock} /\ Len(wal[n]) <= Len(wal[n])
    BY <1>4, NodeTypes
  <2>2. ~Own(n) => InOrder(log, i, Len(wal[n]), commands[n], executing[n], last_block[n])
    <3> SUFFICES ASSUME ~Own(n)
                 PROVE  InOrder(log, i, Len(wal[n]), commands[n], executing[n], last_block[n])
      BY Zenon
    <3>1. InOrder(log, applied[n], Len(wal[n]), commands[n], executing[n], last_block[n])
      BY <1>1, Zenon DEF NodeInv, Stream
    <3> HIDE DEF i
    <3> QED
      BY <1>4, <1>5, <2>1, <3>1, OrderGrows, Zenon
  <2> QED
    BY <1>1, <1>2, <1>3, <1>8, <1>9, <2>2, Zenon DEF NodeInv, Stream, CommandsKept
<1>12. OwnLast(n)'
  BY <1>1, <1>2, <1>3, <1>8, <1>9, Zenon DEF NodeInv, OwnLast, CommandsKept, OwnKept
<1>13. Leads(n)'
  <2>1. applied[n] # Len(log)
    BY <1>4
  <2>2. Proposed(n)' <=> Proposed(n)
    BY <1>2, <1>3, <1>8, Zenon DEF Proposed, OwnKept
  <2> QED
    BY <1>1, <1>2, <1>3, <1>9, <2>1, <2>2, Zenon DEF NodeInv, Leads, CaughtUpWithLog,
       CommandsKept, OwnKept
<1> QED
  BY <1>2, <1>7, <1>10, <1>11, <1>12, <1>13, NodeStepInv, Zenon DEF NodeInv

LEMMA ConfirmLeaderLedger ==
  ASSUME Inv, LedgerInv, timely, NEW n \in Nodes, ConfirmLeader(n)
  PROVE  LedgerInv'
<1>1. NodeInv(n) /\ LogInv
  BY Zenon DEF LedgerInv
<1>2. /\ UNCHANGED raftVars /\ OthersIdle(n) /\ QueuesKept(n) /\ CursorKept(n)
      /\ CommandsKept(n) /\ OwnKept(n) /\ role'[n] = "Leader"
      /\ last_block'[n] = last_block[n] /\ canonical'[n] = canonical[n]
  <2>1. role \in [Nodes -> {"Replica", "Leader"}]
    BY Zenon DEF Inv, TypeInv, TypeOK, SourceType
  <2> QED
    BY <2>1, Zenon DEF ConfirmLeader, OthersIdle, NodeKept, QueuesKept, CursorKept,
       CommandsKept, OwnKept, durableVars, executorVars, canonizerVars, applierVars
<1>3. UNCHANGED <<log, tail, term, leader, established, timely>>
  BY <1>2, Zenon DEF raftVars
<1>4. ~Own(n) /\ ~Producing(n)
  BY <1>1, OnlyReplays, Zenon DEF NodeInv, ConfirmLeader
<1>5. /\ (Own(n)' <=> Own(n)) /\ (Producing(n)' <=> Producing(n))
  BY <1>2, Zenon DEF CommandsKept, OwnKept, Own, Producing
<1>6. LeadersOnly(n)'
  BY <1>4, <1>5, Zenon DEF LeadersOnly
<1>7. Leads(n)'
  <2>1. "Replica" # "Leader"
    OBVIOUS
  <2>2. established /\ tail = << >>
    BY <1>1, <2>1, Zenon DEF LogInv, ConfirmLeader
  <2>3. CaughtUpWithLog(n)'
    BY <1>2, <1>3, <2>2, Zenon DEF ConfirmLeader, CaughtUpWithLog, QueuesKept
  <2>4. ~Holds(executed[n], "Produce") /\ proposing[n] = << >> /\ produced_queue[n] = << >>
        /\ ~Holds(executing[n], "Produce")
    BY <1>4, Zenon DEF Own, Producing
  <2> QED
    BY <1>2, <1>3, <1>4, <1>5, <2>2, <2>3, <2>4, Zenon DEF Leads, OwnKept, CommandsKept
<1>8. Placed(n)' /\ WalFirst(n)' /\ NoGap(n)' /\ ProposedTerm(n)'
  BY <1>1, <1>2, <1>3, PlacedKept, WalFirstKept, NoGapKept, ProposedTermKept, Zenon
     DEF NodeInv, QueuesKept, OwnKept
<1>9. Stream(n)' /\ OwnLast(n)'
  BY <1>1, <1>2, <1>3, StreamKept, OwnLastKept, Zenon DEF NodeInv
<1> QED
  BY <1>2, <1>6, <1>7, <1>8, <1>9, NodeStepInv, Zenon DEF NodeInv

LEMMA AlignedWal ==
  ASSUME NEW lg, NEW w, NEW a, NEW ra, NEW rx, NEW rp, Aligned(lg, w, a, ra, rx, rp),
         w \in Seq(Block), NEW k \in 1 .. Len(w)
  PROVE  w[k] = lg[k]
<1>1. w[k] = lg[0 + k]
  BY Zenon DEF Aligned, Slice
<1>2. 0 + k = k
  BY SeqLen
<1> QED
  BY <1>1, <1>2, Zenon

\* WAL record k is canonized block k.
LEMMA WalBlockKnown ==
  ASSUME Inv, LogInv, NEW n \in Nodes, Placed(n), NEW k \in Nat, k <= Len(wal[n])
  PROVE  /\ WalBlock(n, k) \in Block /\ Len(WalBlock(n, k)) = k
         /\ Known(log, applied[n], WalBlock(n, k))
<1>1. /\ log \in Seq(Block) /\ wal[n] \in Seq(Block) /\ applied[n] \in Nat
      /\ Len(log) \in Nat /\ Len(wal[n]) \in Nat
  BY NodeTypes, Zenon
<1>2. Len(wal[n]) <= applied[n] /\ applied[n] <= Len(log)
  BY Positions, Zenon
<1>3. k <= applied[n] /\ (k # 0 => k \in 1 .. Len(wal[n]))
  BY <1>1, <1>2
<1>4. WalBlock(n, k) = At(log, k)
  BY <1>1, <1>3, AlignedWal, Zenon DEF WalBlock, At, Placed
<1>5. At(log, k) \in Block /\ Len(At(log, k)) = k /\ Known(log, applied[n], At(log, k))
  BY <1>1, <1>2, <1>3, KnownAt, Zenon DEF LogInv
<1> QED
  BY <1>4, <1>5, Zenon

LEMMA ForwardWalReplayLedger ==
  ASSUME Inv, LedgerInv, timely, NEW n \in Nodes, ForwardWalReplay(n)
  PROVE  LedgerInv'
<1> DEFINE k == wal_cursor[n]
           b == WalBlock(n, k)
<1>1. NodeInv(n) /\ LogInv /\ ReplayingWal(n)
  BY Zenon DEF LedgerInv, ForwardWalReplay
<1>2. /\ UNCHANGED raftVars /\ OthersIdle(n) /\ QueuesKept(n) /\ OwnKept(n)
      /\ role'[n] = role[n] /\ last_block'[n] = last_block[n] /\ canonical'[n] = canonical[n]
      /\ commands[n] = << >> /\ executing'[n] = executing[n]
      /\ commands'[n] = << Replay(b) >>
      /\ wal_cursor'[n] = k + 1 /\ replay_until'[n] = replay_until[n]
  <2>1. wal_cursor \in [Nodes -> Nat] /\ commands \in [Nodes -> AtMostOne(Command)]
    BY Zenon DEF Inv, TypeInv, TypeOK, SourceType
  <2>2. Append(<< >>, Replay(b)) = << Replay(b) >>
    OBVIOUS
  <2> QED
    BY <2>1, <2>2, Zenon DEF ForwardWalReplay, SendCommand, OthersIdle, NodeKept, QueuesKept,
       CursorKept, CommandsKept, OwnKept, durableVars, executorVars, canonizerVars, applierVars
<1>3. UNCHANGED <<log, tail, term, leader, established, timely>>
  BY <1>2, Zenon DEF raftVars
<1>4. k \in Nat /\ replay_until[n] \in Nat /\ Len(wal[n]) \in Nat /\ k <= replay_until[n]
      /\ replay_until[n] <= Len(wal[n])
  BY <1>1, NodeTypes, Zenon DEF NodeInv, WalFirst, ReplayingWal
<1>5. k <= Len(wal[n])
  BY <1>4
<1>6. b \in Block /\ Len(b) = k /\ Known(log, applied[n], b)
  BY <1>1, <1>4, <1>5, WalBlockKnown, Zenon DEF NodeInv
<1> HIDE DEF b
<1>7. ~Own(n) /\ ~Producing(n)
  BY <1>1, OnlyReplays, Zenon DEF NodeInv
<1>8. ~Own(n)' /\ ~Producing(n)'
  BY <1>2, <1>7, CommandShape, Zenon DEF Own, Producing, OwnKept
<1>9. WalFirst(n)'
  <2>1. k + 1 <= replay_until[n] + 1 /\ (k + 1 <= replay_until[n] => k <= replay_until[n])
    BY <1>4
  <2>2. Forwarded(n)' = Forwarded(n)
    BY <1>2, Zenon DEF Forwarded, Taken, QueuesKept
  <2> QED
    BY <1>1, <1>2, <2>1, <2>2, Zenon DEF NodeInv, WalFirst, QueuesKept, ReplayingWal
<1>10. Upto(n)' = k
  <2>1. (k + 1) - 1 = k /\ (~(k + 1 <= replay_until[n]) => k = replay_until[n])
    BY <1>4
  <2>2. Forwarded(n)' = replay_until[n]
    BY <1>1, <1>2, Zenon DEF Forwarded, Taken, QueuesKept, NodeInv, WalFirst
  <2> QED
    BY <1>2, <2>1, <2>2, Zenon DEF Upto, ReplayingWal
<1>11. Stream(n)'
  <2>1. /\ InOrder(log, applied[n], Len(wal[n]), << >>, executing[n], last_block[n])
        /\ EndsAt(Len(wal[n]), << >>, executing[n], last_block[n], Len(b) - 1)
    BY <1>1, <1>2, <1>6, <1>7, Zenon DEF NodeInv, Stream, Upto
  <2>2. executing[n] \in AtMostOne(Command) /\ ~Holds(executing[n], "Produce")
    BY <1>7, NodeTypes, Zenon DEF Producing
  <2>3. /\ InOrder(log, applied[n], Len(wal[n]), << Replay(b) >>, executing[n], last_block[n])
        /\ EndsAt(Len(wal[n]), << Replay(b) >>, executing[n], last_block[n], Len(b))
    BY <1>4, <1>6, <2>1, <2>2, OrderSend, Zenon
  <2> QED
    BY <1>2, <1>3, <1>6, <1>10, <2>3, Zenon DEF Stream, QueuesKept
<1>12. LeadersOnly(n)' /\ OwnLast(n)'
  BY <1>8, Zenon DEF LeadersOnly, OwnLast, Own
<1>13. Leads(n)'
  <2>1. CaughtUpWithLog(n)' <=> CaughtUpWithLog(n)
    BY <1>2, <1>3, Zenon DEF CaughtUpWithLog, QueuesKept
  <2>2. /\ ~Holds(executed'[n], "Produce") /\ proposing'[n] = << >> /\ produced_queue'[n] = << >>
        /\ ~Holds(executing'[n], "Produce")
    BY <1>8, Zenon DEF Own, Producing
  <2> QED
    BY <1>1, <1>2, <1>3, <1>7, <1>8, <2>1, <2>2, Zenon DEF NodeInv, Leads
<1>14. Placed(n)' /\ NoGap(n)' /\ ProposedTerm(n)'
  BY <1>1, <1>2, <1>3, PlacedKept, NoGapKept, ProposedTermKept, Zenon
     DEF NodeInv, QueuesKept, OwnKept
<1> QED
  BY <1>2, <1>9, <1>11, <1>12, <1>13, <1>14, NodeStepInv, Zenon DEF NodeInv

LEMMA ForwardReplayLedger ==
  ASSUME Inv, LedgerInv, timely, NEW n \in Nodes, ForwardReplay(n)
  PROVE  LedgerInv'
<1> DEFINE k == Forwarded(n) + 1
           b == Head(replays_to_execute[n])
<1>1. NodeInv(n) /\ LogInv /\ ~ReplayingWal(n) /\ replays_to_execute[n] # << >>
  BY Zenon DEF LedgerInv, ForwardReplay
<1>2. /\ UNCHANGED raftVars /\ OthersIdle(n) /\ CursorKept(n) /\ OwnKept(n)
      /\ role'[n] = role[n] /\ last_block'[n] = last_block[n] /\ canonical'[n] = canonical[n]
      /\ commands[n] = << >> /\ executing'[n] = executing[n]
      /\ commands'[n] = << Replay(b) >>
      /\ wal'[n] = wal[n] /\ raft_applied'[n] = raft_applied[n] /\ applied'[n] = applied[n]
      /\ canonized_blocks_rx'[n] = canonized_blocks_rx[n]
      /\ replays_to_execute'[n] = Tail(replays_to_execute[n])
  <2>1. /\ replays_to_execute \in [Nodes -> Seq(Block)]
        /\ commands \in [Nodes -> AtMostOne(Command)]
    BY Zenon DEF Inv, TypeInv, TypeOK, SourceType
  <2>2. Append(<< >>, Replay(b)) = << Replay(b) >>
    OBVIOUS
  <2> QED
    BY <2>1, <2>2, Zenon DEF ForwardReplay, SendCommand, OthersIdle, NodeKept, QueuesKept,
       CursorKept, CommandsKept, OwnKept, durableVars, executorVars, canonizerVars, applierVars
<1>3. UNCHANGED <<log, tail, term, leader, established, timely>>
  BY <1>2, Zenon DEF raftVars
<1>4. /\ log \in Seq(Block) /\ Len(log) \in Nat /\ wal[n] \in Seq(Block) /\ Len(wal[n]) \in Nat
      /\ applied[n] \in Nat /\ canonized_blocks_rx[n] \in Seq(Block)
      /\ Len(canonized_blocks_rx[n]) \in Nat
      /\ replays_to_execute[n] \in Seq(Block) /\ Len(replays_to_execute[n]) \in Nat
      /\ executing[n] \in AtMostOne(Command)
  BY NodeTypes, Zenon
<1>5. /\ Aligned(log, wal[n], applied[n], raft_applied[n], canonized_blocks_rx[n],
                 Tail(replays_to_execute[n]))
      /\ Len(Tail(replays_to_execute[n])) = Len(replays_to_execute[n]) - 1
      /\ Entry(log, k, b) /\ k <= applied[n]
  <2>1. k = applied[n] - Len(canonized_blocks_rx[n]) - Len(replays_to_execute[n]) + 1
    BY Zenon DEF Forwarded, Taken
  <2>2. Placed(n)
    BY <1>1, Zenon DEF NodeInv
  <2> DEFINE j == applied[n] - Len(canonized_blocks_rx[n]) - Len(replays_to_execute[n])
  <2>3. /\ Aligned(log, wal[n], applied[n], raft_applied[n], canonized_blocks_rx[n],
                   Tail(replays_to_execute[n]))
        /\ Len(Tail(replays_to_execute[n])) = Len(replays_to_execute[n]) - 1
        /\ Entry(log, j + 1, b) /\ j + 1 <= applied[n]
    <3>1. Aligned(log, wal[n], applied[n], raft_applied[n], canonized_blocks_rx[n],
                  Tail(replays_to_execute[n]))
      BY <1>1, <1>4, <2>2, AlignedReplay, Zenon DEF Placed
    <3> DEFINE rx == canonized_blocks_rx[n]
               rp == replays_to_execute[n]
    <3>2. /\ Aligned(log, wal[n], applied[n], raft_applied[n], rx, rp)
          /\ log \in Seq(Block) /\ applied[n] \in Nat /\ rx \in Seq(Block)
          /\ rp \in Seq(Block) /\ rp # << >>
      BY <1>1, <1>4, <2>2, Zenon DEF Placed
    <3> HIDE DEF rx, rp
    <3>3. Len(Tail(rp)) = Len(rp) - 1
      BY <3>2, LenTail, Zenon
    <3>4. /\ Entry(log, applied[n] - Len(rx) - Len(rp) + 1, Head(rp))
          /\ applied[n] - Len(rx) - Len(rp) + 1 <= applied[n]
      BY <3>2, NextReplay, Zenon
    <3> QED
      BY <3>1, <3>3, <3>4, Zenon DEF rx, rp
  <2> QED
    BY <2>1, <2>3, Zenon
<1>6. Forwarded(n) \in Nat /\ applied[n] <= Len(log)
  BY <1>1, Positions, Zenon DEF NodeInv
<1>7. k - 1 = Forwarded(n)
  BY <1>6
<1>8. b \in Block /\ Len(b) = k /\ Known(log, applied[n], b)
  <2> HIDE DEF b, k
  <2> QED
    BY <1>1, <1>4, <1>5, <1>6, EntryKnown, Zenon DEF LogInv
<1>9. Taken(n)' = Taken(n) /\ Forwarded(n)' = k /\ Upto(n)' = k /\ Upto(n) = k - 1
  <2>1. Taken(n)' = Taken(n)
    BY <1>2, Zenon DEF Taken
  <2>2. Taken(n) \in Nat
    BY <1>1, Positions, Zenon DEF NodeInv
  <2>3. Taken(n) - (Len(replays_to_execute[n]) - 1) = (Taken(n) - Len(replays_to_execute[n])) + 1
    BY <1>4, <2>2
  <2>4. Forwarded(n)' = k
    BY <1>2, <1>5, <2>1, <2>3, Zenon DEF Forwarded
  <2> QED
    BY <1>1, <1>2, <1>7, <2>1, <2>4, Zenon DEF Upto, ReplayingWal, CursorKept
<1> HIDE DEF b, k
<1>10. (Own(n)' <=> Own(n)) /\ (Producing(n)' <=> Holds(executing[n], "Produce"))
       /\ (Producing(n) <=> Holds(executing[n], "Produce"))
  BY <1>2, CommandShape, Zenon DEF OwnKept, Own, Producing
<1>11. role[n] = "Leader" /\ leader = n => ~Producing(n) /\ ~Own(n)
  BY <1>1, Zenon DEF NodeInv, Leads, OwnLast
<1>12. leader = n => ~Producing(n) /\ ~Own(n)
  <2>1. role[n] = "Replica" => ~Producing(n) /\ ~Own(n)
    BY <1>1, OnlyReplays, Zenon DEF NodeInv
  <2>2. role[n] \in {"Replica", "Leader"}
    BY NodeTypes, Zenon
  <2> QED
    BY <1>11, <2>1, <2>2, Zenon
<1>13. produced_queue[n] = << >>
  BY <1>1, Zenon DEF NodeInv, OwnLast, Own
<1>14. Placed(n)'
  BY <1>2, <1>3, <1>5, Zenon DEF Placed
<1>15. WalFirst(n)' /\ LeadersOnly(n)'
  BY <1>1, <1>2, <1>10, Zenon DEF NodeInv, WalFirst, LeadersOnly, CursorKept, ReplayingWal
<1>16. Stream(n)'
  <2> SUFFICES ASSUME ~Own(n)
               PROVE  /\ InOrder(log, applied[n], Len(wal[n]), << Replay(b) >>, executing[n],
                                 last_block[n])
                      /\ ~Producing(n)' \/ leader = n =>
                           EndsAt(Len(wal[n]), << Replay(b) >>, executing[n], last_block[n], k)
    BY <1>2, <1>3, <1>9, <1>10, Zenon DEF Stream
  <2>1. /\ InOrder(log, applied[n], Len(wal[n]), << >>, executing[n], last_block[n])
        /\ ~Producing(n) => EndsAt(Len(wal[n]), << >>, executing[n], last_block[n], Len(b) - 1)
    BY <1>1, <1>2, <1>8, <1>9, Zenon DEF NodeInv, Stream
  <2>2. CASE Producing(n)
    BY <1>10, <1>12, <2>1, <2>2, OrderSendBehind, Zenon
  <2>3. CASE ~Producing(n)
    <3>1. EndsAt(Len(wal[n]), << >>, executing[n], last_block[n], Len(b) - 1)
      BY <2>1, <2>3, Zenon
    <3> QED
      BY <1>4, <1>8, <1>10, <2>1, <2>3, <3>1, OrderSend, Zenon
  <2> QED
    BY <2>2, <2>3, Zenon
<1>17. OwnLast(n)'
  BY <1>2, <1>3, <1>10, <1>12, <1>13, Zenon DEF OwnLast, OwnKept
<1>18. Leads(n)'
  <2>1. (CaughtUpWithLog(n)' <=> CaughtUpWithLog(n)) /\ (Proposed(n)' <=> Proposed(n))
    BY <1>2, <1>3, <1>9, Zenon DEF CaughtUpWithLog, Proposed, OwnKept
  <2> QED
    BY <1>1, <1>2, <1>3, <1>9, <1>10, <1>11, <2>1, Zenon DEF NodeInv, Leads, OwnKept
<1>19. NoGap(n)' /\ ProposedTerm(n)'
  BY <1>1, <1>2, <1>3, NoGapKept, ProposedTermKept, Zenon DEF NodeInv, OwnKept
<1> QED
  BY <1>2, <1>14, <1>15, <1>16, <1>17, <1>18, <1>19, NodeStepInv, Zenon DEF NodeInv

LEMMA SendProduceLedger ==
  ASSUME Inv, LedgerInv, timely, NEW n \in Nodes, SendProduce(n)
  PROVE  LedgerInv'
<1>1. NodeInv(n) /\ LogInv /\ ~ReplayingWal(n) /\ replays_to_execute[n] = << >>
      /\ role[n] = "Leader"
  BY Zenon DEF LedgerInv, SendProduce
<1>2. /\ UNCHANGED raftVars /\ OthersIdle(n) /\ QueuesKept(n) /\ CursorKept(n) /\ OwnKept(n)
      /\ role'[n] = role[n] /\ last_block'[n] = last_block[n] /\ canonical'[n] = canonical[n]
      /\ commands[n] = << >> /\ executing'[n] = executing[n]
      /\ commands'[n] = << Produce >>
  <2>1. commands \in [Nodes -> AtMostOne(Command)]
    BY Zenon DEF Inv, TypeInv, TypeOK, SourceType
  <2>2. Append(<< >>, Produce) = << Produce >>
    OBVIOUS
  <2> QED
    BY <2>1, <2>2, Zenon DEF SendProduce, SendCommand, OthersIdle, NodeKept, QueuesKept,
       CursorKept, CommandsKept, OwnKept, durableVars, executorVars, canonizerVars, applierVars
<1>3. UNCHANGED <<log, tail, term, leader, established, timely>>
  BY <1>2, Zenon DEF raftVars
<1>4. /\ Taken(n)' = Taken(n) /\ Forwarded(n)' = Forwarded(n) /\ Upto(n)' = Upto(n)
      /\ (Own(n)' <=> Own(n)) /\ (ReplayingWal(n)' <=> ReplayingWal(n))
  BY <1>2, Zenon DEF Upto, Forwarded, Taken, QueuesKept, CursorKept, OwnKept, Own, ReplayingWal
<1>5. Stream(n)'
  <2> SUFFICES ASSUME ~Own(n)
               PROVE  /\ InOrder(log, applied[n], Len(wal[n]), << Produce >>, executing[n],
                                 last_block[n])
                      /\ leader = n =>
                           EndsAt(Len(wal[n]), << Produce >>, executing[n], last_block[n], Upto(n))
    BY <1>2, <1>3, <1>4, CommandShape, Zenon DEF Stream, QueuesKept, Producing
  <2>1. /\ InOrder(log, applied[n], Len(wal[n]), << >>, executing[n], last_block[n])
        /\ leader = n => EndsAt(Len(wal[n]), << >>, executing[n], last_block[n], Upto(n))
    BY <1>1, <1>2, Zenon DEF NodeInv, Stream
  <2> QED
    BY <2>1, OrderProduce, Zenon
<1>6. LeadersOnly(n)'
  BY <1>1, <1>2, <1>4 DEF LeadersOnly
<1>7. OwnLast(n)'
  BY <1>1, <1>2, <1>3, <1>4, CommandShape, Zenon DEF NodeInv, OwnLast, QueuesKept, OwnKept
<1>8. Leads(n)'
  <2>1. (CaughtUpWithLog(n)' <=> CaughtUpWithLog(n)) /\ (Proposed(n)' <=> Proposed(n))
    BY <1>2, <1>3, <1>4, Zenon DEF CaughtUpWithLog, Proposed, OwnKept, QueuesKept
  <2>2. replays_to_execute'[n] = << >> /\ ~Holds(commands'[n], "Replay")
    BY <1>1, <1>2, CommandShape, Zenon DEF QueuesKept
  <2> QED
    BY <1>1, <1>2, <1>3, <1>4, <2>1, <2>2, Zenon DEF NodeInv, Leads, OwnKept, QueuesKept
<1>9. Placed(n)' /\ WalFirst(n)' /\ NoGap(n)' /\ ProposedTerm(n)'
  BY <1>1, <1>2, <1>3, PlacedKept, WalFirstKept, NoGapKept, ProposedTermKept, Zenon
     DEF NodeInv, QueuesKept, OwnKept
<1> QED
  BY <1>2, <1>5, <1>6, <1>7, <1>8, <1>9, NodeStepInv, Zenon DEF NodeInv

LEMMA ReceiveCommandLedger ==
  ASSUME Inv, LedgerInv, timely, NEW n \in Nodes, ReceiveCommand(n)
  PROVE  LedgerInv'
<1>1. NodeInv(n) /\ LogInv /\ executing[n] = << >> /\ commands[n] # << >>
  BY Zenon DEF LedgerInv, ReceiveCommand
<1>2. Head(commands[n]) = commands[n][1] /\ Tail(commands[n]) = << >>
  <2>1. commands[n] \in AtMostOne(Command)
    BY NodeTypes, Zenon
  <2>2. Len(commands[n]) = 1
    BY <1>1, <2>1, OnlyElement, Zenon
  <2> QED
    BY <2>1, <2>2, FrontOfOne, Zenon DEF AtMostOne
<1>3. /\ UNCHANGED raftVars /\ OthersIdle(n) /\ QueuesKept(n) /\ CursorKept(n) /\ OwnKept(n)
      /\ role'[n] = role[n] /\ last_block'[n] = last_block[n] /\ canonical'[n] = canonical[n]
      /\ commands'[n] = << >> /\ executing'[n] = << commands[n][1] >>
  <2>1. /\ commands \in [Nodes -> AtMostOne(Command)]
        /\ executing \in [Nodes -> AtMostOne(Command)]
    BY Zenon DEF Inv, TypeInv, TypeOK, SourceType, ExecutorType
  <2> QED
    BY <1>2, <2>1, Zenon DEF ReceiveCommand, OthersIdle, NodeKept, QueuesKept,
       CursorKept, CommandsKept, OwnKept, durableVars, canonizerVars, applierVars
<1>4. UNCHANGED <<log, tail, term, leader, established, timely>>
  BY <1>3, Zenon DEF raftVars
<1>5. /\ Taken(n)' = Taken(n) /\ Forwarded(n)' = Forwarded(n) /\ Upto(n)' = Upto(n)
      /\ (Own(n)' <=> Own(n)) /\ (ReplayingWal(n)' <=> ReplayingWal(n))
  BY <1>3, Zenon DEF Upto, Forwarded, Taken, QueuesKept, CursorKept, OwnKept, Own, ReplayingWal
<1>6. \A type : ~Holds(<< >>, type)
  BY Zenon DEF Holds
<1>7. \A type : Holds(executing'[n], type) <=> Holds(commands[n], type)
  <2> DEFINE c == commands[n][1]
  <2>1. << c >> # << >> /\ << c >>[1] = c
    OBVIOUS
  <2> QED
    BY <1>1, <1>3, <2>1, Zenon DEF Holds
<1>8. Producing(n)' <=> Producing(n)
  BY <1>1, <1>3, <1>6, <1>7, Zenon DEF Producing
<1>9. Stream(n)'
  <2> SUFFICES ASSUME ~Own(n)
               PROVE  /\ InOrder(log, applied[n], Len(wal[n]), << >>, executing'[n], last_block[n])
                      /\ ~Producing(n) \/ leader = n =>
                           EndsAt(Len(wal[n]), << >>, executing'[n], last_block[n], Upto(n))
    BY <1>3, <1>4, <1>5, <1>8, Zenon DEF Stream, QueuesKept
  <2>1. /\ InOrder(log, applied[n], Len(wal[n]), commands[n], << >>, last_block[n])
        /\ ~Producing(n) \/ leader = n =>
             EndsAt(Len(wal[n]), commands[n], << >>, last_block[n], Upto(n))
    BY <1>1, Zenon DEF NodeInv, Stream
  <2> QED
    BY <1>1, <1>3, <2>1, OrderReceive, Zenon
<1>10. LeadersOnly(n)'
  BY <1>1, <1>3, <1>5, <1>8, Zenon DEF NodeInv, LeadersOnly
<1>11. OwnLast(n)'
  BY <1>1, <1>3, <1>4, <1>5, <1>6, <1>7, Zenon DEF NodeInv, OwnLast, QueuesKept, OwnKept
<1>12. Leads(n)'
  <2>1. (CaughtUpWithLog(n)' <=> CaughtUpWithLog(n)) /\ (Proposed(n)' <=> Proposed(n))
    BY <1>3, <1>4, <1>5, Zenon DEF CaughtUpWithLog, Proposed, OwnKept, QueuesKept
  <2> QED
    BY <1>1, <1>3, <1>4, <1>5, <1>6, <1>8, <2>1, Zenon DEF NodeInv, Leads, OwnKept, QueuesKept
<1>13. Placed(n)' /\ WalFirst(n)' /\ NoGap(n)' /\ ProposedTerm(n)'
  BY <1>1, <1>3, <1>4, PlacedKept, WalFirstKept, NoGapKept, ProposedTermKept, Zenon
     DEF NodeInv, QueuesKept, OwnKept
<1> QED
  BY <1>3, <1>9, <1>10, <1>11, <1>12, <1>13, NodeStepInv, Zenon DEF NodeInv

LEMMA SealedShape ==
  ASSUME NEW type, NEW b, NEW e, e = [type |-> type, block |-> b]
  PROVE  << e >> # << >> /\ << e >>[1] = e /\ e.block = b
         /\ \A t : Holds(<< e >>, t) <=> t = type
<1>1. << e >> # << >> /\ << e >>[1] = e /\ e.block = b /\ e.type = type
  OBVIOUS
<1> QED
  BY <1>1, Zenon DEF Holds

LEMMA ExecuteProduceLedger ==
  ASSUME Inv, LedgerInv, timely, NEW n \in Nodes, ExecuteProduce(n)
  PROVE  LedgerInv'
<1>1. NodeInv(n) /\ LogInv /\ Holds(executing[n], "Produce") /\ CaughtUp(n)
      /\ last_block[n] # NoBlock /\ Len(last_block[n]) < MaxLog
  BY Zenon DEF LedgerInv, ExecuteProduce, HasCommand, Holds
<1>2. PICK p \in Payloads : Seal(n, "Produce", Append(last_block[n], p))
  BY Zenon DEF ExecuteProduce
<1> DEFINE b == Append(last_block[n], p)
           e == [type |-> "Produce", block |-> b]
<1>3. executed[n] = << >> /\ proposing[n] = << >> /\ produced_queue[n] = << >> /\ canonical[n] = << >>
  BY <1>1, CaughtUpEmpty, Zenon
<1>4. /\ UNCHANGED raftVars /\ OthersIdle(n) /\ QueuesKept(n) /\ CursorKept(n)
      /\ role'[n] = role[n] /\ commands'[n] = commands[n] /\ executing'[n] = << >>
      /\ last_block'[n] = b /\ executed'[n] = << e >>
      /\ proposing'[n] = << >> /\ produced_queue'[n] = << >> /\ canonical'[n] = << >>
  <2>1. /\ last_block \in [Nodes -> Block \cup {NoBlock}] /\ executed \in [Nodes -> Seq(Payload)]
        /\ executing \in [Nodes -> AtMostOne(Command)]
    BY Zenon DEF Inv, TypeInv, TypeOK, ExecutorType
  <2>2. Append(<< >>, e) = << e >>
    OBVIOUS
  <2> HIDE DEF b
  <2>3. Seal(n, "Produce", b)
    BY <1>2, Zenon DEF b
  <2> QED
    BY <1>3, <2>1, <2>2, <2>3, Zenon DEF ExecuteProduce, Seal, OthersIdle, NodeKept, QueuesKept,
       CursorKept, CommandsKept, OwnKept, durableVars, sourceVars, canonizerVars, applierVars
<1>5. UNCHANGED <<log, tail, term, leader, established, timely>>
  BY <1>4, Zenon DEF raftVars
<1>6. last_block[n] \in Block /\ b \in Block /\ Len(b) = Len(last_block[n]) + 1
      /\ Len(last_block[n]) \in Nat /\ b # NoBlock /\ Extends(last_block[n], b)
  <2>1. last_block[n] \in Block
    BY <1>1, NodeTypes, Zenon
  <2>2. b \in Block /\ Len(b) = Len(last_block[n]) + 1
    BY <1>1, <2>1, NextBlock, Zenon
  <2> QED
    BY <2>1, <2>2, BlockLen, Zenon DEF Extends
<1> HIDE DEF b
<1>7. /\ Own(n)' /\ Holds(executed'[n], "Produce") /\ ~Own(n) /\ Producing(n)
      /\ \A type : ~Holds(<< >>, type)
  <2>1. Holds(<< e >>, "Produce") /\ \A type : ~Holds(<< >>, type)
    BY SealedShape, Zenon DEF Holds
  <2> QED
    BY <1>1, <1>3, <1>4, <2>1, Zenon DEF Own, Producing
<1>8. role[n] = "Leader" /\ ~ReplayingWal(n)
  <2>1. role[n] \in {"Replica", "Leader"}
    BY NodeTypes, Zenon
  <2> QED
    BY <1>1, <1>7, <2>1, Zenon DEF NodeInv, LeadersOnly
<1>9. Forwarded(n)' = Forwarded(n) /\ Taken(n)' = Taken(n) /\ ~ReplayingWal(n)'
  BY <1>4, <1>8, Zenon DEF Forwarded, Taken, QueuesKept, CursorKept, ReplayingWal
<1>10. leader = n =>
         /\ replays_to_execute[n] = << >> /\ ~Holds(commands[n], "Replay")
         /\ Len(last_block[n]) = Forwarded(n) /\ Known(log, applied[n], last_block[n])
         /\ established /\ CaughtUpWithLog(n)
  <2> SUFFICES ASSUME leader = n
               PROVE  /\ replays_to_execute[n] = << >> /\ ~Holds(commands[n], "Replay")
                      /\ Len(last_block[n]) = Forwarded(n)
                      /\ Known(log, applied[n], last_block[n])
                      /\ established /\ CaughtUpWithLog(n)
    BY Zenon
  <2>1. /\ replays_to_execute[n] = << >> /\ ~Holds(commands[n], "Replay")
        /\ established /\ CaughtUpWithLog(n)
    BY <1>1, <1>7, <1>8, Zenon DEF NodeInv, Leads
  <2>2. ~Holds(executing[n], "Replay")
    BY <1>1 DEF Holds
  <2>3. /\ InOrder(log, applied[n], Len(wal[n]), commands[n], executing[n], last_block[n])
        /\ EndsAt(Len(wal[n]), commands[n], executing[n], last_block[n], Upto(n))
    BY <1>1, <1>7, Zenon DEF NodeInv, Stream
  <2>4. Len(last_block[n]) = Upto(n)
    BY <1>1, <2>1, <2>2, <2>3, Zenon DEF EndsAt
  <2>5. Known(log, applied[n], last_block[n])
    BY <1>1, <2>3, Zenon DEF InOrder
  <2> QED
    BY <1>8, <2>1, <2>4, <2>5, Zenon DEF Upto
<1>11. OwnLast(n)'
  BY <1>4, <1>5, <1>6, <1>7, <1>9, <1>10, Zenon DEF OwnLast, QueuesKept
<1>12. Leads(n)'
  <2>1. leader = n => Extends(At(log, Len(log)), b)
    <3> SUFFICES ASSUME leader = n PROVE Extends(At(log, Len(log)), b)
      BY Zenon
    <3>1. Forwarded(n) = Len(log)
      <4>1. /\ applied[n] = Len(log) /\ Len(canonized_blocks_rx[n]) = 0
            /\ Len(replays_to_execute[n]) = 0 /\ Len(log) \in Nat
        <5>1. Len(<< >>) = 0
          OBVIOUS
        <5> QED
          BY <1>10, <5>1, NodeTypes, Zenon DEF CaughtUpWithLog
      <4>2. Len(log) - 0 - 0 = Len(log)
        BY <4>1
      <4> QED
        BY <4>1, <4>2, Zenon DEF Forwarded, Taken
    <3>2. last_block[n] = At(log, Len(log))
      BY <1>10, <3>1, Zenon DEF Known
    <3> QED
      BY <1>6, <3>2, Zenon
  <2>2. leader = n => CaughtUpWithLog(n)'
    BY <1>4, <1>5, <1>10, Zenon DEF CaughtUpWithLog, QueuesKept
  <2> QED
    BY <1>4, <1>5, <1>7, <1>10, <2>1, <2>2, Zenon DEF Leads, QueuesKept
<1>13. NoGap(n)'
  <2>1. Len(last_block[n]) <= Len(wal[n]) /\ Len(wal[n]) \in Nat
    BY <1>1, <1>3, NodeTypes, Zenon DEF NodeInv, NoGap, Idle
  <2>2. Len(b) <= Len(wal[n]) + 1
    BY <1>6, <2>1
  <2>3. << e >> # << >>
    OBVIOUS
  <2> QED
    BY <1>4, <2>2, <2>3, Zenon DEF NoGap, Idle, QueuesKept
<1>14. LeadersOnly(n)' /\ Stream(n)' /\ ProposedTerm(n)'
  <2>1. role'[n] # "Replica"
    BY <1>4, <1>8
  <2> QED
    BY <1>4, <1>7, <1>9, <2>1, Zenon DEF LeadersOnly, Stream, ProposedTerm
<1>15. Placed(n)' /\ WalFirst(n)'
  BY <1>1, <1>4, <1>5, PlacedKept, WalFirstKept, Zenon DEF NodeInv
<1> QED
  BY <1>4, <1>11, <1>12, <1>13, <1>14, <1>15, NodeStepInv, Zenon DEF NodeInv

\* replay() of a block, genesis or not: the node has no block in flight, so the
\* replayed block is the next one after last_block.
LEMMA ReplayedLedger ==
  ASSUME Inv, LedgerInv, timely, NEW n \in Nodes, CaughtUp(n), Holds(executing[n], "Replay"),
         NEW b, b = executing[n][1].block,
         UNCHANGED raftVars, OthersIdle(n), QueuesKept(n), CursorKept(n), role'[n] = role[n],
         commands'[n] = commands[n], executing'[n] = << >>, last_block'[n] = b,
         proposing'[n] = << >>, produced_queue'[n] = << >>,
         ~Holds(executed'[n], "Produce"), executed'[n] # << >> \/ b = Genesis
  PROVE  LedgerInv'
<1>1. NodeInv(n) /\ LogInv
  BY Zenon DEF LedgerInv
<1>2. UNCHANGED <<log, tail, term, leader, established, timely>>
  BY Zenon DEF raftVars
<1>3. executed[n] = << >> /\ proposing[n] = << >> /\ produced_queue[n] = << >> /\ canonical[n] = << >>
  BY CaughtUpEmpty, Zenon
<1>4. \A type : ~Holds(<< >>, type)
  BY Zenon DEF Holds
<1>5. ~Own(n) /\ ~Own(n)'
  BY <1>3, <1>4, Zenon DEF Own
<1>6. ~Holds(executing[n], "Produce")
  BY DEF Holds
<1>7. Producing(n)' <=> Producing(n)
  BY <1>4, <1>6, Zenon DEF Producing
<1>8. /\ Taken(n)' = Taken(n) /\ Forwarded(n)' = Forwarded(n) /\ Upto(n)' = Upto(n)
      /\ (ReplayingWal(n)' <=> ReplayingWal(n))
  BY Zenon DEF Upto, Forwarded, Taken, QueuesKept, CursorKept, ReplayingWal
<1>9. /\ executing[n] \in AtMostOne(Command) /\ last_block[n] \in Block \cup {NoBlock}
      /\ Len(wal[n]) \in Nat
  BY NodeTypes, Zenon
<1>10. /\ InOrder(log, applied[n], Len(wal[n]), commands[n], executing[n], last_block[n])
       /\ ~Producing(n) \/ leader = n =>
            EndsAt(Len(wal[n]), commands[n], executing[n], last_block[n], Upto(n))
  BY <1>1, <1>5, Zenon DEF NodeInv, Stream
<1>11. /\ InOrder(log, applied[n], Len(wal[n]), commands[n], << >>, b)
       /\ ~Producing(n) \/ leader = n =>
            EndsAt(Len(wal[n]), commands[n], << >>, b, Upto(n))
       /\ b \in Block /\ IsNext(log, applied[n], Len(wal[n]), last_block[n], b)
  <2>1. /\ InOrder(log, applied[n], Len(wal[n]), commands[n], << >>, b)
        /\ \A k : EndsAt(Len(wal[n]), commands[n], executing[n], last_block[n], k) =>
                   EndsAt(Len(wal[n]), commands[n], << >>, b, k)
        /\ b \in Block /\ IsNext(log, applied[n], Len(wal[n]), last_block[n], b)
    BY <1>9, <1>10, OrderExecute, Zenon
  <2> QED
    BY <1>10, <2>1, Zenon
<1>12. Stream(n)'
  BY <1>2, <1>7, <1>8, <1>11, Zenon DEF Stream, QueuesKept
<1>13. NoGap(n)'
  <2>1. last_block[n] # NoBlock => Len(last_block[n]) <= Len(wal[n])
    BY <1>1, <1>3, Zenon DEF NodeInv, NoGap, Idle
  <2>2. /\ last_block[n] = NoBlock => Len(b) <= Len(wal[n])
        /\ last_block[n] # NoBlock => Len(b) = Len(last_block[n]) + 1
    BY <1>11, Zenon DEF IsNext
  <2>3. Len(b) <= Len(wal[n]) + 1
    <3> DEFINE W == Len(wal[n])
               k == Len(b)
               l == Len(last_block[n])
    <3>1. W \in Nat /\ k \in Nat /\ (last_block[n] # NoBlock => l \in Nat)
      BY <1>9, <1>11, BlockLen, Zenon
    <3> HIDE DEF W, k, l
    <3>2. (k <= W) \/ (l \in Nat /\ l <= W /\ k = l + 1)
      BY <2>1, <2>2, <3>1, Zenon DEF W, k, l
    <3>3. k <= W + 1
      BY <3>1, <3>2
    <3> QED
      BY <3>3, Zenon DEF W, k
  <2>4. b = Genesis => Len(b) <= Len(wal[n])
    <3>1. 0 <= Len(wal[n])
      BY <1>9
    <3> QED
      BY <3>1, GenesisLen, Zenon
  <2> QED
    BY <2>3, <2>4, Zenon DEF NoGap, Idle, QueuesKept
<1>14. LeadersOnly(n)' /\ OwnLast(n)' /\ ProposedTerm(n)'
  BY <1>1, <1>5, <1>7, <1>8, Zenon DEF NodeInv, LeadersOnly, OwnLast, ProposedTerm
<1>15. Leads(n)'
  <2>1. CaughtUpWithLog(n)' <=> CaughtUpWithLog(n)
    BY <1>2, Zenon DEF CaughtUpWithLog, QueuesKept
  <2> QED
    BY <1>1, <1>2, <1>4, <1>5, <1>7, <2>1, Zenon DEF NodeInv, Leads, QueuesKept
<1>16. Placed(n)' /\ WalFirst(n)'
  BY <1>1, <1>2, PlacedKept, WalFirstKept, Zenon DEF NodeInv
<1> QED
  BY <1>12, <1>13, <1>14, <1>15, <1>16, NodeStepInv, Zenon DEF NodeInv

LEMMA ReplayGenesisLedger ==
  ASSUME Inv, LedgerInv, timely, NEW n \in Nodes, ReplayGenesis(n)
  PROVE  LedgerInv'
<1> DEFINE b == executing[n][1].block
<1>1. Holds(executing[n], "Replay") /\ CaughtUp(n) /\ b = Genesis
  BY Zenon DEF ReplayGenesis, HasCommand, Holds
<1>2. executed[n] = << >> /\ proposing[n] = << >> /\ produced_queue[n] = << >>
  BY <1>1, CaughtUpEmpty, Zenon
<1>3. /\ UNCHANGED raftVars /\ OthersIdle(n) /\ QueuesKept(n) /\ CursorKept(n)
      /\ role'[n] = role[n] /\ commands'[n] = commands[n] /\ executing'[n] = << >>
      /\ last_block'[n] = b /\ executed'[n] = << >>
      /\ proposing'[n] = << >> /\ produced_queue'[n] = << >>
  <2>1. /\ last_block \in [Nodes -> Block \cup {NoBlock}]
        /\ executing \in [Nodes -> AtMostOne(Command)]
    BY Zenon DEF Inv, TypeInv, TypeOK, ExecutorType
  <2> HIDE DEF b
  <2> QED
    BY <1>1, <1>2, <2>1, Zenon DEF ReplayGenesis, OthersIdle, NodeKept, QueuesKept,
       CursorKept, CommandsKept, OwnKept, durableVars, sourceVars, canonizerVars, applierVars
<1>4. ~Holds(executed'[n], "Produce")
  BY <1>3, Zenon DEF Holds
<1> QED
  BY <1>1, <1>3, <1>4, ReplayedLedger, Zenon

LEMMA ExecuteReplayLedger ==
  ASSUME Inv, LedgerInv, timely, NEW n \in Nodes, ExecuteReplay(n)
  PROVE  LedgerInv'
<1> DEFINE b == executing[n][1].block
           e == [type |-> "Replay", block |-> b]
<1>1. Holds(executing[n], "Replay") /\ CaughtUp(n) /\ Seal(n, "Replay", b)
  BY Zenon DEF ExecuteReplay, HasCommand, Holds
<1> HIDE DEF b
<1>2. executed[n] = << >> /\ proposing[n] = << >> /\ produced_queue[n] = << >>
  BY <1>1, CaughtUpEmpty, Zenon
<1>3. /\ UNCHANGED raftVars /\ OthersIdle(n) /\ QueuesKept(n) /\ CursorKept(n)
      /\ role'[n] = role[n] /\ commands'[n] = commands[n] /\ executing'[n] = << >>
      /\ last_block'[n] = b /\ executed'[n] = << e >>
      /\ proposing'[n] = << >> /\ produced_queue'[n] = << >>
  <2>1. /\ last_block \in [Nodes -> Block \cup {NoBlock}] /\ executed \in [Nodes -> Seq(Payload)]
        /\ executing \in [Nodes -> AtMostOne(Command)]
    BY Zenon DEF Inv, TypeInv, TypeOK, ExecutorType
  <2>2. Append(<< >>, e) = << e >>
    OBVIOUS
  <2>3. UNCHANGED <<raftVars, durableVars, applied, sourceVars, canonizerVars, applierVars>>
    BY Zenon DEF ExecuteReplay
  <2> QED
    BY <1>1, <1>2, <2>1, <2>2, <2>3, Zenon DEF Seal, OthersIdle, NodeKept, QueuesKept,
       CursorKept, CommandsKept, OwnKept, durableVars, sourceVars, canonizerVars, applierVars
<1>4. ~Holds(<< e >>, "Produce") /\ << e >> # << >>
  BY DEF Holds
<1>5. b = executing[n][1].block
  BY Zenon DEF b
<1> HIDE DEF e
<1> QED
  BY <1>1, <1>3, <1>4, <1>5, ReplayedLedger, Zenon

LEMMA PassReplayLedger ==
  ASSUME Inv, LedgerInv, timely, NEW n \in Nodes, PassReplay(n)
  PROVE  LedgerInv'
<1>1. NodeInv(n) /\ LogInv /\ executed[n] # << >> /\ Head(executed[n]).type = "Replay"
  BY Zenon DEF LedgerInv, PassReplay, CanReceiveExecuted
<1>2. /\ proposing[n] = << >> /\ produced_queue[n] = << >> /\ canonical[n] = << >>
      /\ Head(executed[n]) = executed[n][1] /\ Tail(executed[n]) = << >>
  BY <1>1, OneQueue, Zenon
<1> DEFINE b == Head(executed[n]).block
<1>3. /\ UNCHANGED raftVars /\ OthersIdle(n) /\ QueuesKept(n) /\ CursorKept(n)
      /\ role'[n] = role[n] /\ CommandsKept(n) /\ last_block'[n] = last_block[n]
      /\ executed'[n] = << >> /\ canonical'[n] = << b >>
      /\ proposing'[n] = << >> /\ produced_queue'[n] = << >>
  <2>1. /\ executed \in [Nodes -> Seq(Payload)] /\ canonical \in [Nodes -> Seq(Block)]
    BY Zenon DEF Inv, TypeInv, TypeOK, ExecutorType, ApplierType
  <2>2. Append(<< >>, b) = << b >>
    OBVIOUS
  <2> QED
    BY <1>2, <2>1, <2>2, Zenon DEF PassReplay, SendToApplier, OthersIdle, NodeKept, QueuesKept,
       CursorKept, CommandsKept, OwnKept, durableVars, sourceVars, canonizerVars
<1>4. UNCHANGED <<log, tail, term, leader, established, timely>>
  BY <1>3, Zenon DEF raftVars
<1>5. ~Holds(executed[n], "Produce") /\ ~Holds(executed'[n], "Produce")
  BY <1>1, <1>2, <1>3 DEF Holds
<1>6. ~Own(n) /\ ~Own(n)' /\ (Producing(n)' <=> Producing(n)) /\ ~Idle(n)'
  <2>1. << b >> # << >>
    OBVIOUS
  <2> QED
    BY <1>2, <1>3, <1>5, <2>1, Zenon DEF Own, Producing, CommandsKept, Idle
<1>7. /\ Taken(n)' = Taken(n) /\ Forwarded(n)' = Forwarded(n) /\ Upto(n)' = Upto(n)
      /\ (ReplayingWal(n)' <=> ReplayingWal(n))
  BY <1>3, Zenon DEF Upto, Forwarded, Taken, QueuesKept, CursorKept, ReplayingWal
<1>8. Stream(n)'
  BY <1>1, <1>3, <1>4, <1>6, <1>7, Zenon DEF NodeInv, Stream, QueuesKept, CommandsKept
<1>9. NoGap(n)'
  BY <1>1, <1>3, <1>6, Zenon DEF NodeInv, NoGap, QueuesKept
<1>10. LeadersOnly(n)' /\ OwnLast(n)' /\ ProposedTerm(n)'
  BY <1>1, <1>3, <1>6, <1>7, Zenon DEF NodeInv, LeadersOnly, OwnLast, ProposedTerm
<1>11. Leads(n)'
  <2>1. CaughtUpWithLog(n)' <=> CaughtUpWithLog(n)
    BY <1>3, <1>4, Zenon DEF CaughtUpWithLog, QueuesKept
  <2> QED
    BY <1>1, <1>3, <1>4, <1>5, <1>6, <2>1, Zenon DEF NodeInv, Leads, QueuesKept, CommandsKept
<1>12. Placed(n)' /\ WalFirst(n)'
  BY <1>1, <1>3, <1>4, PlacedKept, WalFirstKept, Zenon DEF NodeInv
<1> QED
  BY <1>3, <1>8, <1>9, <1>10, <1>11, <1>12, NodeStepInv, Zenon DEF NodeInv

\* The leader's own block comes back canonized: it is the next one in the queue,
\* so it is known to be canonized and goes to the applier.
LEMMA MatchCanonizedLedger ==
  ASSUME Inv, LedgerInv, timely, NEW n \in Nodes, MatchCanonized(n)
  PROVE  LedgerInv'
<1> DEFINE rx == canonized_blocks_rx[n]
           b == last_block[n]
<1>1. /\ NodeInv(n) /\ LogInv /\ rx # << >> /\ produced_queue[n] # << >>
      /\ Head(produced_queue[n]) = Head(rx)
  BY Zenon DEF LedgerInv, MatchCanonized
<1>2. /\ executed[n] = << >> /\ proposing[n] = << >> /\ canonical[n] = << >>
      /\ Head(produced_queue[n]) = b /\ Tail(produced_queue[n]) = << >> /\ b \in Block
  BY <1>1, OneQueue, Zenon
<1>3. /\ UNCHANGED raftVars /\ OthersIdle(n) /\ CursorKept(n)
      /\ role'[n] = role[n] /\ CommandsKept(n) /\ last_block'[n] = b
      /\ wal'[n] = wal[n] /\ raft_applied'[n] = raft_applied[n] /\ applied'[n] = applied[n]
      /\ replays_to_execute'[n] = replays_to_execute[n] /\ canonized_blocks_rx'[n] = Tail(rx)
      /\ executed'[n] = << >> /\ canonical'[n] = << b >>
      /\ proposing'[n] = << >> /\ produced_queue'[n] = << >>
  <2>1. /\ canonized_blocks_rx \in [Nodes -> Seq(Block)]
        /\ produced_queue \in [Nodes -> Seq(Block)] /\ canonical \in [Nodes -> Seq(Block)]
    BY Zenon DEF Inv, TypeInv, TypeOK, CanonizerType, ApplierType
  <2>2. Append(<< >>, b) = << b >>
    OBVIOUS
  <2> HIDE DEF b
  <2> QED
    BY <1>2, <2>1, <2>2, Zenon DEF MatchCanonized, SendToApplier, OthersIdle, NodeKept,
       QueuesKept, CursorKept, CommandsKept, OwnKept, durableVars, sourceVars, executorVars, b
<1>4. UNCHANGED <<log, tail, term, leader, established, timely>>
  BY <1>3, Zenon DEF raftVars
<1>5. /\ log \in Seq(Block) /\ wal[n] \in Seq(Block) /\ applied[n] \in Nat /\ rx \in Seq(Block)
      /\ Len(rx) \in Nat /\ Len(log) \in Nat /\ role[n] \in {"Replica", "Leader"}
  BY NodeTypes, Zenon
<1>6. Own(n) /\ role[n] # "Replica" /\ ~ReplayingWal(n)
  BY <1>1, Zenon DEF Own, NodeInv, LeadersOnly
<1>7. /\ replays_to_execute[n] = << >> /\ b # NoBlock /\ Len(b) = Forwarded(n) + 1
      /\ ~Holds(commands[n], "Replay") /\ ~Holds(executing[n], "Replay")
  BY <1>1, <1>6, Zenon DEF NodeInv, OwnLast
<1>8. Placed(n)'
  <2>1. Aligned(log, wal[n], applied[n], raft_applied[n], rx, replays_to_execute[n])
    BY <1>1, Zenon DEF NodeInv, Placed
  <2> HIDE DEF rx
  <2>2. Aligned(log, wal[n], applied[n], raft_applied[n], Tail(rx), replays_to_execute[n])
    BY <1>1, <1>5, <1>7, <2>1, AlignedTake, Zenon
  <2> QED
    BY <1>3, <1>4, <2>2, Zenon DEF Placed
<1>9. Known(log, applied[n], b)
  <2>1. Aligned(log, wal[n], applied[n], raft_applied[n], rx, replays_to_execute[n])
    BY <1>1, Zenon DEF NodeInv, Placed
  <2>2. applied[n] <= Len(log)
    BY <1>1, Positions, Zenon DEF NodeInv
  <2>3. replays_to_execute[n] \in Seq(Block)
    BY NodeTypes, Zenon
  <2> HIDE DEF rx, b
  <2>4. Entry(log, applied[n] - Len(rx) + 1, Head(rx)) /\ applied[n] - Len(rx) + 1 <= applied[n]
    BY <1>1, <1>5, <2>1, <2>3, NextCanonized, Zenon
  <2>5. Known(log, applied[n], Head(rx))
    BY <1>1, <1>5, <2>2, <2>4, EntryKnown, Zenon DEF LogInv
  <2> QED
    BY <1>1, <1>2, <2>5, Zenon
<1>10. Len(Tail(rx)) = Len(rx) - 1 /\ (Len(rx) = 1 => Tail(rx) = << >>)
  <2> HIDE DEF rx
  <2> QED
    BY <1>1, <1>5, LenTail, TailOfOne, Zenon
<1>11. Forwarded(n)' = Len(b)
  <2> DEFINE i == Len(rx)
             a == applied[n]
             r == Len(replays_to_execute[n])
  <2>1. Forwarded(n) = a - i - r /\ Forwarded(n)' = a - (i - 1) - r
    BY <1>3, <1>10, Zenon DEF Forwarded, Taken
  <2>2. i \in Nat /\ a \in Nat /\ r \in Nat
    BY <1>5, NodeTypes, Zenon
  <2> HIDE DEF i, a, r
  <2>3. a - (i - 1) - r = (a - i - r) + 1
    BY <2>2
  <2> QED
    BY <1>7, <2>1, <2>3, Zenon
<1>12. ~Own(n)' /\ ~Idle(n)' /\ ~ReplayingWal(n)' /\ (Producing(n)' <=> Producing(n))
  <2>1. << b >> # << >>
    OBVIOUS
  <2> QED
    BY <1>3, <1>6, <2>1, Zenon DEF Own, Idle, Holds, ReplayingWal, CursorKept, Producing,
       CommandsKept
<1>13. Stream(n)'
  <2> HIDE DEF b
  <2>1. /\ InOrder(log, applied[n], Len(wal[n]), commands[n], executing[n], b)
        /\ EndsAt(Len(wal[n]), commands[n], executing[n], b, Len(b))
    BY <1>7, <1>9, OrderCanonized, Zenon
  <2>2. Upto(n)' = Len(b)
    BY <1>11, <1>12, Zenon DEF Upto
  <2> QED
    BY <1>3, <1>4, <2>1, <2>2, Zenon DEF Stream, CommandsKept
<1>14. WalFirst(n)' /\ LeadersOnly(n)' /\ OwnLast(n)' /\ ProposedTerm(n)'
  BY <1>1, <1>3, <1>6, <1>12, Zenon DEF NodeInv, WalFirst, LeadersOnly, OwnLast, ProposedTerm,
     CursorKept
<1>15. NoGap(n)'
  BY <1>1, <1>3, <1>12, Zenon DEF NodeInv, NoGap
<1>16. Leads(n)'
  <2> SUFFICES ASSUME role[n] = "Leader", leader = n
               PROVE  /\ established /\ CaughtUpWithLog(n)'
                      /\ Holds(executing[n], "Produce") => ~Holds(commands[n], "Replay")
    BY <1>3, <1>4, <1>7, <1>12, Zenon DEF Leads, CommandsKept, Holds
  <2>1. established /\ tail = << >> /\ applied[n] = Len(log) /\ Taken(n) = Len(log) - 1
    BY <1>1, Zenon DEF NodeInv, Leads
  <2>2. Len(rx) = 1
    <3>1. Len(log) - Len(rx) = Len(log) - 1
      BY <2>1, Zenon DEF Taken
    <3> DEFINE i == Len(rx)
               l == Len(log)
    <3>2. i \in Nat /\ l \in Nat /\ l - i = l - 1
      BY <1>5, <3>1, Zenon
    <3> HIDE DEF i, l
    <3>3. i = 1
      BY <3>2
    <3> QED
      BY <3>3, Zenon DEF i
  <2> QED
    BY <1>3, <1>4, <1>7, <1>10, <2>1, <2>2, Zenon DEF CaughtUpWithLog
<1> QED
  BY <1>3, <1>8, <1>13, <1>14, <1>15, <1>16, NodeStepInv, Zenon DEF NodeInv

\* A canonized block of another node goes to the source.  A confirmed leader
\* without a block of its own in raft meets none.
LEMMA ForwardCanonizedLedger ==
  ASSUME Inv, LedgerInv, timely, NEW n \in Nodes, ForwardCanonized(n)
  PROVE  LedgerInv'
<1> DEFINE rx == canonized_blocks_rx[n]
           rp == replays_to_execute[n]
           t == Tail(rx)
           u == Append(rp, Head(rx))
<1>1. /\ NodeInv(n) /\ LogInv /\ rx # << >> /\ produced_queue[n] = << >> /\ proposing[n] = << >>
  BY Zenon DEF LedgerInv, ForwardCanonized, Selecting
<1>2. /\ UNCHANGED raftVars /\ OthersIdle(n) /\ CursorKept(n)
      /\ role'[n] = role[n] /\ CommandsKept(n) /\ last_block'[n] = last_block[n] /\ OwnKept(n)
      /\ wal'[n] = wal[n] /\ raft_applied'[n] = raft_applied[n] /\ applied'[n] = applied[n]
      /\ replays_to_execute'[n] = u /\ canonized_blocks_rx'[n] = t
      /\ canonical'[n] = canonical[n]
  <2>1. /\ canonized_blocks_rx \in [Nodes -> Seq(Block)]
        /\ replays_to_execute \in [Nodes -> Seq(Block)]
    BY Zenon DEF Inv, TypeInv, TypeOK, CanonizerType, SourceType
  <2> QED
    BY <2>1, Zenon DEF ForwardCanonized, OthersIdle, NodeKept,
       QueuesKept, CursorKept, CommandsKept, OwnKept, durableVars, executorVars, applierVars
<1>3. UNCHANGED <<log, tail, term, leader, established, timely>>
  BY <1>2, Zenon DEF raftVars
<1>4. /\ log \in Seq(Block) /\ wal[n] \in Seq(Block) /\ applied[n] \in Nat /\ rx \in Seq(Block)
      /\ rp \in Seq(Block) /\ Len(rp) \in Nat /\ Len(rx) \in Nat
      /\ role[n] \in {"Replica", "Leader"}
  BY NodeTypes, Zenon
<1>5. Aligned(log, wal[n], applied[n], raft_applied[n], rx, rp)
  BY <1>1, Zenon DEF NodeInv, Placed
<1>6. /\ Aligned(log, wal[n], applied[n], raft_applied[n], t, u)
      /\ Len(t) = Len(rx) - 1 /\ Len(u) = Len(rp) + 1
  <2>1. t = Tail(rx) /\ u = Append(rp, Head(rx))
    BY Zenon
  <2> HIDE DEF rx, rp, t, u
  <2>2. Aligned(log, wal[n], applied[n], raft_applied[n], t, u)
    BY <1>1, <1>4, <1>5, <2>1, AlignedForward, Zenon
  <2>3. Head(rx) \in Block
    BY <1>1, <1>4
  <2> QED
    BY <1>1, <1>4, <2>1, <2>2, <2>3, LenTail, LenAppend, Zenon
<1>7. Placed(n)'
  BY <1>2, <1>3, <1>6, Zenon DEF Placed
<1>8. Forwarded(n)' = Forwarded(n)
  <2> DEFINE i == Len(rx)
             j == Len(rp)
             a == applied[n]
  <2>1. Forwarded(n) = a - i - j /\ Forwarded(n)' = a - (i - 1) - (j + 1)
    BY <1>2, <1>6, Zenon DEF Forwarded, Taken
  <2>2. i \in Nat /\ a \in Nat /\ j \in Nat
    BY <1>4, Zenon
  <2> HIDE DEF i, a, j
  <2>3. a - (i - 1) - (j + 1) = a - i - j
    BY <2>2
  <2> QED
    BY <2>1, <2>3, Zenon
<1>9. /\ Upto(n)' = Upto(n) /\ (ReplayingWal(n)' <=> ReplayingWal(n))
      /\ (Own(n)' <=> Own(n)) /\ (Producing(n)' <=> Producing(n))
  BY <1>2, <1>8, Zenon DEF Upto, ReplayingWal, CursorKept, Own, OwnKept, Producing, CommandsKept
<1>10. ~(role[n] = "Leader" /\ leader = n)
  BY <1>1, Zenon DEF NodeInv, Leads, CaughtUpWithLog, Own
<1>11. WalFirst(n)'
  BY <1>1, <1>2, <1>8, <1>9, Zenon DEF NodeInv, WalFirst, CursorKept
<1>12. Stream(n)'
  BY <1>1, <1>2, <1>3, <1>9, Zenon DEF NodeInv, Stream, CommandsKept
<1>13. OwnLast(n)' /\ Leads(n)'
  <2>1. ~(Own(n) /\ leader = n)
    BY <1>1, <1>4, <1>10, OnlyReplays, Zenon DEF NodeInv
  <2> QED
    BY <1>1, <1>2, <1>3, <1>9, <1>10, <2>1, Zenon DEF OwnLast, Leads, OwnKept
<1>14. LeadersOnly(n)' /\ NoGap(n)' /\ ProposedTerm(n)'
  BY <1>1, <1>2, <1>3, LeadersOnlyKept, NoGapKept, ProposedTermKept, Zenon DEF NodeInv, OwnKept
<1> QED
  BY <1>2, <1>7, <1>11, <1>12, <1>13, <1>14, NodeStepInv, Zenon DEF NodeInv

\* The applier writes last_block, the next canonized block, or finds it written.
LEMMA ApplyBlockLedger ==
  ASSUME Inv, LedgerInv, timely, NEW n \in Nodes, ApplyBlock(n)
  PROVE  LedgerInv'
<1> DEFINE b == last_block[n]
           w == wal[n]
<1>1. NodeInv(n) /\ LogInv /\ canonical[n] # << >>
  BY Zenon DEF LedgerInv, ApplyBlock
<1>2. /\ executed[n] = << >> /\ proposing[n] = << >> /\ produced_queue[n] = << >>
      /\ Head(canonical[n]) = b /\ Tail(canonical[n]) = << >> /\ b \in Block
  BY <1>1, OneQueue, Zenon
<1>3. /\ UNCHANGED raftVars /\ OthersIdle(n) /\ CursorKept(n) /\ CommandsKept(n) /\ OwnKept(n)
      /\ role'[n] = role[n] /\ last_block'[n] = b /\ raft_applied'[n] = raft_applied[n]
      /\ applied'[n] = applied[n] /\ canonized_blocks_rx'[n] = canonized_blocks_rx[n]
      /\ replays_to_execute'[n] = replays_to_execute[n]
      /\ Len(b) <= Len(w) + 1
      /\ wal'[n] = IF Len(b) <= Len(w) THEN w ELSE Append(w, b)
  <2>1. wal \in [Nodes -> AtMostMaxLog(Block)] /\ canonical \in [Nodes -> Seq(Block)]
    BY Zenon DEF Inv, TypeInv, TypeOK, DurableType, ApplierType
  <2>2. /\ UNCHANGED <<raftVars, raft_applied, applied, sourceVars, executorVars, canonizerVars>>
        /\ canonical' = [canonical EXCEPT ![n] = Tail(@)] /\ Len(b) <= Len(w) + 1
        /\ wal' = IF Len(b) <= Len(w) THEN wal ELSE [wal EXCEPT ![n] = Append(@, b)]
    BY <1>2, Zenon DEF ApplyBlock
  <2> HIDE DEF b
  <2>3. \A m \in Nodes : m # n => wal'[m] = wal[m]
    BY <2>1, <2>2, Zenon
  <2>4. wal'[n] = IF Len(b) <= Len(w) THEN w ELSE Append(w, b)
    BY <2>1, <2>2, Zenon
  <2>5. /\ OthersIdle(n) /\ CursorKept(n) /\ CommandsKept(n) /\ OwnKept(n)
        /\ role'[n] = role[n] /\ last_block'[n] = b /\ raft_applied'[n] = raft_applied[n]
        /\ applied'[n] = applied[n] /\ canonized_blocks_rx'[n] = canonized_blocks_rx[n]
        /\ replays_to_execute'[n] = replays_to_execute[n]
    BY <2>1, <2>2, <2>3, Zenon DEF OthersIdle, NodeKept, QueuesKept, CursorKept, CommandsKept,
       OwnKept, sourceVars, executorVars, canonizerVars, b
  <2> QED
    BY <2>2, <2>4, <2>5, Zenon
<1>4. UNCHANGED <<log, tail, term, leader, established, timely>>
  BY <1>3, Zenon DEF raftVars
<1>5. /\ log \in Seq(Block) /\ w \in Seq(Block) /\ applied[n] \in Nat /\ Len(w) \in Nat
      /\ canonized_blocks_rx[n] \in Seq(Block) /\ replays_to_execute[n] \in Seq(Block)
      /\ commands[n] \in AtMostOne(Command) /\ executing[n] \in AtMostOne(Command)
      /\ b \in Block \cup {NoBlock} /\ replay_until[n] \in Nat
  BY NodeTypes, Zenon
<1>6. ~Own(n) /\ (Own(n)' <=> Own(n)) /\ (Producing(n)' <=> Producing(n))
  BY <1>2, <1>3, Zenon DEF Own, Holds, OwnKept, Producing, CommandsKept
<1>7. /\ InOrder(log, applied[n], Len(w), commands[n], executing[n], b)
      /\ ~Producing(n) \/ leader = n =>
           EndsAt(Len(w), commands[n], executing[n], b, Upto(n))
  BY <1>1, <1>6, Zenon DEF NodeInv, Stream
<1>8. Known(log, applied[n], b)
  BY <1>2, <1>7, BlockLen, Zenon DEF InOrder
<1>9. /\ Placed(n)' /\ Len(wal'[n]) \in Nat /\ Len(w) <= Len(wal'[n]) /\ Len(b) <= Len(wal'[n])
  <2>1. Aligned(log, w, applied[n], raft_applied[n], canonized_blocks_rx[n],
                replays_to_execute[n])
    BY <1>1, Zenon DEF NodeInv, Placed
  <2>2. CASE Len(b) <= Len(w)
    <3>1. Len(w) <= Len(w)
      BY <1>5
    <3> QED
      BY <1>3, <1>4, <1>5, <2>1, <2>2, <3>1, Zenon DEF Placed
  <2>3. CASE ~(Len(b) <= Len(w))
    <3>1. Len(b) = Len(w) + 1 /\ Len(w) < applied[n] /\ Len(b) # 0
      <4> DEFINE k == Len(b)
                 l == Len(w)
                 a == applied[n]
      <4>1. k \in Nat /\ l \in Nat /\ a \in Nat /\ ~(k <= l) /\ k <= l + 1 /\ k <= a
        BY <1>2, <1>3, <1>5, <1>8, <2>3, BlockLen, Zenon DEF Known
      <4> HIDE DEF k, l, a
      <4>2. k = l + 1 /\ l < a /\ k # 0
        BY <4>1
      <4> QED
        BY <4>2, Zenon DEF k, l, a
    <3>2. b = log[Len(w) + 1]
      BY <1>8, <3>1, Zenon DEF Known, At
    <3> HIDE DEF b, w
    <3>3. Aligned(log, Append(w, b), applied[n], raft_applied[n], canonized_blocks_rx[n],
                  replays_to_execute[n])
      BY <1>2, <1>5, <2>1, <3>1, <3>2, AlignedPersist, Zenon
    <3>4. Len(Append(w, b)) = Len(w) + 1
      BY <1>2, <1>5, LenAppend, Zenon
    <3>5. Len(w) + 1 \in Nat /\ Len(w) <= Len(w) + 1 /\ Len(w) + 1 <= Len(w) + 1
      BY <1>5
    <3> QED
      BY <1>3, <1>4, <2>3, <3>1, <3>3, <3>4, <3>5, Zenon DEF Placed
  <2> QED
    BY <2>2, <2>3, Zenon
<1>10. /\ Taken(n)' = Taken(n) /\ Forwarded(n)' = Forwarded(n) /\ Upto(n)' = Upto(n)
       /\ (ReplayingWal(n)' <=> ReplayingWal(n)) /\ Upto(n) \in Int
  <2>1. Forwarded(n) \in Nat /\ wal_cursor[n] \in Nat
    BY <1>1, Positions, NodeTypes, Zenon DEF NodeInv
  <2>2. Forwarded(n) \in Int /\ wal_cursor[n] - 1 \in Int
    BY <2>1
  <2> QED
    BY <1>3, <2>2, Zenon DEF Upto, Forwarded, Taken, CursorKept, ReplayingWal
<1>11. Stream(n)'
  <2>1. InOrder(log, applied[n], Len(wal'[n]), commands[n], executing[n], b)
    <3>1. applied[n] <= applied[n]
      BY <1>5
    <3> HIDE DEF b, w
    <3> QED
      BY <1>5, <1>7, <1>9, <3>1, OrderGrows, Zenon
  <2>2. ~Producing(n) \/ leader = n =>
          EndsAt(Len(wal'[n]), commands[n], executing[n], b, Upto(n))
    <3> HIDE DEF b, w
    <3> SUFFICES ASSUME ~Producing(n) \/ leader = n
                 PROVE  EndsAt(Len(wal'[n]), commands[n], executing[n], b, Upto(n))
      BY Zenon
    <3>1. EndsAt(Len(w), commands[n], executing[n], b, Upto(n))
      BY <1>7, Zenon
    <3> QED
      BY <1>5, <1>9, <1>10, <3>1, EndGrows, Zenon
  <2> QED
    BY <1>3, <1>4, <1>6, <1>10, <2>1, <2>2, Zenon DEF Stream, CommandsKept
<1>12. WalFirst(n)'
  <2>1. replay_until[n] <= Len(wal'[n])
    <3> DEFINE r == replay_until[n]
               l == Len(w)
               k == Len(wal'[n])
    <3>1. r \in Nat /\ l \in Nat /\ k \in Nat /\ r <= l /\ l <= k
      BY <1>1, <1>5, <1>9, Zenon DEF NodeInv, WalFirst
    <3> HIDE DEF r, l, k
    <3>2. r <= k
      BY <3>1
    <3> QED
      BY <3>2, Zenon DEF r, k
  <2> QED
    BY <1>1, <1>3, <1>10, <2>1, Zenon DEF NodeInv, WalFirst, CursorKept
<1>13. NoGap(n)'
  <2>1. Len(b) <= Len(wal'[n]) + 1
    <3> DEFINE k == Len(b)
               l == Len(wal'[n])
    <3>1. k \in Nat /\ l \in Nat /\ k <= l
      BY <1>2, <1>9, BlockLen, Zenon
    <3> HIDE DEF k, l
    <3>2. k <= l + 1
      BY <3>1
    <3> QED
      BY <3>2, Zenon DEF k, l
  <2> QED
    BY <1>3, <1>9, <2>1, Zenon DEF NoGap
<1>14. LeadersOnly(n)' /\ OwnLast(n)' /\ ProposedTerm(n)'
  BY <1>1, <1>2, <1>3, <1>4, <1>6, LeadersOnlyKept, ProposedTermKept, Zenon DEF NodeInv, OwnLast,
     OwnKept
<1>15. Leads(n)'
  <2>1. CaughtUpWithLog(n)' <=> CaughtUpWithLog(n)
    BY <1>3, <1>4, Zenon DEF CaughtUpWithLog
  <2> QED
    BY <1>1, <1>2, <1>3, <1>4, <1>6, <2>1, Zenon DEF NodeInv, Leads, CommandsKept, OwnKept, Holds
<1> QED
  BY <1>3, <1>9, <1>11, <1>12, <1>13, <1>14, <1>15, NodeStepInv, Zenon DEF NodeInv

\* propose() returns on the leader: the block is raft's last entry and the only
\* one the canonizer has not taken.
LEMMA ProposeReturnsLedger ==
  ASSUME Inv, LedgerInv, timely, NEW n \in Nodes, ProposeReturns(n)
  PROVE  LedgerInv'
<1> DEFINE b == last_block[n]
           rx == canonized_blocks_rx[n]
<1>1. /\ NodeInv(n) /\ LogInv /\ proposing[n] # << >> /\ proposing[n][1].term = term
      /\ applied[n] >= proposing[n][1].index
  BY Zenon DEF LedgerInv, ProposeReturns
<1>2. /\ executed[n] = << >> /\ produced_queue[n] = << >> /\ canonical[n] = << >>
      /\ proposing[n][1].block = b /\ b \in Block
  BY <1>1, OneQueue, Zenon
<1>3. /\ UNCHANGED raftVars /\ OthersIdle(n) /\ QueuesKept(n) /\ CursorKept(n) /\ CommandsKept(n)
      /\ role'[n] = role[n] /\ last_block'[n] = b /\ canonical'[n] = canonical[n]
      /\ executed'[n] = << >> /\ proposing'[n] = << >> /\ produced_queue'[n] = << b >>
  <2>1. /\ proposing \in [Nodes -> AtMostOne(Proposal)]
        /\ produced_queue \in [Nodes -> Seq(Block)]
    BY Zenon DEF Inv, TypeInv, TypeOK, CanonizerType
  <2>2. Append(<< >>, b) = << b >>
    OBVIOUS
  <2>3. /\ UNCHANGED <<raftVars, durableVars, applied, sourceVars, executorVars,
                       canonized_blocks_rx, applierVars>>
        /\ produced_queue' = [produced_queue EXCEPT ![n] = Append(@, b)]
        /\ proposing' = [proposing EXCEPT ![n] = << >>]
    BY <1>2, Zenon DEF ProposeReturns
  <2> HIDE DEF b
  <2> QED
    BY <1>2, <2>1, <2>2, <2>3, Zenon DEF OthersIdle, NodeKept, QueuesKept,
       CursorKept, CommandsKept, OwnKept, durableVars, sourceVars, executorVars, applierVars, b
<1>4. UNCHANGED <<log, tail, term, leader, established, timely>>
  BY <1>3, Zenon DEF raftVars
<1>5. /\ log \in Seq(Block) /\ applied[n] \in Nat /\ rx \in Seq(Block) /\ Len(rx) \in Nat
      /\ Len(log) \in Nat /\ replays_to_execute[n] \in Seq(Block)
      /\ role[n] \in {"Replica", "Leader"} /\ applied[n] <= Len(log)
  BY <1>1, NodeTypes, Positions, Zenon DEF NodeInv
<1>6. leader = n /\ Own(n) /\ role[n] = "Leader" /\ ~ReplayingWal(n)
  BY <1>1, <1>5, Zenon DEF NodeInv, ProposedTerm, Own, LeadersOnly
<1>7. established /\ Proposed(n)
  BY <1>1, <1>6, Zenon DEF NodeInv, Leads
<1>8. ~(applied[n] >= Len(log) + 1) /\ (applied[n] >= Len(log) => applied[n] = Len(log))
  BY <1>5
<1>9. /\ tail = << >> /\ Len(log) > 0 /\ log[Len(log)] = b
      /\ Taken(n) = Len(log) - 1 /\ applied[n] = Len(log)
  BY <1>1, <1>2, <1>7, <1>8, Zenon DEF Proposed
<1>10. Len(rx) = 1
  <2> DEFINE i == Len(rx)
             l == Len(log)
  <2>1. i \in Nat /\ l \in Nat /\ l - i = l - 1
    BY <1>5, <1>9, Zenon DEF Taken
  <2> HIDE DEF i, l
  <2>2. i = 1
    BY <2>1
  <2> QED
    BY <2>2, Zenon DEF i
<1>11. rx # << >> /\ rx[1] = b
  <2>1. rx # << >>
    BY <1>5, <1>10, FrontOfOne, Zenon
  <2>2. Aligned(log, wal[n], applied[n], raft_applied[n], rx, replays_to_execute[n])
    BY <1>1, Zenon DEF NodeInv, Placed
  <2>3. (applied[n] - 1) + 1 = applied[n]
    BY <1>5
  <2> HIDE DEF rx
  <2>4. Entry(log, applied[n] - Len(rx) + 1, Head(rx)) /\ rx[1] = Head(rx)
    BY <1>5, <2>1, <2>2, NextCanonized, Zenon
  <2>5. rx[1] = log[Len(log)]
    BY <1>9, <1>10, <2>3, <2>4, Zenon DEF Entry
  <2> QED
    BY <1>9, <2>1, <2>5, Zenon
<1>12. << b >> # << >> /\ << b >>[1] = b
  OBVIOUS
<1>13. /\ Own(n)' /\ ~Idle(n)' /\ Taken(n)' = Taken(n) /\ Forwarded(n)' = Forwarded(n)
       /\ (Producing(n)' <=> Producing(n)) /\ ~ReplayingWal(n)'
  BY <1>3, <1>6, <1>12, Zenon DEF Own, Idle, Taken, Forwarded, QueuesKept, Producing,
     CommandsKept, ReplayingWal, CursorKept
<1>14. LeadersOnly(n)' /\ NoGap(n)' /\ ProposedTerm(n)' /\ Stream(n)'
  <2>1. role'[n] # "Replica"
    BY <1>3, <1>6
  <2> QED
    BY <1>1, <1>3, <1>13, <2>1, Zenon DEF NodeInv, LeadersOnly, NoGap, ProposedTerm, Stream,
       QueuesKept
<1>15. OwnLast(n)'
  BY <1>1, <1>3, <1>4, <1>6, <1>11, <1>12, <1>13, Zenon DEF NodeInv, OwnLast, QueuesKept,
     CommandsKept
<1>16. Leads(n)'
  <2>1. \A type : ~Holds(<< >>, type)
    BY Zenon DEF Holds
  <2> QED
    BY <1>1, <1>3, <1>4, <1>6, <1>7, <1>9, <1>13, <2>1, Zenon DEF NodeInv, Leads, QueuesKept,
       CommandsKept
<1>17. Placed(n)' /\ WalFirst(n)'
  BY <1>1, <1>3, <1>4, PlacedKept, WalFirstKept, Zenon DEF NodeInv
<1> QED
  BY <1>3, <1>14, <1>15, <1>16, <1>17, NodeStepInv, Zenon DEF NodeInv

\* What another node's leadership does to a node that neither led nor leads.
LEMMA FollowerKept ==
  ASSUME NEW n, log' = log, term' = term, leader # n, leader' # n, NodeKept(n), NodeInv(n)
  PROVE  NodeInv(n)'
<1>1. Placed(n)' /\ WalFirst(n)' /\ LeadersOnly(n)'
  BY PlacedKept, WalFirstKept, LeadersOnlyKept, Zenon DEF NodeInv, NodeKept
<1>2. NoGap(n)' /\ ProposedTerm(n)'
  BY NoGapKept, Zenon DEF NodeInv, NodeKept, QueuesKept, OwnKept, ProposedTerm
<1>3. Upto(n)' = Upto(n) /\ (Own(n)' <=> Own(n)) /\ (Producing(n)' <=> Producing(n))
      /\ Forwarded(n)' = Forwarded(n)
  BY Zenon DEF NodeKept, Upto, QueuesKept, CursorKept, CommandsKept, OwnKept, ReplayingWal,
     Forwarded, Taken, Own, Producing
<1>4. Stream(n)'
  BY <1>3, Zenon DEF NodeInv, NodeKept, Stream, QueuesKept, CommandsKept
<1>5. OwnLast(n)' /\ Leads(n)'
  BY <1>3, Zenon DEF NodeInv, NodeKept, OwnLast, Leads, QueuesKept, CommandsKept, OwnKept
<1> QED
  BY <1>1, <1>2, <1>4, <1>5, Zenon DEF NodeInv

\* propose() on the leader: its block follows everything that is committed.
LEMMA ProposeBlockLedger ==
  ASSUME Inv, LedgerInv, timely, NEW n \in Nodes, ProposeBlock(n)
  PROVE  LedgerInv'
<1> DEFINE b == last_block[n]
           p == [block |-> b, index |-> Len(log) + 1, term |-> term]
<1>1. /\ NodeInv(n) /\ LogInv /\ executed[n] # << >> /\ Head(executed[n]).type = "Produce"
      /\ leader = n /\ established /\ tail = << >>
  BY Zenon DEF LedgerInv, ProposeBlock, CanReceiveExecuted
<1>2. /\ proposing[n] = << >> /\ produced_queue[n] = << >> /\ canonical[n] = << >>
      /\ executed[n][1].block = b /\ Head(executed[n]) = executed[n][1]
      /\ Tail(executed[n]) = << >> /\ b \in Block
  BY <1>1, OneQueue, Zenon
<1>3. /\ UNCHANGED <<log, term, leader, established, timely>> /\ tail' = << b >>
      /\ OthersIdle(n) /\ QueuesKept(n) /\ CursorKept(n) /\ CommandsKept(n)
      /\ role' = role /\ last_block'[n] = b
      /\ executed'[n] = << >> /\ proposing'[n] = << p >> /\ produced_queue'[n] = << >>
  <2>1. /\ proposing \in [Nodes -> AtMostOne(Proposal)]
        /\ executed \in [Nodes -> Seq(Payload)]
    BY Zenon DEF Inv, TypeInv, TypeOK, CanonizerType, ExecutorType
  <2>2. /\ UNCHANGED <<log, term, leader, established, crashes, timely, durableVars,
                       applied, sourceVars, executing, last_block, canonized_blocks_rx,
                       produced_queue, applierVars>>
        /\ tail' = << b >> /\ executed' = [executed EXCEPT ![n] = Tail(@)]
        /\ proposing' = [proposing EXCEPT ![n] = << p >>]
    BY <1>2, Zenon DEF ProposeBlock
  <2> HIDE DEF p, b
  <2> QED
    BY <1>2, <2>1, <2>2, Zenon DEF OthersIdle, NodeKept, QueuesKept,
       CursorKept, CommandsKept, OwnKept, durableVars, sourceVars, applierVars, b
<1>4. << p >> # << >> /\ << p >>[1] = p /\ p.block = b /\ p.index = Len(log) + 1 /\ p.term = term
  OBVIOUS
<1> HIDE DEF p
<1>5. /\ term \in Nat /\ Len(log) \in Nat /\ applied[n] \in Nat
      /\ role[n] \in {"Replica", "Leader"} /\ Len(canonized_blocks_rx[n]) \in Nat
  BY NodeTypes, Zenon
<1>6. Holds(executed[n], "Produce") /\ Own(n) /\ role[n] = "Leader" /\ ~ReplayingWal(n)
  <2>1. Holds(executed[n], "Produce")
    BY <1>1, <1>2, Zenon DEF Holds
  <2> QED
    BY <1>1, <1>5, <2>1, Zenon DEF NodeInv, Own, LeadersOnly
<1>7. CaughtUpWithLog(n) /\ Extends(At(log, Len(log)), b)
  BY <1>1, <1>6, Zenon DEF NodeInv, Leads
<1>8. /\ replays_to_execute[n] = << >> /\ Len(b) = Forwarded(n) + 1
  BY <1>1, <1>6, Zenon DEF NodeInv, OwnLast
<1>9. Taken(n) = Len(log) /\ Forwarded(n) = Len(log)
  <2>1. applied[n] = Len(log) /\ Len(canonized_blocks_rx[n]) = 0
        /\ Len(replays_to_execute[n]) = 0
    <3>1. Len(<< >>) = 0
      OBVIOUS
    <3> QED
      BY <1>7, <1>8, <3>1, Zenon DEF CaughtUpWithLog
  <2>2. Len(log) - 0 = Len(log)
    BY <1>5
  <2> QED
    BY <2>1, <2>2, Zenon DEF Taken, Forwarded
<1>10. LogInv'
  <2>1. << b >>[1] = b
    OBVIOUS
  <2>2. Follows(log, b)
    BY <1>7, <1>8, <1>9, Zenon DEF Follows
  <2> QED
    BY <1>1, <1>3, <1>6, <2>1, <2>2, Zenon DEF LogInv
<1>11. /\ Own(n)' /\ ~Idle(n)' /\ Taken(n)' = Taken(n) /\ Forwarded(n)' = Forwarded(n)
       /\ (Producing(n)' <=> Producing(n)) /\ ~ReplayingWal(n)'
  BY <1>3, <1>4, <1>6, Zenon DEF Own, Idle, Taken, Forwarded, QueuesKept, Producing,
     CommandsKept, ReplayingWal, CursorKept
<1>12. LeadersOnly(n)' /\ NoGap(n)' /\ ProposedTerm(n)' /\ Stream(n)'
  <2>1. role'[n] # "Replica"
    BY <1>3, <1>6
  <2>2. term <= term
    BY <1>5
  <2> QED
    BY <1>1, <1>3, <1>4, <1>11, <2>1, <2>2, Zenon DEF NodeInv, LeadersOnly, NoGap, ProposedTerm,
       Stream, QueuesKept
<1>13. OwnLast(n)'
  BY <1>1, <1>3, <1>6, <1>11, Zenon DEF NodeInv, OwnLast, QueuesKept, CommandsKept
<1>14. Leads(n)'
  <2>1. \A type : ~Holds(<< >>, type)
    BY Zenon DEF Holds
  <2>2. Proposed(n)'
    BY <1>3, <1>4, <1>9, <1>11, Zenon DEF Proposed
  <2> QED
    BY <1>1, <1>3, <1>6, <1>11, <2>1, <2>2, Zenon DEF NodeInv, Leads, QueuesKept, CommandsKept
<1>15. Placed(n)' /\ WalFirst(n)'
  BY <1>1, <1>3, PlacedKept, WalFirstKept, Zenon DEF NodeInv
<1>16. NodeInv(n)'
  BY <1>12, <1>13, <1>14, <1>15, Zenon DEF NodeInv
<1>17. \A m \in Nodes : m # n => NodeInv(m)'
  BY <1>1, <1>3, FollowerKept, Zenon DEF OthersIdle, LedgerInv
<1> QED
  BY <1>10, <1>16, <1>17, Zenon DEF LedgerInv

LEMMA RestartPosition ==
  ASSUME NEW w \in Seq(Block), NEW sb \in 0 .. Len(w)
  PROVE  /\ Len(w) \in Nat /\ sb \in Nat /\ sb <= Len(w) /\ Len(w) <= Len(w)
         /\ sb <= Len(w) + 1 /\ sb - 1 < Len(w) /\ Len(w) - 0 - 0 = Len(w)
<1> DEFINE l == Len(w)
<1>1. l \in Nat /\ sb \in 0 .. l
  BY SeqLen, Zenon
<1> HIDE DEF l
<1>2. sb \in Nat /\ sb <= l /\ l <= l /\ sb <= l + 1 /\ sb - 1 < l /\ l - 0 - 0 = l
  BY <1>1
<1> QED
  BY <1>1, <1>2, Zenon DEF l

\* applied_state() is the number of the last WAL block.
LEMMA AppliedStateIsWal ==
  ASSUME Inv, NEW n \in Nodes, Placed(n)
  PROVE  AppliedState(n) = Len(wal[n])
<1> DEFINE w == wal[n]
<1>1. log \in Seq(Block) /\ w \in Seq(Block) /\ applied[n] \in Nat
  BY NodeTypes, Zenon
<1>2. Aligned(log, w, applied[n], raft_applied[n], canonized_blocks_rx[n],
              replays_to_execute[n])
  BY Zenon DEF Placed
<1>3. Len(<< >>) = 0
  OBVIOUS
<1> HIDE DEF w
<1>4. w # << >> => raft_applied[n][Len(w)] = Len(w)
  BY <1>1, <1>2, AlignedRestart, Zenon
<1> QED
  BY <1>3, <1>4, Zenon DEF AppliedState, w

\* The node that restarts: raft resumes after the last WAL block, and the WAL is
\* replayed first.
LEMMA RestartNode ==
  ASSUME Inv, NEW n \in Nodes, NodeInv(n), Restart(n)
  PROVE  NodeInv(n)'
<1> DEFINE w == wal[n]
<1>1. PICK sb \in 0 .. Len(w) : wal_cursor' = [wal_cursor EXCEPT ![n] = sb]
  BY Zenon DEF Restart
<1>2. /\ log \in Seq(Block) /\ w \in Seq(Block) /\ applied[n] \in Nat
  BY NodeTypes, Zenon
<1>3. /\ Len(w) \in Nat /\ sb \in Nat /\ sb <= Len(w) /\ Len(w) <= Len(w)
      /\ sb <= Len(w) + 1 /\ sb - 1 < Len(w) /\ Len(w) - 0 - 0 = Len(w)
  BY <1>2, RestartPosition, Zenon
<1>4. Aligned(log, w, Len(w), raft_applied[n], << >>, << >>)
  <2>1. Aligned(log, w, applied[n], raft_applied[n], canonized_blocks_rx[n],
                replays_to_execute[n])
    BY Zenon DEF NodeInv, Placed
  <2> HIDE DEF w
  <2> QED
    BY <1>2, <2>1, AlignedRestart, Zenon
<1>5. AppliedState(n) = Len(w) /\ Len(<< >>) = 0
  <2>1. Len(<< >>) = 0
    OBVIOUS
  <2> QED
    BY <2>1, AppliedStateIsWal, Zenon DEF NodeInv
<1>6. /\ applied'[n] = Len(w) /\ role'[n] = "Replica" /\ canonized_blocks_rx'[n] = << >>
      /\ replays_to_execute'[n] = << >> /\ wal_cursor'[n] = sb /\ replay_until'[n] = Len(w)
      /\ commands'[n] = << >> /\ executing'[n] = << >> /\ last_block'[n] = NoBlock
      /\ executed'[n] = << >> /\ proposing'[n] = << >> /\ produced_queue'[n] = << >>
      /\ wal'[n] = w /\ raft_applied'[n] = raft_applied[n] /\ log' = log
  <2>1. /\ applied \in [Nodes -> Nat] /\ role \in [Nodes -> {"Replica", "Leader"}]
        /\ replays_to_execute \in [Nodes -> Seq(Block)]
        /\ wal_cursor \in [Nodes -> Nat] /\ replay_until \in [Nodes -> Nat]
        /\ commands \in [Nodes -> AtMostOne(Command)]
    BY Zenon DEF Inv, TypeInv, TypeOK, SourceType
  <2>2. /\ executing \in [Nodes -> AtMostOne(Command)]
        /\ last_block \in [Nodes -> Block \cup {NoBlock}] /\ executed \in [Nodes -> Seq(Payload)]
        /\ canonized_blocks_rx \in [Nodes -> Seq(Block)]
        /\ proposing \in [Nodes -> AtMostOne(Proposal)]
        /\ produced_queue \in [Nodes -> Seq(Block)]
    BY Zenon DEF Inv, TypeInv, TypeOK, ExecutorType, CanonizerType
  <2>3. /\ applied'[n] = Len(w) /\ role'[n] = "Replica" /\ replays_to_execute'[n] = << >>
        /\ wal_cursor'[n] = sb /\ replay_until'[n] = Len(w) /\ commands'[n] = << >>
    BY <1>1, <1>5, <2>1, Zenon DEF Restart
  <2> QED
    BY <2>2, <2>3, Zenon DEF Restart, durableVars
<1>7. \A type : ~Holds(<< >>, type)
  BY Zenon DEF Holds
<1>8. ~Own(n)' /\ ~Producing(n)' /\ Forwarded(n)' = Len(w) /\ Upto(n)' = sb - 1
  BY <1>3, <1>5, <1>6, <1>7, Zenon DEF Own, Producing, Forwarded, Taken, Upto, ReplayingWal
<1>9. Placed(n)' /\ WalFirst(n)' /\ LeadersOnly(n)'
  BY <1>3, <1>4, <1>6, <1>8, Zenon DEF Placed, WalFirst, LeadersOnly
<1>10. Stream(n)'
  <2>1. /\ InOrder(log, Len(w), Len(w), << >>, << >>, NoBlock)
        /\ EndsAt(Len(w), << >>, << >>, NoBlock, sb - 1)
    BY <1>3, OrderRestart, Zenon
  <2> QED
    BY <1>6, <1>8, <2>1, Zenon DEF Stream
<1>11. NoGap(n)' /\ ProposedTerm(n)' /\ OwnLast(n)'
  BY <1>6, <1>8, Zenon DEF NoGap, ProposedTerm, OwnLast
<1>12. Leads(n)'
  BY <1>6 DEF Leads
<1> QED
  BY <1>9, <1>10, <1>11, <1>12, Zenon DEF NodeInv

LEMMA RestartLedger ==
  ASSUME Inv, LedgerInv, timely, NEW n \in Nodes, Restart(n)
  PROVE  LedgerInv'
<1>1. NodeInv(n) /\ LogInv
  BY Zenon DEF LedgerInv
<1>2. UNCHANGED <<log, tail, term, timely>>
  BY Zenon DEF Restart
<1>3. OthersIdle(n)
  <2> SUFFICES ASSUME NEW m \in Nodes, m # n PROVE NodeKept(m)
    BY Zenon DEF OthersIdle
  <2>1. /\ applied \in [Nodes -> Nat] /\ role \in [Nodes -> {"Replica", "Leader"}]
        /\ replays_to_execute \in [Nodes -> Seq(Block)]
        /\ wal_cursor \in [Nodes -> Nat] /\ replay_until \in [Nodes -> Nat]
        /\ commands \in [Nodes -> AtMostOne(Command)]
    BY Zenon DEF Inv, TypeInv, TypeOK, SourceType
  <2>2. /\ executing \in [Nodes -> AtMostOne(Command)]
        /\ last_block \in [Nodes -> Block \cup {NoBlock}] /\ executed \in [Nodes -> Seq(Payload)]
        /\ canonized_blocks_rx \in [Nodes -> Seq(Block)]
        /\ proposing \in [Nodes -> AtMostOne(Proposal)]
        /\ produced_queue \in [Nodes -> Seq(Block)] /\ canonical \in [Nodes -> Seq(Block)]
    BY Zenon DEF Inv, TypeInv, TypeOK, ExecutorType, CanonizerType, ApplierType
  <2>3. /\ applied'[m] = applied[m] /\ role'[m] = role[m]
        /\ replays_to_execute'[m] = replays_to_execute[m] /\ replay_until'[m] = replay_until[m]
        /\ commands'[m] = commands[m] /\ wal_cursor'[m] = wal_cursor[m]
    BY <2>1, Zenon DEF Restart
  <2>4. /\ executing'[m] = executing[m] /\ last_block'[m] = last_block[m]
        /\ executed'[m] = executed[m] /\ canonized_blocks_rx'[m] = canonized_blocks_rx[m]
        /\ proposing'[m] = proposing[m] /\ produced_queue'[m] = produced_queue[m]
        /\ canonical'[m] = canonical[m] /\ wal'[m] = wal[m] /\ raft_applied'[m] = raft_applied[m]
    BY <2>2, Zenon DEF Restart, durableVars
  <2> QED
    BY <2>3, <2>4, Zenon DEF NodeKept, QueuesKept, CursorKept, CommandsKept, OwnKept
<1>4. /\ leader' = (IF leader = n THEN NoNode ELSE leader)
      /\ established' = (established /\ leader # n)
  BY Zenon DEF Restart
<1>5. ASSUME NEW m \in Nodes, m # n PROVE NodeInv(m)'
  <2>1. NodeKept(m) /\ NodeInv(m)
    BY <1>3, <1>5, Zenon DEF OthersIdle, LedgerInv
  <2>2. CASE leader = n
    <3>1. leader # m /\ leader' # m
      BY <1>4, <1>5, <2>2, NoNodeAssumption, Zenon
    <3> QED
      BY <1>2, <2>1, <3>1, FollowerKept, Zenon
  <2>3. CASE leader # n
    <3>1. leader' = leader /\ established' = established
      <4>1. established \in BOOLEAN
        BY Zenon DEF Inv, TypeInv, TypeOK, RaftType
      <4> QED
        BY <1>4, <2>3, <4>1, Zenon
    <3> QED
      BY <1>2, <2>1, <3>1, NodeInvKept, Zenon
  <2> QED
    BY <2>2, <2>3, Zenon
<1>6. NodeInv(n)'
  BY <1>1, RestartNode, Zenon
<1>7. LogInv'
  <2>1. established' => established /\ leader # n /\ leader' = leader
    BY <1>4, Zenon
  <2>2. \A m \in Nodes : m # n => role'[m] = role[m]
    BY <1>3, Zenon DEF OthersIdle, NodeKept
  <2> QED
    BY <1>1, <1>2, <2>1, <2>2, Zenon DEF LogInv
<1> QED
  BY <1>5, <1>6, <1>7, Zenon DEF LedgerInv

\* An election.  The new leader is a replica: no node that was deposed earlier
\* is still at work.
LEMMA ElectLedger ==
  ASSUME Inv, LedgerInv, timely, NEW n \in Nodes, Elect(n)
  PROVE  LedgerInv'
<1>1. /\ UNCHANGED <<log, tail, timely>> /\ term' = term + 1 /\ leader' = n /\ ~established'
      /\ role[n] = "Replica" /\ LogInv /\ NodeInv(n)
  BY Zenon DEF Elect, LedgerInv
<1>2. ~Own(n) /\ ~Producing(n)
  BY <1>1, OnlyReplays, Zenon DEF NodeInv
<1>3. ASSUME NEW m \in Nodes PROVE NodeInv(m)'
  <2>1. NodeInv(m) /\ NodeKept(m)
    BY Zenon DEF LedgerInv, Elect, NodeKept, QueuesKept, CursorKept, CommandsKept, OwnKept,
       durableVars, sourceVars, executorVars, canonizerVars, applierVars
  <2>2. Placed(m)' /\ WalFirst(m)' /\ LeadersOnly(m)'
    BY <1>1, <2>1, PlacedKept, WalFirstKept, LeadersOnlyKept, Zenon DEF NodeInv, NodeKept
  <2>3. NoGap(m)'
    BY <2>1, NoGapKept, Zenon DEF NodeInv, NodeKept, QueuesKept
  <2>4. ProposedTerm(m)'
    <3> SUFFICES ASSUME proposing[m] # << >>
                 PROVE  /\ proposing[m][1].term <= term + 1 /\ proposing[m][1].term # term + 1
      BY <1>1, <2>1, Zenon DEF ProposedTerm, NodeKept, OwnKept
    <3> DEFINE k == proposing[m][1].term
    <3>1. k <= term /\ term \in Nat
      BY <2>1, NodeTypes, Zenon DEF NodeInv, ProposedTerm
    <3>2. proposing[m][1] \in Proposal
      BY OneQueue, Zenon
    <3>3. k \in Nat
      BY <3>2 DEF Proposal
    <3> HIDE DEF k
    <3>4. k <= term + 1 /\ k # term + 1
      BY <3>1, <3>3
    <3> QED
      BY <3>4, Zenon DEF k
  <2>5. Upto(m)' = Upto(m) /\ (Own(m)' <=> Own(m)) /\ (Producing(m)' <=> Producing(m))
        /\ Forwarded(m)' = Forwarded(m)
    BY <2>1, Zenon DEF NodeKept, Upto, QueuesKept, CursorKept, CommandsKept, OwnKept,
       ReplayingWal, Forwarded, Taken, Own, Producing
  <2>6. Stream(m)'
    BY <1>1, <1>2, <2>1, <2>5, Zenon DEF NodeInv, NodeKept, Stream, QueuesKept, CommandsKept
  <2>7. OwnLast(m)'
    BY <1>1, <1>2, <2>1, <2>5, Zenon DEF NodeInv, NodeKept, OwnLast, QueuesKept, CommandsKept,
       OwnKept
  <2>8. Leads(m)'
    <3>1. role'[n] # "Leader"
      BY <1>1 DEF Elect, sourceVars
    <3> QED
      BY <1>1, <3>1, Zenon DEF Leads
  <2> QED
    BY <2>2, <2>3, <2>4, <2>6, <2>7, <2>8, Zenon DEF NodeInv
<1>4. LogInv'
  BY <1>1, Zenon DEF LogInv
<1> QED
  BY <1>3, <1>4, Zenon DEF LedgerInv

\* What the growth of the raft log leaves true of a node.
LEMMA LogGrowsNode ==
  ASSUME Inv, NEW n \in Nodes, NodeInv(n), NodeKept(n), NEW tl \in Seq(Block),
         log' = log \o tl, term' = term, leader' = leader
  PROVE  /\ Placed(n)' /\ WalFirst(n)' /\ LeadersOnly(n)' /\ NoGap(n)'
         /\ ProposedTerm(n)' /\ Stream(n)' /\ OwnLast(n)'
<1>1. /\ log \in Seq(Block) /\ wal[n] \in Seq(Block) /\ applied[n] \in Nat
      /\ canonized_blocks_rx[n] \in Seq(Block) /\ replays_to_execute[n] \in Seq(Block)
      /\ commands[n] \in AtMostOne(Command) /\ executing[n] \in AtMostOne(Command)
      /\ last_block[n] \in Block \cup {NoBlock} /\ applied[n] <= Len(log)
  BY NodeTypes, Positions, Zenon DEF NodeInv
<1>2. Placed(n)'
  <2>1. Aligned(log, wal[n], applied[n], raft_applied[n], canonized_blocks_rx[n],
                replays_to_execute[n])
    BY Zenon DEF NodeInv, Placed
  <2>2. Aligned(log \o tl, wal[n], applied[n], raft_applied[n], canonized_blocks_rx[n],
                replays_to_execute[n])
    BY <1>1, <2>1, AlignedCommit, Zenon
  <2> QED
    BY <2>2, Zenon DEF Placed, NodeKept, QueuesKept
<1>3. WalFirst(n)' /\ LeadersOnly(n)'
  BY WalFirstKept, LeadersOnlyKept, Zenon DEF NodeInv, NodeKept
<1>4. NoGap(n)' /\ ProposedTerm(n)' /\ OwnLast(n)'
  BY NoGapKept, ProposedTermKept, OwnLastKept, Zenon DEF NodeInv, NodeKept, QueuesKept, OwnKept
<1>5. Stream(n)'
  <2>1. Upto(n)' = Upto(n) /\ (Own(n)' <=> Own(n)) /\ (Producing(n)' <=> Producing(n))
    BY Zenon DEF NodeKept, Upto, QueuesKept, CursorKept, CommandsKept, OwnKept, ReplayingWal,
       Forwarded, Taken, Own, Producing
  <2>2. ~Own(n) => InOrder(log \o tl, applied[n], Len(wal[n]), commands[n], executing[n],
                           last_block[n])
    <3> SUFFICES ASSUME ~Own(n)
                 PROVE  InOrder(log \o tl, applied[n], Len(wal[n]), commands[n], executing[n],
                                last_block[n])
      BY Zenon
    <3>1. InOrder(log, applied[n], Len(wal[n]), commands[n], executing[n], last_block[n])
      BY Zenon DEF NodeInv, Stream
    <3> QED
      BY <1>1, <3>1, OrderExtends, Zenon
  <2> QED
    BY <2>1, <2>2, Zenon DEF NodeInv, Stream, NodeKept, QueuesKept, CommandsKept
<1> QED
  BY <1>2, <1>3, <1>4, <1>5, Zenon

LEMMA EntryToCommit ==
  ASSUME Inv, LogInv, tail # << >>
  PROVE  /\ tail = << tail[1] >> /\ tail[1] \in Block /\ Follows(log, tail[1])
         /\ tail \in Seq(Block) /\ log \in Seq(Block)
<1>1. log \in Seq(Block) /\ tail \in AtMostOne(Block)
  BY Zenon DEF Inv, TypeInv, TypeOK, RaftType
<1>2. tail \in Seq(Block)
  BY <1>1, Zenon DEF AtMostOne
<1>3. Len(tail) = 1 /\ tail[1] \in Block
  BY <1>1, OnlyElement, Zenon
<1>4. tail = << tail[1] >>
  BY <1>2, <1>3
<1> QED
  BY <1>1, <1>2, <1>3, <1>4, Zenon DEF LogInv

LEMMA RaftStepKept ==
  ASSUME NEW n, UNCHANGED <<durableVars, applied, sourceVars, executorVars, canonizerVars,
                            applierVars>>
  PROVE  NodeKept(n)
  BY Zenon DEF NodeKept, QueuesKept, CursorKept, CommandsKept, OwnKept,
       durableVars, sourceVars, executorVars, canonizerVars, applierVars

\* The leader commits the blank entry of its term, and what was left behind.  No
\* node is confirmed as a leader before.
LEMMA EstablishLedger ==
  ASSUME Inv, LedgerInv, timely, Establish
  PROVE  LedgerInv'
<1>1. /\ LogInv /\ ~established /\ tail' = << >> /\ UNCHANGED <<term, leader, timely>>
      /\ log' = log \o tail \/ log' = log
      /\ UNCHANGED <<durableVars, applied, sourceVars, executorVars, canonizerVars, applierVars>>
  BY Zenon DEF Establish, LedgerInv
<1>2. \E tl \in Seq(Block) : log' = log \o tl
  <2>1. log \in Seq(Block) /\ tail \in Seq(Block)
    BY Zenon DEF Inv, TypeInv, TypeOK, RaftType, AtMostOne
  <2>2. << >> \in Seq(Block) /\ log \o << >> = log
    BY <2>1
  <2> QED
    BY <1>1, <2>1, <2>2, Zenon
<1>3. ASSUME NEW m \in Nodes PROVE NodeInv(m)'
  <2>1. NodeKept(m) /\ NodeInv(m)
    BY <1>1, RaftStepKept, Zenon DEF LedgerInv
  <2>2. ~(role[m] = "Leader" /\ leader = m)
    BY <1>1, <2>1, Zenon DEF NodeInv, Leads
  <2>3. Leads(m)'
    BY <1>1, <2>1, <2>2, Zenon DEF Leads, NodeKept
  <2> QED
    BY <1>1, <1>2, <2>1, <2>3, LogGrowsNode, Zenon DEF NodeInv
<1>4. LogInv'
  <2>1. Chained(log')
    <3>1. CASE tail = << >>
      <4>1. log \in Seq(Block)
        BY Zenon DEF Inv, TypeInv, TypeOK, RaftType
      <4>2. log \o << >> = log
        BY <4>1
      <4> QED
        BY <1>1, <3>1, <4>2, Zenon DEF LogInv
    <3>2. CASE tail # << >>
      <4>1. Chained(log \o << tail[1] >>)
        BY <1>1, <3>2, EntryToCommit, ChainedCommit, Zenon DEF LogInv
      <4> QED
        BY <1>1, <3>2, <4>1, EntryToCommit, Zenon DEF LogInv
    <3> QED
      BY <3>1, <3>2, Zenon
  <2> QED
    BY <1>1, <2>1, Zenon DEF LogInv
<1> QED
  BY <1>1, <1>3, <1>4, Zenon DEF LedgerInv

\* A quorum has the entry of a confirmed leader: it is the block it proposed.
LEMMA CommitLedger ==
  ASSUME Inv, LedgerInv, timely, Commit
  PROVE  LedgerInv'
<1> DEFINE b == tail[1]
<1>1. /\ LogInv /\ established /\ tail # << >> /\ tail' = << >> /\ log' = log \o tail
      /\ UNCHANGED <<term, leader, established, timely>>
      /\ UNCHANGED <<durableVars, applied, sourceVars, executorVars, canonizerVars, applierVars>>
  BY Zenon DEF Commit, LedgerInv
<1>2. tail = << b >> /\ b \in Block /\ Follows(log, b) /\ tail \in Seq(Block) /\ log \in Seq(Block)
  BY <1>1, EntryToCommit, Zenon
<1> HIDE DEF b
<1>3. /\ Chained(log') /\ Len(log') = Len(log) + 1 /\ log'[Len(log) + 1] = b
  <2>1. log' = log \o << b >>
    BY <1>1, <1>2, Zenon
  <2> QED
    BY <1>1, <1>2, <2>1, ChainedCommit, Zenon DEF LogInv
<1>4. ASSUME NEW m \in Nodes PROVE NodeInv(m)'
  <2>1. NodeKept(m) /\ NodeInv(m)
    BY <1>1, RaftStepKept, Zenon DEF LedgerInv
  <2>2. Leads(m)'
    <3> SUFFICES ASSUME role[m] = "Leader", leader = m
                 PROVE  Leads(m)'
      BY <1>1, <2>1, Zenon DEF Leads, NodeKept
    <3>1. /\ Own(m) /\ ~Holds(executed[m], "Produce") /\ produced_queue[m] = << >>
          /\ proposing[m] # << >> /\ Proposed(m)
      BY <1>1, <2>1, Zenon DEF NodeInv, Leads, CaughtUpWithLog, Own
    <3>2. /\ tail = << proposing[m][1].block >> /\ proposing[m][1].index = Len(log) + 1
          /\ Taken(m) = Len(log)
      BY <1>1, <3>1, Zenon DEF Proposed
    <3>3. proposing[m][1].block = b
      <4> DEFINE c == proposing[m][1].block
      <4>1. << c >> = << b >>
        BY <1>2, <3>2, Zenon
      <4> HIDE DEF c
      <4>2. c = b
        BY <4>1
      <4> QED
        BY <4>2, Zenon DEF c
    <3>4. Len(log) \in Nat
      BY <1>2, SeqLen, Zenon
    <3>5. Len(log) + 1 > 0 /\ (Len(log) + 1) - 1 = Len(log)
      BY <3>4
    <3>6. Taken(m)' = Taken(m) /\ (Own(m)' <=> Own(m)) /\ (Producing(m)' <=> Producing(m))
      BY <2>1, Zenon DEF NodeKept, QueuesKept, CommandsKept, OwnKept, Taken, Own, Producing
    <3>7. Proposed(m)'
      BY <1>1, <1>3, <2>1, <3>2, <3>3, <3>5, <3>6, Zenon DEF Proposed, NodeKept, OwnKept
    <3> QED
      BY <1>1, <2>1, <3>1, <3>6, <3>7, Zenon DEF NodeInv, Leads, NodeKept, QueuesKept,
         CommandsKept, OwnKept
  <2> QED
    BY <1>1, <1>2, <2>1, <2>2, LogGrowsNode, Zenon DEF NodeInv
<1>5. LogInv'
  BY <1>1, <1>3, Zenon DEF LogInv
<1> QED
  BY <1>1, <1>4, <1>5, Zenon DEF LedgerInv

-----------------------------------------------------------------------------
(* The invariant is inductive *)

LEMMA InitLedger == Init => LedgerInv
<1> SUFFICES ASSUME Init PROVE LedgerInv
  BY Zenon
<1>1. LogInv
  <2>1. log = << >> /\ tail = << >> /\ established = FALSE
    BY Zenon DEF Init
  <2>2. Len(<< >>) = 0 /\ 1 .. 0 = {}
    OBVIOUS
  <2> QED
    BY <2>1, <2>2, Zenon DEF LogInv, Chained
<1>2. ASSUME NEW n \in Nodes PROVE NodeInv(n)
  <2>1. /\ log = << >> /\ wal[n] = << >> /\ raft_applied[n] = [k \in 1 .. MaxLog |-> 0]
        /\ applied[n] = 0 /\ role[n] = "Replica" /\ canonized_blocks_rx[n] = << >>
        /\ replays_to_execute[n] = << >> /\ wal_cursor[n] = 0 /\ replay_until[n] = 0
        /\ commands[n] = << >> /\ executing[n] = << >> /\ last_block[n] = NoBlock
        /\ executed[n] = << >> /\ proposing[n] = << >> /\ produced_queue[n] = << >>
    BY Zenon DEF Init
  <2>2. Len(<< >>) = 0 /\ 0 - 0 - 0 = 0 /\ 0 <= 0 /\ 0 <= 0 + 1 /\ 0 + 0 <= 0 /\ 0 - 0 = 0
    OBVIOUS
  <2>3. Taken(n) = 0 /\ Forwarded(n) = 0 /\ ~Own(n) /\ ~Producing(n)
    BY <2>1, <2>2, Zenon DEF Taken, Forwarded, Own, Producing, Holds
  <2>4. Placed(n)
    <3>1. Recorded(0, raft_applied[n])
      BY DEF Recorded
    <3> QED
      BY <2>1, <2>2, <3>1, SliceEmpty, Zenon DEF Placed, Aligned
  <2>5. WalFirst(n) /\ LeadersOnly(n)
    BY <2>1, <2>2, <2>3, Zenon DEF WalFirst, LeadersOnly
  <2>6. NoGap(n) /\ ProposedTerm(n) /\ OwnLast(n)
    BY <2>1, <2>3, Zenon DEF NoGap, ProposedTerm, OwnLast
  <2>7. Stream(n)
    <3>1. 0 - 1 < 0
      OBVIOUS
    <3>2. /\ InOrder(log, 0, 0, << >>, << >>, NoBlock)
          /\ EndsAt(0, << >>, << >>, NoBlock, 0 - 1)
      BY <3>1, OrderRestart, Zenon
    <3> QED
      BY <2>1, <2>2, <3>2, Zenon DEF Stream, Upto, ReplayingWal
  <2>8. Leads(n)
    BY <2>1 DEF Leads
  <2> QED
    BY <2>4, <2>5, <2>6, <2>7, <2>8, Zenon DEF NodeInv
<1> QED
  BY <1>1, <1>2, Zenon DEF LedgerInv

\* Whether tasks keep up with elections is a fact about the whole behaviour.
LEMMA TimelyKept == [Next]_vars => timely' = timely
<1> SUFFICES ASSUME [Next]_vars PROVE timely' = timely
  BY Zenon
<1>1. CASE Openraft
  BY <1>1, Zenon DEF Openraft, Establish, Commit, Elect
<1>2. ASSUME NEW n \in Nodes, Restart(n) PROVE timely' = timely
  BY <1>2, Zenon DEF Restart
<1>3. ASSUME NEW n \in Nodes,
             Apply(n) \/ ConfirmLeader(n) \/ CommandSource(n) \/ ApplyBlock(n)
      PROVE  timely' = timely
  BY <1>3, Zenon DEF Apply, ConfirmLeader, CommandSource, ForwardWalReplay, ForwardReplay,
     SendProduce, ApplyBlock, raftVars
<1>4. ASSUME NEW n \in Nodes,
             ReceiveCommand(n) \/ ExecuteProduce(n) \/ ReplayGenesis(n) \/ ExecuteReplay(n)
      PROVE  timely' = timely
  BY <1>4, Zenon DEF ReceiveCommand, ExecuteProduce, ReplayGenesis, ExecuteReplay, raftVars
<1>5. ASSUME NEW n \in Nodes,
             \/ MatchCanonized(n) \/ ForwardCanonized(n) \/ PassReplay(n)
             \/ ProposeBlock(n) \/ ProposeReturns(n)
      PROVE  timely' = timely
  BY <1>5, Zenon DEF MatchCanonized, ForwardCanonized, PassReplay, ProposeBlock, ProposeReturns,
     raftVars
<1>6. CASE UNCHANGED vars
  BY <1>6, Zenon DEF vars, raftVars
<1> QED
  BY <1>1, <1>2, <1>3, <1>4, <1>5, <1>6, Zenon DEF Next, NodeStep, StateMachine,
     LeadershipMonitor, BlockExecutor, BlockCanonizer, BlockApplier, Crash, Exit,
     LoseLeadership, RefuseReplay, MismatchCanonized, ProposeOnReplica, ProposeFails

LEMMA NextLedger == Inv /\ LedgerInv /\ [Next]_vars => LedgerInv'
<1> SUFFICES ASSUME Inv, LedgerInv, [Next]_vars PROVE LedgerInv'
  BY Zenon
<1>1. CASE ~timely
  BY <1>1, TimelyKept, Zenon DEF LedgerInv
<1>2. CASE timely
  <2>1. CASE Openraft
    BY <1>2, <2>1, EstablishLedger, CommitLedger, ElectLedger, Zenon DEF Openraft
  <2>2. ASSUME NEW n \in Nodes, Restart(n) PROVE LedgerInv'
    BY <1>2, <2>2, RestartLedger, Zenon
  <2>3. ASSUME NEW n \in Nodes,
               Apply(n) \/ ConfirmLeader(n) \/ CommandSource(n) \/ ApplyBlock(n)
        PROVE  LedgerInv'
    BY <1>2, <2>3, ApplyLedger, ConfirmLeaderLedger, ForwardWalReplayLedger,
       ForwardReplayLedger, SendProduceLedger, ApplyBlockLedger, Zenon DEF CommandSource
  <2>4. ASSUME NEW n \in Nodes,
               ReceiveCommand(n) \/ ExecuteProduce(n) \/ ReplayGenesis(n) \/ ExecuteReplay(n)
        PROVE  LedgerInv'
    BY <1>2, <2>4, ReceiveCommandLedger, ExecuteProduceLedger, ReplayGenesisLedger,
       ExecuteReplayLedger, Zenon
  <2>5. ASSUME NEW n \in Nodes,
               \/ MatchCanonized(n) \/ ForwardCanonized(n) \/ PassReplay(n)
               \/ ProposeBlock(n) \/ ProposeReturns(n)
        PROVE  LedgerInv'
    BY <1>2, <2>5, MatchCanonizedLedger, ForwardCanonizedLedger, PassReplayLedger,
       ProposeBlockLedger, ProposeReturnsLedger, Zenon
  <2>6. CASE UNCHANGED vars
    <3>1. UNCHANGED <<log, tail, term, leader, established, role, timely>>
      BY <2>6, Zenon DEF vars, raftVars, sourceVars
    <3>2. \A n \in Nodes : NodeKept(n)
      BY <2>6, RaftStepKept, Zenon DEF vars
    <3>3. \A n \in Nodes : NodeInv(n)'
      BY <1>2, <3>1, <3>2, NodeInvKept, Zenon DEF LedgerInv
    <3> QED
      BY <1>2, <3>1, <3>3, Zenon DEF LedgerInv, LogInv
  <2> QED
    BY <2>1, <2>2, <2>3, <2>4, <2>5, <2>6, Zenon DEF Next, NodeStep, StateMachine,
       LeadershipMonitor, BlockExecutor, BlockCanonizer, BlockApplier, Crash, Exit,
       LoseLeadership, RefuseReplay, MismatchCanonized, ProposeOnReplica, ProposeFails
<1> QED
  BY <1>1, <1>2, Zenon

\* The two inductive invariants together.
LEMMA LedgerInvariant == Spec => [](Inv /\ LedgerInv)
<1>1. Init => Inv /\ LedgerInv
  BY InitInv, InitLedger, Zenon
<1>2. (Inv /\ LedgerInv) /\ [Next]_vars => (Inv /\ LedgerInv)'
  BY NextInv, NextLedger, Zenon
<1> QED
  BY <1>1, <1>2, PTL DEF Spec

-----------------------------------------------------------------------------
(* What follows *)

\* replay(), match_canonized and WriteReplay::write: when tasks keep up with
\* elections, the executor meets no replay it refuses, the canonizer finds no
\* other block canonized in place of its own, the applier sees no gap.
THEOREM ConsistentBlocks == Spec => []NoInconsistentBlock
<1>1. Inv /\ LedgerInv => NoInconsistentBlock
  <2> SUFFICES ASSUME Inv, LedgerInv, timely, NEW n \in Nodes
               PROVE  /\ (CaughtUp(n) /\ HasCommand(n, "Replay")) =>
                           ~MayRefuseOn(last_block[n], executing[n][1].block)
                      /\ canonized_blocks_rx[n] # << >> /\ produced_queue[n] # << >> =>
                           Head(produced_queue[n]) = Head(canonized_blocks_rx[n])
                      /\ canonical[n] # << >> => Len(Head(canonical[n])) <= Len(wal[n]) + 1
    BY Zenon DEF NoInconsistentBlock
  <2>1. NodeInv(n) /\ LogInv
    BY Zenon DEF LedgerInv
  <2>2. ASSUME CaughtUp(n), HasCommand(n, "Replay"), last_block[n] # NoBlock
        PROVE  Extends(last_block[n], executing[n][1].block)
    <3>1. ~Own(n) /\ Holds(executing[n], "Replay")
      BY <2>2, CaughtUpEmpty, Zenon DEF Own, HasCommand, Holds
    <3>2. /\ Known(log, applied[n], last_block[n])
          /\ Known(log, applied[n], executing[n][1].block)
          /\ Len(executing[n][1].block) = Len(last_block[n]) + 1
      BY <2>1, <2>2, <3>1, Zenon DEF NodeInv, Stream, InOrder, IsNext
    <3>3. /\ log \in Seq(Block) /\ applied[n] \in Nat /\ applied[n] <= Len(log)
          /\ last_block[n] \in Block /\ executing[n] \in AtMostOne(Command)
      BY <2>1, <2>2, NodeTypes, Positions, Zenon DEF NodeInv
    <3>4. executing[n][1].block \in Block
      BY <3>1, <3>3, QueuedBlock, Zenon
    <3> QED
      BY <2>1, <3>2, <3>3, <3>4, KnownExtends, Zenon DEF LogInv
  <2>3. canonized_blocks_rx[n] # << >> /\ produced_queue[n] # << >> =>
          Head(produced_queue[n]) = Head(canonized_blocks_rx[n])
    <3>1. /\ produced_queue[n] # << >> =>
               /\ produced_queue[n][1] = canonized_blocks_rx[n][1]
               /\ Head(produced_queue[n]) = produced_queue[n][1]
      BY <2>1, OneQueue, Zenon DEF NodeInv, OwnLast
    <3>2. canonized_blocks_rx[n] \in Seq(Block)
      BY NodeTypes, Zenon
    <3>3. \A s \in Seq(Block) : s # << >> => Head(s) = s[1]
      OBVIOUS
    <3> QED
      BY <3>1, <3>2, <3>3, Zenon
  <2>4. canonical[n] # << >> => Len(Head(canonical[n])) <= Len(wal[n]) + 1
    BY <2>1, OneQueue, BlockLen, Zenon DEF NodeInv, NoGap
  <2> QED
    BY <2>2, <2>3, <2>4, Zenon DEF MayRefuseOn
<1> QED
  BY <1>1, LedgerInvariant, PTL

\* applied_state() takes the log id of the latest WAL block: raft re-applies
\* whatever the WAL lacks.
THEOREM NothingSkipped == Spec => []NoCanonizedBlockSkipped
<1>1. Inv /\ LedgerInv => NoCanonizedBlockSkipped
  <2> SUFFICES ASSUME Inv, LedgerInv, timely, NEW n \in Nodes, NEW i \in 1 .. AppliedState(n)
               PROVE  log[i] \in Elems(wal[n])
    BY Zenon DEF NoCanonizedBlockSkipped
  <2>1. Placed(n) /\ wal[n] \in Seq(Block)
    BY NodeTypes, Zenon DEF LedgerInv, NodeInv
  <2>2. AppliedState(n) = Len(wal[n])
    BY <2>1, AppliedStateIsWal, Zenon
  <2>3. i \in 1 .. Len(wal[n])
    BY <2>2, Zenon
  <2>4. wal[n][i] = log[i]
    BY <2>1, <2>3, AlignedWal, Zenon DEF Placed
  <2> QED
    BY <2>3, <2>4, Zenon DEF Elems
<1> QED
  BY <1>1, LedgerInvariant, PTL

\* With tasks that keep up with elections the WALs of two nodes never hold
\* different blocks with one number; without, leadership_race shows that they may.
THEOREM TimelyAgreement == Spec => [](timely => WalAgreement)
<1>1. Inv /\ LedgerInv => (timely => WalAgreement)
  <2> SUFFICES ASSUME Inv, LedgerInv, timely, NEW m \in Nodes, NEW n \in Nodes,
                      NEW k \in 1 .. Len(wal[m]), k <= Len(wal[n])
               PROVE  wal[m][k] = wal[n][k]
    BY Zenon DEF WalAgreement
  <2>1. Placed(m) /\ Placed(n) /\ wal[m] \in Seq(Block) /\ wal[n] \in Seq(Block)
    BY NodeTypes, Zenon DEF LedgerInv, NodeInv
  <2>2. k \in 1 .. Len(wal[n])
    BY <2>1, SeqLen
  <2>3. wal[m][k] = log[k]
    BY <2>1, AlignedWal, Zenon DEF Placed
  <2>4. wal[n][k] = log[k]
    BY <2>1, <2>2, AlignedWal, Zenon DEF Placed
  <2> QED
    BY <2>3, <2>4, Zenon
<1> QED
  BY <1>1, LedgerInvariant, PTL

-----------------------------------------------------------------------------
(* The nodes implement the replicated ledger *)

\* Raft commits the entry in its tail, for its own leader or, at the start of a
\* term, for an earlier one.
CommitsTail == tail # << >> /\ log' = log \o tail /\ wal' = wal

\* Raft canonizes one block on top of the log.
LEMMA CommitCanonizes ==
  ASSUME Inv, LedgerInv, timely, CommitsTail
  PROVE  \E p \in Payloads : log' = Append(log, Append(At(log, Len(log)), p))
<1>1. LogInv /\ tail # << >> /\ log' = log \o tail
  BY Zenon DEF CommitsTail, LedgerInv
<1>2. /\ tail = << tail[1] >> /\ tail[1] \in Block /\ Follows(log, tail[1])
      /\ log \in Seq(Block)
  BY <1>1, EntryToCommit, Zenon
<1>3. PICK p \in Payloads : tail[1] = Append(At(log, Len(log)), p)
  BY <1>2, Zenon DEF Follows, Extends
<1>4. log' = Append(log, tail[1])
  <2> DEFINE t == tail[1]
             l == log
  <2>1. log' = l \o << t >> /\ l \in Seq(Block) /\ t \in Block
    BY <1>1, <1>2, Zenon
  <2> HIDE DEF t, l
  <2>2. l \o << t >> = Append(l, t)
    BY <2>1
  <2> QED
    BY <2>1, <2>2, Zenon DEF t, l
<1> QED
  BY <1>3, <1>4, Zenon

\* The applier writes nothing (a block the WAL has) or the next canonized block.
LEMMA ApplyPersists ==
  ASSUME Inv, LedgerInv, timely, NEW n \in Nodes, ApplyBlock(n)
  PROVE  /\ log' = log
         /\ \/ wal' = wal
            \/ /\ Len(wal[n]) < Len(log)
               /\ wal' = [wal EXCEPT ![n] = Append(@, log[Len(@) + 1])]
<1> DEFINE b == last_block[n]
           w == wal[n]
<1>1. NodeInv(n) /\ LogInv /\ canonical[n] # << >>
  BY Zenon DEF LedgerInv, ApplyBlock
<1>2. /\ executed[n] = << >> /\ proposing[n] = << >> /\ produced_queue[n] = << >>
      /\ Head(canonical[n]) = b /\ b \in Block
  BY <1>1, OneQueue, Zenon
<1>3. /\ log' = log /\ Len(b) <= Len(w) + 1
      /\ wal' = IF Len(b) <= Len(w) THEN wal ELSE [wal EXCEPT ![n] = Append(@, b)]
  BY <1>2, Zenon DEF ApplyBlock, raftVars
<1>4. Known(log, applied[n], b)
  <2>1. ~Own(n)
    BY <1>2, Zenon DEF Own, Holds
  <2> QED
    BY <1>1, <1>2, <2>1, BlockLen, Zenon DEF NodeInv, Stream, InOrder
<1>5. Len(w) \in Nat /\ Len(b) \in Nat /\ applied[n] <= Len(log)
  BY <1>1, <1>2, NodeTypes, BlockLen, Positions, Zenon DEF NodeInv
<1>6. applied[n] \in Nat /\ Len(log) \in Nat
  <2>1. log \in Seq(Block) /\ applied[n] \in Nat
    BY NodeTypes, Zenon
  <2> QED
    BY <2>1, SeqLen, Zenon
<1>7. CASE ~(Len(b) <= Len(w))
  <2>1. Len(b) = Len(w) + 1 /\ Len(w) < Len(log) /\ Len(b) # 0
    <3> DEFINE k == Len(b)
               l == Len(w)
               a == applied[n]
               g == Len(log)
    <3>1. /\ k \in Nat /\ l \in Nat /\ a \in Nat /\ g \in Nat
          /\ ~(k <= l) /\ k <= l + 1 /\ k <= a /\ a <= g
      BY <1>3, <1>4, <1>5, <1>6, <1>7, Zenon DEF Known
    <3> HIDE DEF k, l, a, g
    <3>2. k = l + 1 /\ l < g /\ k # 0
      BY <3>1
    <3> QED
      BY <3>2, Zenon DEF k, l, a, g
  <2>2. b = log[Len(w) + 1]
    BY <1>4, <2>1, Zenon DEF Known, At
  <2>3. wal' = [wal EXCEPT ![n] = Append(@, b)]
    BY <1>3, <1>7, Zenon
  <2> QED
    BY <1>3, <2>1, <2>2, <2>3, Zenon
<1> QED
  BY <1>3, <1>7, Zenon

\* No other step of the nodes touches the committed log or a WAL.
LEMMA LedgerStep ==
  ASSUME Inv, LedgerInv, timely, [Next]_vars
  PROVE  \/ log' = log /\ wal' = wal
         \/ CommitsTail
         \/ \E n \in Nodes : ApplyBlock(n)
<1>1. CASE Openraft
  <2>1. wal' = wal /\ (log' = log \/ log' = log \o tail)
    BY <1>1, Zenon DEF Openraft, Establish, Commit, Elect, durableVars
  <2>2. tail = << >> => log \o tail = log
    <3>1. log \in Seq(Block)
      BY Zenon DEF Inv, TypeInv, TypeOK, RaftType
    <3> QED
      BY <3>1
  <2> QED
    BY <2>1, <2>2, Zenon DEF CommitsTail
<1>2. ASSUME NEW n \in Nodes, Restart(n) PROVE log' = log /\ wal' = wal
  BY <1>2, Zenon DEF Restart, durableVars
<1>3. ASSUME NEW n \in Nodes, Apply(n) \/ ConfirmLeader(n) \/ CommandSource(n)
      PROVE  log' = log /\ wal' = wal
  BY <1>3, Zenon DEF Apply, ConfirmLeader, CommandSource, ForwardWalReplay, ForwardReplay,
     SendProduce, raftVars, durableVars
<1>4. ASSUME NEW n \in Nodes,
             ReceiveCommand(n) \/ ExecuteProduce(n) \/ ReplayGenesis(n) \/ ExecuteReplay(n)
      PROVE  log' = log /\ wal' = wal
  BY <1>4, Zenon DEF ReceiveCommand, ExecuteProduce, ReplayGenesis, ExecuteReplay, raftVars,
     durableVars
<1>5. ASSUME NEW n \in Nodes,
             \/ MatchCanonized(n) \/ ForwardCanonized(n) \/ PassReplay(n)
             \/ ProposeBlock(n) \/ ProposeReturns(n)
      PROVE  log' = log /\ wal' = wal
  BY <1>5, Zenon DEF MatchCanonized, ForwardCanonized, PassReplay, ProposeBlock, ProposeReturns,
     raftVars, durableVars
<1>6. CASE UNCHANGED vars
  BY <1>6, Zenon DEF vars, raftVars, durableVars
<1> QED
  BY <1>1, <1>2, <1>3, <1>4, <1>5, <1>6, Zenon DEF Next, NodeStep, StateMachine,
     LeadershipMonitor, BlockExecutor, BlockCanonizer, BlockApplier, Crash, Exit,
     LoseLeadership, RefuseReplay, MismatchCanonized, ProposeOnReplica, ProposeFails

\* The nodes together implement ReplicatedLedger when their tasks keep up with
\* elections: raft's committed log is the chain, the block replay storages are
\* the ledgers, a commit canonizes one block and the applier persists the next.
THEOREM LedgerRefinement == Spec => ImplementsLedger
<1>1. Init => Ledger!Init
  BY Zenon DEF Init, Ledger!Init
<1>2. Inv /\ LedgerInv /\ [Next]_vars => [Ledger!Next]_Ledger!vars
  <2> SUFFICES ASSUME Inv, LedgerInv, [Next]_vars
               PROVE  Ledger!Next \/ UNCHANGED Ledger!vars
    BY Zenon
  <2>1. timely' = timely
    BY TimelyKept, Zenon
  <2>2. CASE ~timely
    BY <2>1, <2>2, Zenon DEF Ledger!vars
  <2>3. CASE timely
    <3>1. CASE log' = log /\ wal' = wal
      BY <2>1, <2>3, <3>1, Zenon DEF Ledger!vars
    <3>2. CASE CommitsTail
      <4>1. \E p \in Payloads : log' = Append(log, Append(At(log, Len(log)), p))
        BY <2>3, <3>2, CommitCanonizes, Zenon
      <4>2. wal' = wal
        BY <3>2, Zenon DEF CommitsTail
      <4>3. At(log, Len(log)) = IF log = << >> THEN << >> ELSE log[Len(log)]
        <5>1. log \in Seq(Block)
          BY Zenon DEF Inv, TypeInv, TypeOK, RaftType
        <5>2. Len(log) = 0 <=> log = << >>
          BY <5>1
        <5> QED
          BY <5>2, Zenon DEF At, Genesis
      <4> QED
        BY <2>1, <2>3, <4>1, <4>2, <4>3, Zenon DEF Ledger!Next, Ledger!Canonize, Ledger!Tip
    <3>3. ASSUME NEW n \in Nodes, ApplyBlock(n)
          PROVE  Ledger!Next \/ UNCHANGED Ledger!vars
      <4>1. /\ log' = log
            /\ \/ wal' = wal
               \/ /\ Len(wal[n]) < Len(log)
                  /\ wal' = [wal EXCEPT ![n] = Append(@, log[Len(@) + 1])]
        BY <2>3, <3>3, ApplyPersists, Zenon
      <4> QED
        BY <2>1, <2>3, <4>1, Zenon DEF Ledger!Next, Ledger!Persist, Ledger!vars
    <3> QED
      BY <2>3, <3>1, <3>2, <3>3, LedgerStep, Zenon
  <2> QED
    BY <2>2, <2>3, Zenon
<1> QED
  BY <1>1, <1>2, LedgerInvariant, PTL DEF Spec, ImplementsLedger, Ledger!Spec

=============================================================================
