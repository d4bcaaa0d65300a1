--------------------------- MODULE BatchingProofs ---------------------------
(***************************************************************************)
(* What Batching promises of the batches on L1, for every chain, limit,    *)
(* set of verifiers and number of faults: they obey the seal criteria, the *)
(* commit transactions of the running session are accepted, and the        *)
(* UnexpectedCommit guard covers them.  The three share one invariant.     *)
(***************************************************************************)
EXTENDS Batching, TLAPS

\* Commit transactions are the batches they commit.
Tx == [num: Nat, prev: Nat, first: Nat, last: Nat]
Genesis == [num |-> 0, prev |-> 0, first |-> 0, last |-> 0]

\* Batch n of L1, and what batch i of the session is built on.
L1At(n) == IF n = 0 THEN Genesis ELSE l1[n]
Base(i) == IF i = 1 THEN L1At(start.executed) ELSE sealed[i - 1]

\* The types, and the order of the counters.
Typed ==
    /\ l1 \in Seq(Tx) /\ executed \in Nat /\ executed <= Len(l1)
    /\ pool \in Seq(Tx) /\ landed \in Nat
    /\ phase \in {"down", "counted", "up"} /\ inFlight \in Nat /\ submitted \in Nat
    /\ start \in [committed: Nat, executed: Nat, persisted: Nat]
    /\ start.executed <= start.committed /\ start.committed <= Len(l1)
    /\ height \in Nat /\ pos \in Nat \ {0} /\ armed \in BOOLEAN
    /\ sealed \in Seq(Tx)
    /\ verified \in Nat /\ verified <= Len(sealed)
    /\ sent \in Nat /\ sent <= verified

\* The batches of L1 follow one another.
Chained ==
    \A n \in 1..Len(l1) :
        /\ l1[n].num = n
        /\ l1[n].prev = L1At(n - 1).first
        /\ l1[n].first = L1At(n - 1).last + 1

\* So do the batches of the session, and the committed ones are those of L1.
Continued ==
    \A i \in 1..Len(sealed) :
        /\ sealed[i].num = Number(i)
        /\ sealed[i].prev = Base(i).first
        /\ sealed[i].first = Base(i).last + 1
        /\ Number(i) <= start.committed => sealed[i] = l1[Number(i)]

\* A transaction further back in the mempool is for a batch further ahead.
PoolAhead == \A i \in 1..Len(pool) : pool[i].num >= Len(l1) + i

\* What the session has sent is on L1 or in the mempool at its own nonce.
Placed ==
    phase = "up" =>
        /\ Len(l1) <= start.committed + landed
        /\ \A i \in 1..sent :
              /\ Number(i) > start.committed /\ Number(i) <= start.committed + landed =>
                    Number(i) <= Len(l1) /\ l1[Number(i)] = sealed[i]
              /\ Number(i) > start.committed + landed =>
                    LET slot == Number(i) - start.committed - landed
                    IN slot <= Len(pool) /\ pool[slot] = sealed[i]

\* What lies in the mempool was counted at startup or noted since, or comes too late.
Covered ==
    /\ phase = "counted" => Len(pool) <= inFlight
    /\ phase = "up" =>
          /\ Len(l1) <= submitted
          /\ \A i \in 1..Len(pool) : pool[i].num <= submitted \/ pool[i].num > Len(l1) + i

\* The seal criteria of the batch first..last of a chain of blocks.
Obeys(blocks, first, last) ==
    /\ Weight(blocks, first, last) > WeightLimit => first = last
    /\ \A a, b \in first..last : blocks[a].version = blocks[b].version
    /\ (\E b \in first..last : blocks[b].upgrade) => first = last
    /\ \A b \in (first + 1)..last : ~blocks[b].chainId

\* All of them do.
ObeysAll(blocks, batches) == \A i \in 1..Len(batches) : Obeys(blocks, batches[i].first, batches[i].last)

\* The first block of the next batch (NextFirst).
Frontier == Base(Len(sealed) + 1).last + 1

\* The batch that is open obeys the criteria as well.
Open ==
    /\ Recreates => pos <= Frontier
    /\ armed => ~Recreates /\ pos > Frontier
    /\ ~Recreates /\ pos > Frontier => Obeys(chain, Frontier, pos - 1)

\* Whatever may get to L1 obeys the criteria: what is there, in the mempool, sealed or open.
Lawful == ObeysAll(chain, l1) /\ ObeysAll(chain, pool) /\ ObeysAll(chain, sealed) /\ Open

\* The open request is for a batch that needs signatures.
Asked ==
    /\ request \in [open: BOOLEAN, asked: SUBSET Verifiers, signed: SUBSET Verifiers]
    /\ request.open => verified < Len(sealed) /\ Number(verified + 1) > start.committed

\* The inductive invariant.
Inv == Typed /\ Chained /\ Continued /\ PoolAhead /\ Placed /\ Covered /\ Lawful

-----------------------------------------------------------------------------
(* Operators. *)

\* The block at which the first n batches end, as CommittedBlock and the batcher's startup read it.
LEMMA SubSeqEnd ==
    ASSUME NEW s \in Seq(Tx), NEW n \in Nat, n <= Len(s)
    PROVE  /\ LastOf(SubSeq(s, 1, n)) = IF n = 0 THEN 0 ELSE s[n].last
           /\ FirstOf(SubSeq(s, 1, n)) = IF n = 0 THEN 0 ELSE s[n].first
  <1>1. SubSeq(s, 1, n) \in Seq(Tx) /\ Len(SubSeq(s, 1, n)) = n
    OBVIOUS
  <1>2. CASE n = 0
    <2>1. SubSeq(s, 1, n) = <<>>
      BY <1>1, <1>2
    <2>2. QED
      BY <1>2, <2>1 DEF LastOf, FirstOf
  <1>3. CASE n # 0
    <2>1. SubSeq(s, 1, n) # <<>>
      BY <1>1, <1>3
    <2>2. SubSeq(s, 1, n)[n] = s[n]
      BY <1>3
    <2>3. QED
      BY <1>1, <1>3, <2>1, <2>2 DEF LastOf, FirstOf
  <1>4. QED
    BY <1>2, <1>3

\* The end of the last batch of a sequence, on which L1 checks that a commit builds.
LEMMA Ends ==
    ASSUME NEW s \in Seq(Tx)
    PROVE  /\ LastOf(s) = IF Len(s) = 0 THEN 0 ELSE s[Len(s)].last
           /\ FirstOf(s) = IF Len(s) = 0 THEN 0 ELSE s[Len(s)].first
  BY DEF LastOf, FirstOf

\* A batch of L1, or genesis, is a batch.
LEMMA L1AtType ==
    ASSUME Typed, NEW n \in Nat, n <= Len(l1)
    PROVE  L1At(n) \in Tx
  <1>1. CASE n = 0
    BY <1>1 DEF L1At, Genesis, Tx
  <1>2. CASE n # 0
    <2>1. l1 \in Seq(Tx)
      BY DEF Typed
    <2>2. l1[n] \in Tx
      BY <1>2, <2>1
    <2>3. QED
      BY <1>2, <2>2 DEF L1At
  <1>3. QED
    BY <1>1, <1>2

\* What the batcher takes for its previous batch is what the next one has to build on.
LEMMA Previous ==
    ASSUME Typed
    PROVE  /\ Base(Len(sealed) + 1) \in Tx
           /\ PrevFirst = Base(Len(sealed) + 1).first
           /\ NextFirst = Frontier
           /\ Frontier \in Nat
  <1>1. CASE sealed = <<>>
    <2>1. Len(sealed) = 0
      BY <1>1
    <2>2. start.executed \in Nat /\ start.executed <= Len(l1) /\ l1 \in Seq(Tx)
      BY DEF Typed
    <2>3. L1At(start.executed) \in Tx
      BY <2>2, L1AtType
    <2>4. Base(Len(sealed) + 1) = L1At(start.executed)
      BY <2>1 DEF Base
    <2>5. /\ PrevLast = L1At(start.executed).last
          /\ PrevFirst = L1At(start.executed).first
      BY <1>1, <2>2, SubSeqEnd DEF PrevLast, PrevFirst, CommittedBlock, L1At, Genesis
    <2>6. L1At(start.executed).last \in Nat
      BY <2>3 DEF Tx
    <2>7. QED
      BY <2>3, <2>4, <2>5, <2>6 DEF NextFirst, Frontier
  <1>2. CASE sealed # <<>>
    <2>1. sealed \in Seq(Tx) /\ Len(sealed) # 0 /\ Len(sealed) \in Nat
      BY <1>2 DEF Typed
    <2>2. Base(Len(sealed) + 1) = sealed[Len(sealed)]
      BY <2>1 DEF Base
    <2>3. sealed[Len(sealed)] \in Tx
      BY <2>1
    <2>4. PrevLast = sealed[Len(sealed)].last /\ PrevFirst = sealed[Len(sealed)].first
      BY <1>2, <2>1, Ends DEF PrevLast, PrevFirst
    <2>5. sealed[Len(sealed)].last \in Nat
      BY <2>3 DEF Tx
    <2>6. QED
      BY <2>2, <2>3, <2>4, <2>5 DEF NextFirst, Frontier
  <1>3. QED
    BY <1>1, <1>2

\* A transaction sent anew is behind all others.
LEMMA AppendFacts ==
    ASSUME NEW s \in Seq(Tx), NEW t \in Tx
    PROVE  /\ Append(s, t) \in Seq(Tx) /\ Len(Append(s, t)) = Len(s) + 1
           /\ \A i \in 1..Len(s) : Append(s, t)[i] = s[i]
           /\ Append(s, t)[Len(s) + 1] = t
  OBVIOUS

\* When the first transaction is mined, the others move up by one.
LEMMA TailFacts ==
    ASSUME NEW s \in Seq(Tx), s # <<>>
    PROVE  /\ Head(s) = s[1] /\ Head(s) \in Tx /\ Len(s) \in Nat /\ Len(s) >= 1
           /\ Tail(s) \in Seq(Tx) /\ Len(Tail(s)) = Len(s) - 1
           /\ \A i \in 1..(Len(s) - 1) : Tail(s)[i] = s[i + 1]
  OBVIOUS

\* The fields of a batch in a sequence of batches.
LEMMA Fields ==
    ASSUME NEW s \in Seq(Tx), NEW i \in 1..Len(s)
    PROVE  /\ s[i] \in Tx /\ i \in Nat
           /\ s[i].num \in Nat /\ s[i].prev \in Nat /\ s[i].first \in Nat /\ s[i].last \in Nat
  <1>1. s[i] \in Tx /\ i \in Nat
    OBVIOUS
  <1>2. QED
    BY <1>1 DEF Tx

\* Slots of the mempool: n is the number of a batch, c the committed one, d the landed transactions.
LEMMA SlotArith ==
    ASSUME NEW n \in Nat, NEW c \in Nat, NEW d \in Nat
    PROVE  /\ n > c + d /\ n <= c + d + 1 => n = c + d + 1
           /\ n > c + d + 1 => /\ n > c + d
                              /\ n - c - d \in Nat /\ n - c - (d + 1) \in Nat
                              /\ n - c - d = (n - c - (d + 1)) + 1
                              /\ n - c - (d + 1) >= 1
           /\ n > c + d => n - c - d \in Nat /\ n - c - d >= 1
  OBVIOUS

\* The slot of the next command: n is its batch, e the executed batch, t the commands sent.
LEMMA NextSlot ==
    ASSUME NEW n \in Nat, NEW c \in Nat, NEW d \in Nat, NEW e \in Nat, NEW t \in Nat,
           n = e + (t + 1), e <= c, n > c + d
    PROVE  /\ n - c - d \in Nat /\ n - c - d >= 1 /\ n = (c + d) + (n - c - d)
           /\ n - c - d # 1 => /\ t >= 1 /\ e + t > c + d
                              /\ (e + t) - c - d = (n - c - d) - 1
  OBVIOUS

\* The slots of different batches differ.
LEMMA OtherSlot ==
    ASSUME NEW n \in Nat, NEW m \in Nat, NEW c \in Nat, NEW d \in Nat, n < m, n > c + d
    PROVE  n - c - d \in Nat /\ n - c - d >= 1 /\ n - c - d # m - c - d
  OBVIOUS

\* The batch number of command i of the session.
LEMMA NumberType ==
    ASSUME Typed, NEW i \in Nat
    PROVE  Number(i) \in Nat /\ Number(i) >= i /\ Number(i) = start.executed + i
  <1>1. start.executed \in Nat
    BY DEF Typed
  <1>2. QED
    BY <1>1 DEF Number

(***************************************************************************)
(* Steps that leave the batches, the mempool and L1 alone; the process may *)
(* exit.                                                                   *)
(***************************************************************************)
LEMMA Quiet ==
    ASSUME Inv,
           chain' = chain, l1' = l1, pool' = pool, landed' = landed,
           inFlight' = inFlight, submitted' = submitted, start' = start,
           pos' = pos, armed' = armed, sealed' = sealed, sent' = sent,
           phase' \in {phase, "down"},
           executed' \in Nat, executed' <= Len(l1), height' \in Nat,
           verified' \in Nat, sent <= verified', verified' <= Len(sealed)
    PROVE  Inv'
  <1>1. Typed'
    BY DEF Inv, Typed
  <1>2. Chained'
    BY DEF Inv, Chained, L1At
  <1>3. Continued'
    BY Zenon DEF Inv, Continued, Number, Base, L1At
  <1>4. PoolAhead'
    BY DEF Inv, PoolAhead
  <1>5. Placed'
    <2>1. phase' = "up" => phase = "up"
      OBVIOUS
    <2>2. QED
      BY <2>1, Zenon DEF Inv, Placed, Number
  <1>6. Covered'
    <2>1. (phase' = "up" => phase = "up") /\ (phase' = "counted" => phase = "counted")
      OBVIOUS
    <2>2. QED
      BY <2>1, Zenon DEF Inv, Covered
  <1>7. Lawful'
    BY Zenon DEF Inv, Lawful, Open, ObeysAll, Recreates, Number, Frontier, Base, L1At
  <1>8. QED
    BY <1>1, <1>2, <1>3, <1>4, <1>5, <1>6, <1>7 DEF Inv

(***************************************************************************)
(* A transaction of the session is accepted when its turn comes.           *)
(***************************************************************************)
LEMMA HeadAccepted ==
    ASSUME Typed, Chained, Continued, Placed, phase = "up", pool # <<>>,
           NEW i \in 1..sent, Number(i) = start.committed + landed + 1
    PROVE  pool[1] = sealed[i] /\ Accepted(pool[1])
  <1>1. /\ l1 \in Seq(Tx) /\ Len(l1) \in Nat /\ sealed \in Seq(Tx)
        /\ i \in 1..Len(sealed) /\ i \in Nat /\ i >= 1 /\ sent \in Nat /\ i <= sent
        /\ start.committed \in Nat /\ start.executed \in Nat /\ landed \in Nat
        /\ start.executed <= start.committed /\ start.committed <= Len(l1)
        /\ Len(l1) <= start.committed + landed
    BY DEF Typed, Placed
  <1>2. start.executed + i = start.committed + landed + 1
    BY DEF Number
  <1>3. pool[1] = sealed[i]
    <2>1. Number(i) - start.committed - landed = 1
      BY <1>1, <1>2 DEF Number
    <2>2. Number(i) > start.committed + landed
      BY <1>1, <1>2 DEF Number
    <2>3. QED
      BY <2>1, <2>2 DEF Placed
  <1>4. sealed[i].num = Number(i) /\ sealed[i].prev = Base(i).first /\ sealed[i].first = Base(i).last + 1
    BY <1>1 DEF Continued
  <1>5. Len(l1) = start.committed + landed /\ Base(i) = L1At(Len(l1))
    <2>1. CASE i = 1
      <3>1. landed = 0 /\ start.executed = start.committed
        BY <1>1, <1>2, <2>1
      <3>2. Len(l1) = start.committed + landed
        BY <1>1, <3>1
      <3>3. QED
        BY <1>1, <2>1, <3>1, <3>2 DEF Base
    <2>2. CASE i # 1
      <3>1. i - 1 \in 1..sent /\ Number(i - 1) = start.committed + landed
        <4>1. i - 1 \in 1..sent
          BY <1>1, <2>2
        <4>2. start.executed + (i - 1) = start.committed + landed
          BY <1>1, <1>2
        <4>3. QED
          BY <4>1, <4>2 DEF Number
      <3>2. CASE landed = 0
        <4>1. Len(l1) = start.committed + landed
          BY <1>1, <3>2
        <4>2. i - 1 \in 1..Len(sealed) /\ Number(i - 1) <= start.committed
          BY <1>1, <2>2, <3>1, <3>2
        <4>3. sealed[i - 1] = l1[Number(i - 1)]
          BY <4>2 DEF Continued
        <4>4. Number(i - 1) # 0 /\ Number(i - 1) = Len(l1)
          <5>1. Number(i - 1) # 0
            BY <1>1, <2>2 DEF Number
          <5>2. QED
            BY <3>1, <4>1, <5>1
        <4>5. QED
          BY <2>2, <4>1, <4>3, <4>4 DEF Base, L1At
      <3>3. CASE landed # 0
        <4>1. Number(i - 1) > start.committed /\ Number(i - 1) <= start.committed + landed
          BY <1>1, <3>1, <3>3
        <4>2. Number(i - 1) <= Len(l1) /\ l1[Number(i - 1)] = sealed[i - 1]
          BY <3>1, <4>1 DEF Placed
        <4>3. Len(l1) = start.committed + landed /\ Len(l1) # 0
          BY <1>1, <3>1, <3>3, <4>2
        <4>4. QED
          BY <2>2, <3>1, <4>2, <4>3 DEF Base, L1At
      <3>4. QED
        BY <3>2, <3>3
    <2>3. QED
      BY <2>1, <2>2
  <1>6. FirstOf(l1) = L1At(Len(l1)).first /\ LastOf(l1) = L1At(Len(l1)).last
    BY <1>1, Ends DEF L1At, Genesis
  <1>7. Number(i) = Len(l1) + 1
    BY <1>5
  <1>8. QED
    BY <1>3, <1>4, <1>5, <1>6, <1>7 DEF Accepted

\* So the invariant implies the property of the run.
LEMMA OwnAccepted ==
    ASSUME Inv
    PROVE  OwnCommitsAccepted
  <1> SUFFICES ASSUME pool # <<>>, Ours(Head(pool))
               PROVE  Accepted(Head(pool))
    BY DEF OwnCommitsAccepted
  <1>1. Typed /\ Chained /\ Continued /\ Placed /\ PoolAhead /\ phase = "up"
    BY DEF Inv, Ours
  <1>2. PICK i \in 1..sent : sealed[i] = Head(pool) /\ Number(i) > start.committed
    BY DEF Ours
  <1>3. /\ pool \in Seq(Tx) /\ Head(pool) = pool[1] /\ Len(pool) \in Nat /\ Len(pool) >= 1
        /\ Len(l1) \in Nat /\ landed \in Nat /\ start.committed \in Nat /\ start.executed \in Nat
        /\ i \in Nat /\ i \in 1..Len(sealed) /\ start.executed <= start.committed
        /\ sent \in Nat /\ Len(sealed) \in Nat /\ sent <= Len(sealed) /\ i <= sent
    BY <1>1, TailFacts DEF Typed
  <1>4. pool[1].num = Number(i) /\ pool[1].num >= Len(l1) + 1
    BY <1>1, <1>2, <1>3 DEF Continued, PoolAhead
  <1>5. Number(i) > start.committed + landed
    <2>1. CASE Number(i) <= start.committed + landed
      <3>1. Number(i) <= Len(l1)
        BY <1>1, <1>2, <2>1 DEF Placed
      <3>2. QED
        BY <1>3, <1>4, <3>1 DEF Number
    <2>2. QED
      BY <1>3, <2>1 DEF Number
  <1> DEFINE k == ((start.committed + landed) + 1) - start.executed
  <1>6. k \in 1..sent /\ k \in 1..Len(sealed) /\ Number(k) = start.committed + landed + 1
    <2>1. k \in Int /\ k >= 1 /\ start.executed + k = start.committed + landed + 1
      BY <1>3
    <2>2. start.executed + i > start.committed + landed
      BY <1>5 DEF Number
    <2>3. k <= i
      BY <1>3, <2>1, <2>2
    <2>4. QED
      BY <1>3, <2>1, <2>3 DEF Number
  <1>7. pool[1] = sealed[k] /\ Accepted(pool[1])
    BY <1>1, <1>6, HeadAccepted
  <1>8. QED
    BY <1>3, <1>7

(***************************************************************************)
(* L1 mines the first transaction of the mempool.                          *)
(***************************************************************************)
\* L1 accepts it when it carries on from the last batch; a nonce is used up either way.
LEMMA LandStep ==
    ASSUME Inv, Land
    PROVE  Inv'
  <1> DEFINE tx == Head(pool)
             bound == Len(l1)
  <1>1. /\ pool # <<>> /\ pool' = Tail(pool) /\ landed' = landed + 1
        /\ chain' = chain /\ height' = height /\ executed' = executed
    BY DEF Land
  <1>2. /\ inFlight' = inFlight /\ submitted' = submitted /\ start' = start /\ pos' = pos
        /\ armed' = armed /\ sealed' = sealed /\ verified' = verified /\ sent' = sent
        /\ phase' \in {phase, "down"}
    BY DEF Land, mainVars, Exit
  <1>3. Typed /\ Chained /\ Continued /\ PoolAhead /\ Placed /\ Covered /\ Lawful
    BY DEF Inv
  <1>4. /\ l1 \in Seq(Tx) /\ pool \in Seq(Tx) /\ sealed \in Seq(Tx) /\ bound \in Nat
        /\ landed \in Nat /\ submitted \in Nat /\ inFlight \in Nat /\ sent \in Nat
        /\ start.committed \in Nat /\ start.executed \in Nat
        /\ start.executed <= start.committed /\ start.committed <= bound
    BY <1>3 DEF Typed
  <1>5. /\ tx = pool[1] /\ tx \in Tx /\ Len(pool) \in Nat /\ Len(pool) >= 1
        /\ pool' \in Seq(Tx) /\ Len(pool') = Len(pool) - 1
        /\ \A i \in 1..Len(pool') : pool'[i] = pool[i + 1] /\ i + 1 \in 1..Len(pool)
    <2>1. \A i \in 1..(Len(pool) - 1) : pool'[i] = pool[i + 1]
      BY <1>1, <1>4, TailFacts
    <2>2. /\ tx = pool[1] /\ tx \in Tx /\ Len(pool) \in Nat /\ Len(pool) >= 1
          /\ pool' \in Seq(Tx) /\ Len(pool') = Len(pool) - 1
      BY <1>1, <1>4, TailFacts
    <2>3. QED
      BY <2>1, <2>2
  <1>6. /\ tx.num >= bound + 1 /\ tx.num \in Nat
        /\ phase = "up" => tx.num <= submitted \/ tx.num > bound + 1
    BY <1>3, <1>5 DEF PoolAhead, Covered, Tx
  <1>7. \/ Accepted(tx) /\ l1' = Append(l1, tx)
        \/ ~Accepted(tx) /\ l1' = l1
    BY DEF Land
  <1>8. /\ l1' \in Seq(Tx) /\ Len(l1') \in {bound, bound + 1}
        /\ \A n \in 1..bound : l1'[n] = l1[n] /\ n \in 1..Len(l1')
        /\ Len(l1') = bound + 1 => Accepted(tx) /\ l1'[bound + 1] = tx
        /\ Accepted(tx) => Len(l1') = bound + 1
    <2>1. CASE Accepted(tx) /\ l1' = Append(l1, tx)
      BY <1>4, <1>5, <2>1, AppendFacts
    <2>2. CASE ~Accepted(tx) /\ l1' = l1
      BY <1>4, <2>2
    <2>3. QED
      BY <1>7, <2>1, <2>2
  <1>9. \A n \in 0..bound : L1At(n)' = L1At(n)
    BY <1>4, <1>8 DEF L1At, Genesis
  <1> HIDE DEF tx, bound
  <1>10. Typed'
    <2>1. executed' <= Len(l1') /\ start'.committed <= Len(l1')
      BY <1>1, <1>2, <1>3, <1>4, <1>8 DEF Typed, bound
    <2>2. QED
      BY <1>1, <1>2, <1>3, <1>5, <1>8, <2>1 DEF Typed
  <1>11. Chained'
    <2> SUFFICES ASSUME NEW n \in 1..Len(l1')
                 PROVE  /\ l1'[n].num = n
                        /\ l1'[n].prev = L1At(n - 1)'.first
                        /\ l1'[n].first = L1At(n - 1)'.last + 1
      BY DEF Chained
    <2>1. n - 1 \in 0..bound /\ L1At(n - 1)' = L1At(n - 1)
      BY <1>4, <1>8, <1>9
    <2>2. CASE n <= bound
      <3>1. n \in 1..bound /\ l1'[n] = l1[n]
        BY <1>4, <1>8, <2>2
      <3>2. QED
        BY <1>3, <2>1, <3>1 DEF Chained, bound
    <2>3. CASE n > bound
      <3>1. n = bound + 1 /\ l1'[n] = tx /\ Accepted(tx)
        BY <1>4, <1>8, <2>3
      <3>2. FirstOf(l1) = L1At(bound).first /\ LastOf(l1) = L1At(bound).last
        BY <1>4, Ends DEF L1At, Genesis, bound
      <3>3. n - 1 = bound
        BY <1>4, <3>1
      <3>4. QED
        BY <2>1, <3>1, <3>2, <3>3 DEF Accepted, bound
    <2>4. QED
      BY <1>4, <2>2, <2>3
  <1>12. \A i : Base(i)' = Base(i)
    BY <1>2, <1>4, <1>9 DEF Base
  <1>13. Continued'
    <2>1. \A i \in 1..Len(sealed) : Number(i) <= start.committed => Number(i) \in 1..bound
      BY <1>4 DEF Number
    <2>2. QED
      BY <1>2, <1>3, <1>8, <1>12, <2>1, Zenon DEF Continued, Number
  <1>14. PoolAhead'
    <2> SUFFICES ASSUME NEW i \in 1..Len(pool')
                 PROVE  pool'[i].num >= Len(l1') + i
      BY DEF PoolAhead
    <2>1. pool'[i] = pool[i + 1] /\ i + 1 \in 1..Len(pool)
      BY <1>5
    <2>2. pool[i + 1].num >= bound + (i + 1)
      BY <1>3, <2>1 DEF PoolAhead, bound
    <2>3. pool[i + 1].num \in Nat /\ i \in Nat
      BY <1>4, <2>1, Fields
    <2>4. bound \in Nat /\ Len(l1') \in Nat /\ Len(l1') <= bound + 1
      BY <1>4, <1>8
    <2> HIDE DEF bound
    <2>5. pool[i + 1].num >= Len(l1') + i
      BY <2>2, <2>3, <2>4
    <2>6. QED
      BY <2>1, <2>5
  <1>15. Placed'
    <2> SUFFICES ASSUME phase' = "up"
                 PROVE  Placed'
      BY DEF Placed
    <2>1. phase = "up"
      BY <1>2
    <2>2. /\ bound <= start.committed + landed
          /\ Len(l1') <= start'.committed + landed'
      BY <1>1, <1>2, <1>3, <1>4, <1>8, <2>1 DEF Placed, bound
    <2>8. \A i \in 1..sent : Number(i) \in Nat
      <3> TAKE i \in 1..sent
      <3>1. i \in Nat
        BY <1>4
      <3>2. QED
        BY <1>3, <3>1, NumberType
    <2>3. ASSUME NEW i \in 1..sent, Number(i) > start.committed,
                 Number(i) <= start.committed + landed + 1
          PROVE  Number(i) <= Len(l1') /\ l1'[Number(i)] = sealed[i]
      <3>1. CASE Number(i) <= start.committed + landed
        <4>1. Number(i) <= bound /\ l1[Number(i)] = sealed[i]
          BY <1>3, <2>1, <2>3, <3>1 DEF Placed, bound
        <4>2. Number(i) \in 1..bound
          BY <1>4, <2>3, <2>8, <4>1
        <4>3. QED
          BY <1>4, <1>8, <4>1, <4>2
      <3>2. CASE Number(i) > start.committed + landed
        <4>1. Number(i) = start.committed + landed + 1
          <5>1. Number(i) \in Nat
            BY <2>8
          <5>2. QED
            BY <1>4, <2>3, <3>2, <5>1, SlotArith, Zenon
        <4>2. pool[1] = sealed[i] /\ Accepted(pool[1])
          BY <1>1, <1>3, <2>1, <4>1, HeadAccepted
        <4>3. Len(l1') = bound + 1 /\ l1'[bound + 1] = tx /\ tx = sealed[i]
          BY <1>4, <1>5, <1>8, <4>2
        <4>4. Number(i) = bound + 1
          <5>1. i \in 1..Len(sealed)
            BY <1>3 DEF Typed
          <5>2. tx.num = Number(i)
            BY <1>3, <4>3, <5>1 DEF Continued
          <5>3. QED
            BY <1>5, <4>2, <5>2 DEF Accepted, bound
        <4>5. QED
          BY <1>4, <4>3, <4>4
      <3>3. QED
        BY <1>4, <2>8, <3>1, <3>2
    <2>4. ASSUME NEW i \in 1..sent, Number(i) > start.committed + landed + 1
          PROVE  LET slot == Number(i) - start.committed - (landed + 1)
                 IN slot <= Len(pool') /\ pool'[slot] = sealed[i]
      <3> DEFINE old == Number(i) - start.committed - landed
                 new == Number(i) - start.committed - (landed + 1)
      <3>0. Number(i) \in Nat
        BY <2>8
      <3>1. old \in Nat /\ new \in Nat /\ old = new + 1 /\ new >= 1
        BY <1>4, <2>4, <3>0, SlotArith, Zenon
      <3>2. Number(i) > start.committed + landed
        BY <1>4, <2>4, <2>8
      <3>3. old <= Len(pool) /\ pool[old] = sealed[i]
        BY <1>3, <2>1, <3>2 DEF Placed
      <3> HIDE DEF old, new
      <3>4. new <= Len(pool') /\ pool'[new] = pool[old]
        BY <1>5, <3>1, <3>3
      <3>5. QED
        BY <3>3, <3>4 DEF new
    <2>5. landed' = landed + 1 /\ start' = start /\ sealed' = sealed /\ sent' = sent
      BY <1>1, <1>2
    <2>6. \A i \in 1..sent :
              /\ Number(i) > start.committed /\ Number(i) <= start.committed + (landed + 1) =>
                    Number(i) <= Len(l1') /\ l1'[Number(i)] = sealed[i]
              /\ Number(i) > start.committed + (landed + 1) =>
                    LET slot == Number(i) - start.committed - (landed + 1)
                    IN slot <= Len(pool') /\ pool'[slot] = sealed[i]
      <3>1. start.committed + (landed + 1) = start.committed + landed + 1
        BY <1>4
      <3>2. QED
        BY <2>3, <2>4, <3>1
    <2>7. QED
      BY <2>2, <2>5, <2>6, Zenon DEF Placed, Number
  <1>16. Covered'
    <2>1. phase' = "counted" => Len(pool') <= inFlight'
      BY <1>2, <1>3, <1>4, <1>5 DEF Covered
    <2>2. ASSUME phase' = "up"
          PROVE  Len(l1') <= submitted
      <3>1. phase = "up" /\ bound <= submitted
        BY <1>2, <1>3, <2>2 DEF Covered, bound
      <3>2. CASE Len(l1') = bound + 1
        BY <1>4, <1>6, <1>8, <3>1, <3>2 DEF Accepted, bound
      <3>3. QED
        BY <1>4, <1>8, <3>1, <3>2
    <2>3. ASSUME phase' = "up", NEW i \in 1..Len(pool')
          PROVE  pool'[i].num <= submitted \/ pool'[i].num > Len(l1') + i
      <3>1. phase = "up" /\ pool'[i] = pool[i + 1] /\ i + 1 \in 1..Len(pool) /\ i \in Nat
        BY <1>2, <1>5, <2>3
      <3>2. pool[i + 1].num <= submitted \/ pool[i + 1].num > bound + (i + 1)
        BY <1>3, <3>1 DEF Covered, bound
      <3>3. pool[i + 1].num \in Nat
        BY <1>4, <3>1, Fields
      <3>4. Len(l1') + i \in Int /\ Len(l1') + i <= bound + (i + 1)
        BY <1>4, <1>8, <3>1
      <3>5. QED
        BY <1>4, <3>1, <3>2, <3>3, <3>4
    <2>4. QED
      BY <1>2, <2>1, <2>2, <2>3, Zenon DEF Covered
  <1>17. Lawful'
    <2>1. ObeysAll(chain, l1')
      <3> SUFFICES ASSUME NEW n \in 1..Len(l1')
                   PROVE  Obeys(chain, l1'[n].first, l1'[n].last)
        BY DEF ObeysAll
      <3>1. CASE n \in 1..bound
        BY <1>3, <1>8, <3>1 DEF Lawful, ObeysAll, bound
      <3>2. CASE n \notin 1..bound
        <4>1. l1'[n] = pool[1] /\ 1 \in 1..Len(pool)
          BY <1>4, <1>5, <1>8, <3>2
        <4>2. QED
          BY <1>3, <4>1 DEF Lawful, ObeysAll
      <3>3. QED
        BY <3>1, <3>2
    <2>2. ObeysAll(chain, pool')
      BY <1>3, <1>5 DEF Lawful, ObeysAll
    <2>3. Frontier' = Frontier /\ Recreates' = Recreates
      BY <1>2, <1>12 DEF Frontier, Recreates, Number
    <2>4. Open'
      BY <1>1, <1>2, <1>3, <2>3 DEF Lawful, Open
    <2>5. QED
      BY <1>1, <1>2, <1>3, <2>1, <2>2, <2>4 DEF Lawful
  <1>18. QED
    BY <1>10, <1>11, <1>13, <1>14, <1>15, <1>16, <1>17 DEF Inv

(***************************************************************************)
(* The batcher.                                                            *)
(***************************************************************************)
\* What no step of the batcher changes.
BatcherFrame ==
    /\ chain' = chain /\ l1' = l1 /\ executed' = executed /\ pool' = pool /\ landed' = landed
    /\ phase' = phase /\ inFlight' = inFlight /\ submitted' = submitted /\ start' = start
    /\ height' = height /\ verified' = verified /\ sent' = sent

\* BatcherUnchanged says as much.
LEMMA FrameOfBatcher ==
    ASSUME BatcherUnchanged
    PROVE  BatcherFrame
  BY DEF BatcherUnchanged, BatcherFrame, l1Vars

\* The batcher takes or skips a block and seals nothing.
LEMMA MoveOn ==
    ASSUME Inv, BatcherFrame, sealed' = sealed, pos' \in Nat \ {0}, armed' \in BOOLEAN, Open'
    PROVE  Inv'
  <1>1. Typed'
    BY DEF Inv, Typed, BatcherFrame
  <1>2. Chained'
    BY Zenon DEF Inv, Chained, L1At, BatcherFrame
  <1>3. Continued'
    BY Zenon DEF Inv, Continued, Number, Base, L1At, BatcherFrame
  <1>4. PoolAhead'
    BY Zenon DEF Inv, PoolAhead, BatcherFrame
  <1>5. Placed'
    BY Zenon DEF Inv, Placed, Number, BatcherFrame
  <1>6. Covered'
    BY Zenon DEF Inv, Covered, BatcherFrame
  <1>7. Lawful'
    BY Zenon DEF Inv, Lawful, ObeysAll, BatcherFrame
  <1>8. QED
    BY <1>1, <1>2, <1>3, <1>4, <1>5, <1>6, <1>7 DEF Inv

\* The batcher seals a batch that obeys the criteria or has the range it has on L1.
LEMMA Sealing ==
    ASSUME Inv, BatcherFrame, NEW last \in Nat, Seal(last), pos' = last + 1,
           Obeys(chain, Frontier, last),
           NextNumber <= start.committed => last = l1[NextNumber].last
    PROVE  Inv'
  <1> DEFINE batch == [num |-> NextNumber, prev |-> PrevFirst, first |-> NextFirst, last |-> last]
             count == Len(sealed)
  <1>1. Typed /\ Chained /\ Continued /\ PoolAhead /\ Placed /\ Covered /\ Lawful
    BY DEF Inv
  <1>2. /\ l1 \in Seq(Tx) /\ sealed \in Seq(Tx) /\ count \in Nat
        /\ verified \in Nat /\ sent \in Nat /\ sent <= verified /\ verified <= count
        /\ start.committed \in Nat /\ start.executed \in Nat
        /\ start.executed <= start.committed /\ start.committed <= Len(l1)
    BY <1>1 DEF Typed
  <1>3. NextNumber = Number(count + 1) /\ NextNumber \in Nat /\ NextNumber >= 1
    BY <1>2 DEF NextNumber, Number
  <1>4. /\ Base(count + 1) \in Tx /\ Frontier \in Nat
        /\ batch.num = Number(count + 1)
        /\ batch.prev = Base(count + 1).first
        /\ batch.first = Frontier /\ Frontier = Base(count + 1).last + 1
        /\ batch.last = last
    BY <1>1, <1>3, Previous DEF Frontier
  <1>5. batch \in Tx
    <2>1. PrevFirst \in Nat /\ NextFirst \in Nat
      <3>1. PrevFirst = Base(count + 1).first /\ NextFirst = Frontier
        BY <1>1, Previous
      <3>2. Base(count + 1).first \in Nat
        BY <1>4 DEF Tx
      <3>3. QED
        BY <1>4, <3>1, <3>2
    <2>2. QED
      BY <1>3, <2>1 DEF Tx
  <1>6. sealed' = Append(sealed, batch) /\ armed' = FALSE
    BY DEF Seal
  <1> HIDE DEF batch
  <1>7. /\ sealed' \in Seq(Tx) /\ Len(sealed') = count + 1
        /\ \A i \in 1..count : sealed'[i] = sealed[i]
        /\ sealed'[count + 1] = batch
    BY <1>2, <1>5, <1>6, AppendFacts
  <1> HIDE DEF count
  <1>8. \A i \in 1..(count + 1) : Base(i)' = Base(i)
    <2> TAKE i \in 1..(count + 1)
    <2>1. start' = start /\ l1' = l1
      BY DEF BatcherFrame
    <2>2. CASE i = 1
      BY <2>1, <2>2 DEF Base, L1At
    <2>3. CASE i # 1
      <3>1. i - 1 \in 1..count
        BY <1>2, <2>3
      <3>2. sealed'[i - 1] = sealed[i - 1]
        BY <1>7, <3>1
      <3>3. QED
        BY <2>3, <3>2 DEF Base
    <2>4. QED
      BY <2>2, <2>3
  <1>9. Typed'
    <2>1. pos' \in Nat \ {0} /\ verified' <= Len(sealed')
      BY <1>2, <1>7 DEF BatcherFrame
    <2>2. QED
      BY <1>1, <1>6, <1>7, <2>1, Zenon DEF Typed, BatcherFrame
  <1>10. Chained'
    BY <1>1, Zenon DEF Chained, L1At, BatcherFrame
  <1>11. Continued'
    <2> SUFFICES ASSUME NEW i \in 1..(count + 1)
                 PROVE  /\ sealed'[i].num = Number(i)
                        /\ sealed'[i].prev = Base(i).first
                        /\ sealed'[i].first = Base(i).last + 1
                        /\ Number(i) <= start.committed => sealed'[i] = l1[Number(i)]
      BY <1>7, <1>8 DEF Continued, Number, BatcherFrame
    <2>1. CASE i \in 1..count
      BY <1>1, <1>7, <2>1 DEF Continued, count
    <2>2. CASE i = count + 1
      <3>1. sealed'[i] = batch
        BY <1>7, <2>2
      <3>2. ASSUME Number(i) <= start.committed
            PROVE  batch = l1[Number(i)]
        <4> DEFINE n == NextNumber
        <4>1. n = Number(i) /\ n \in 1..Len(l1) /\ n - 1 = Number(count)
          <5>1. n = Number(i) /\ n \in Nat /\ n >= 1
            BY <1>3, <2>2
          <5>2. n \in 1..Len(l1)
            BY <1>2, <3>2, <5>1
          <5>3. Number(count + 1) - 1 = Number(count)
            BY <1>2 DEF Number
          <5>4. QED
            BY <1>3, <5>1, <5>2, <5>3
        <4>2. Base(count + 1) = L1At(n - 1)
          <5>1. CASE count = 0
            BY <1>2, <4>1, <5>1 DEF Base, Number
          <5>2. CASE count # 0
            <6>1. /\ count \in 1..Len(sealed) /\ Number(count) <= start.committed
                  /\ Number(count) # 0
              BY <1>2, <2>2, <3>2, <5>2 DEF Number, count
            <6>2. sealed[count] = l1[Number(count)]
              BY <1>1, <6>1 DEF Continued
            <6>3. QED
              BY <1>2, <4>1, <5>2, <6>1, <6>2 DEF Base, L1At
          <5>3. QED
            BY <5>1, <5>2
        <4>3. l1[n].num = n /\ l1[n].prev = L1At(n - 1).first /\ l1[n].first = L1At(n - 1).last + 1
          BY <1>1, <4>1 DEF Chained
        <4>4. l1[n].last = last
          BY <1>3, <2>2, <3>2
        <4>5. l1[n] \in Tx
          BY <1>2, <4>1
        <4> HIDE DEF n
        <4>6. /\ l1[n].num = batch.num /\ l1[n].prev = batch.prev
              /\ l1[n].first = batch.first /\ l1[n].last = batch.last
          BY <1>4, <2>2, <4>1, <4>2, <4>3, <4>4 DEF batch
        <4>7. l1[n] = batch
          BY <1>5, <4>5, <4>6 DEF Tx
        <4>8. QED
          BY <4>1, <4>7
      <3>3. QED
        BY <1>4, <2>2, <3>1, <3>2 DEF batch
    <2>3. QED
      BY <1>2, <2>1, <2>2
  <1>12. PoolAhead'
    BY <1>1, Zenon DEF PoolAhead, BatcherFrame
  <1>13. Placed'
    <2>1. \A i \in 1..sent : sealed'[i] = sealed[i]
      BY <1>2, <1>7
    <2>2. QED
      BY <1>1, <2>1, Zenon DEF Placed, Number, BatcherFrame
  <1>14. Covered'
    BY <1>1, Zenon DEF Covered, BatcherFrame
  <1>15. Lawful'
    <2>1. ObeysAll(chain, sealed')
      <3> SUFFICES ASSUME NEW i \in 1..(count + 1)
                   PROVE  Obeys(chain, sealed'[i].first, sealed'[i].last)
        BY <1>7 DEF ObeysAll
      <3>1. CASE i \in 1..count
        BY <1>1, <1>7, <3>1 DEF Lawful, ObeysAll, count
      <3>2. CASE i = count + 1
        <4>1. sealed'[i] = batch /\ batch.first = Frontier /\ batch.last = last
          BY <1>4, <1>7, <3>2 DEF batch
        <4>2. QED
          BY <4>1
      <3>3. QED
        BY <1>2, <3>1, <3>2
    <2>2. Frontier' = pos'
      <3>1. Base(Len(sealed) + 1)' = batch
        <4>1. (count + 1) + 1 # 1 /\ ((count + 1) + 1) - 1 = count + 1
          BY <1>2
        <4>2. QED
          BY <1>7, <4>1 DEF Base
      <3>2. QED
        BY <1>4, <3>1 DEF Frontier, batch
    <2>3. Open'
      <3>1. ~(pos' > Frontier') /\ pos' <= Frontier'
        BY <1>2, <2>2
      <3>2. QED
        BY <1>6, <3>1, Zenon DEF Open
    <2>4. QED
      BY <1>1, <2>1, <2>3, Zenon DEF Lawful, ObeysAll, BatcherFrame
  <1>16. QED
    BY <1>9, <1>10, <1>11, <1>12, <1>13, <1>14, <1>15 DEF Inv

\* A batch that need not be sealed obeys the criteria, and so does a single block.
LEMMA FitsObeys ==
    ASSUME NEW first \in Nat, NEW last \in Nat, ~ShouldSeal(first, last), last >= first
    PROVE  Obeys(chain, first, last)
  <1>1. /\ ~(last > first /\ HasUpgrade(first, last)) /\ ~MixesVersions(first, last)
        /\ ~Overweight(first, last) /\ ~MigratesLate(first, last)
    BY Zenon DEF ShouldSeal
  <1>2. ~(Weight(chain, first, last) > WeightLimit)
    BY <1>1, Zenon DEF Overweight
  <1>3. \A a, b \in first..last : chain[a].version = chain[b].version
    BY <1>1, Zenon DEF MixesVersions
  <1>4. \A b \in (first + 1)..last : ~chain[b].chainId
    BY <1>1, Zenon DEF MigratesLate
  <1>5. (\E b \in first..last : chain[b].upgrade) => first = last
    <2>1. HasUpgrade(first, last) => ~(last > first)
      BY <1>1
    <2>2. ~(last > first) => first = last
      OBVIOUS
    <2>3. QED
      BY <2>1, <2>2, Zenon DEF HasUpgrade
  <1>6. QED
    BY <1>2, <1>3, <1>4, <1>5, Zenon DEF Obeys

LEMMA SingleObeys ==
    ASSUME NEW block \in Nat
    PROVE  Obeys(chain, block, block)
  <1>1. (\A b \in block..block : b = block) /\ (block + 1)..block = {}
    OBVIOUS
  <1>2. QED
    BY <1>1, Zenon DEF Obeys

\* Every step of the batcher is one of the two: skip and add move on, the others seal.
LEMMA BatcherStep ==
    ASSUME Inv, Skip \/ Recreate \/ AddBlock \/ SealByLimit \/ SealByTimeout
    PROVE  Inv'
  <1>1. Typed /\ Chained /\ Continued /\ Lawful /\ Open
    BY DEF Inv, Lawful
  <1>2. /\ pos \in Nat \ {0} /\ armed \in BOOLEAN /\ l1 \in Seq(Tx) /\ sealed \in Seq(Tx) /\ Len(sealed) \in Nat
        /\ Len(l1) \in Nat
        /\ start.committed \in Nat /\ start.executed \in Nat
        /\ start.executed <= start.committed /\ start.committed <= Len(l1)
    BY <1>1 DEF Typed
  <1>3. NextFirst = Frontier /\ Frontier \in Nat
    BY <1>1, Previous
  <1>4. NextNumber \in Nat /\ NextNumber >= 1 /\ (Recreates <=> NextNumber <= start.committed)
    BY <1>2 DEF NextNumber, Recreates, Number
  <1>5. BatcherFrame
    BY FrameOfBatcher DEF Skip, Recreate, AddBlock, SealByLimit, SealByTimeout
  <1>6. sealed' = sealed => Frontier' = Frontier /\ (Recreates' <=> Recreates)
    BY <1>5, Zenon DEF Frontier, Base, L1At, Recreates, Number, BatcherFrame
  <1>7. CASE Skip
    <2>1. pos' = pos + 1 /\ armed' = armed /\ sealed' = sealed /\ pos < NextFirst
      BY <1>7 DEF Skip
    <2>2. Open'
      <3>1. pos' <= Frontier /\ ~(pos' > Frontier) /\ ~(pos > Frontier)
        BY <1>2, <1>3, <2>1
      <3>2. armed = FALSE
        BY <1>1, <1>2, <3>1 DEF Open
      <3>3. QED
        BY <1>6, <2>1, <3>1, <3>2, Zenon DEF Open
    <2>3. pos' \in Nat \ {0} /\ armed' \in BOOLEAN
      BY <1>2, <2>1
    <2>4. QED
      BY <1>5, <2>1, <2>2, <2>3, MoveOn
  <1>8. CASE Recreate
    <2> DEFINE batch == l1[NextNumber]
    <2>1. Recreates /\ batch.first = pos /\ Seal(batch.last) /\ pos' = batch.last + 1 /\ pos >= NextFirst
      BY <1>8 DEF Recreate, BatcherReady
    <2>2. NextNumber \in 1..Len(l1)
      BY <1>2, <1>4, <2>1
    <2>3. batch.last \in Nat
      BY <1>2, <2>2, Fields
    <2>4. pos = Frontier
      BY <1>1, <1>2, <1>3, <2>1 DEF Open
    <2>5. Obeys(chain, batch.first, batch.last)
      BY <1>1, <2>2 DEF Lawful, ObeysAll
    <2>6. QED
      BY <1>5, <2>1, <2>3, <2>4, <2>5, Sealing
  <1>9. CASE AddBlock
    <2>1. /\ ~Recreates /\ pos >= NextFirst /\ pos' = pos + 1
          /\ pos = NextFirst \/ ~ShouldSeal(NextFirst, pos)
      BY <1>9 DEF AddBlock, BatcherReady
    <2>2. CASE ShouldSeal(NextFirst, pos)
      <3>1. Seal(pos) /\ pos = Frontier
        BY <1>3, <1>9, <2>1, <2>2 DEF AddBlock
      <3>2. Obeys(chain, Frontier, pos) /\ pos \in Nat
        BY <1>2, <3>1, SingleObeys
      <3>3. ~(NextNumber <= start.committed)
        BY <1>4, <2>1
      <3>4. QED
        BY <1>5, <2>1, <3>1, <3>2, <3>3, Sealing
    <2>3. CASE ~ShouldSeal(NextFirst, pos)
      <3>1. armed' = (armed \/ Arms(pos)) /\ sealed' = sealed
        BY <1>9, <2>3 DEF AddBlock
      <3>2. Obeys(chain, Frontier, pos)
        BY <1>2, <1>3, <2>1, <2>3, FitsObeys
      <3>3. pos' > Frontier /\ pos' - 1 = pos /\ pos' \in Nat \ {0}
        BY <1>2, <1>3, <2>1
      <3>4. Open'
        BY <1>5, <1>6, <2>1, <3>1, <3>2, <3>3, Zenon DEF Open, BatcherFrame
      <3>5. armed' \in BOOLEAN
        BY <1>2, <3>1 DEF Arms
      <3>6. QED
        BY <1>5, <3>1, <3>3, <3>4, <3>5, MoveOn
    <2>4. QED
      BY <2>2, <2>3
  <1>10. CASE SealByLimit \/ SealByTimeout
    <2>1. Seal(pos - 1) /\ pos' = pos
      BY <1>10 DEF SealByLimit, SealByTimeout
    <2>2. ~Recreates /\ pos > Frontier
      BY <1>1, <1>3, <1>10 DEF SealByLimit, SealByTimeout, Open
    <2>3. Obeys(chain, Frontier, pos - 1)
      BY <1>1, <2>2 DEF Open
    <2>4. pos - 1 \in Nat /\ pos' = (pos - 1) + 1 /\ ~(NextNumber <= start.committed)
      BY <1>2, <1>4, <2>1, <2>2
    <2>5. QED
      BY <1>5, <2>1, <2>3, <2>4, Sealing
  <1>11. QED
    BY <1>7, <1>8, <1>9, <1>10

(***************************************************************************)
(* The commit sender.                                                      *)
(***************************************************************************)
\* The sender pairs the command with the transaction at its nonce, replaces that one or sends a new one.
LEMMA SubmitStep ==
    ASSUME Inv, Submit
    PROVE  Inv'
  <1> DEFINE batch == sealed[sent + 1]
             used == batch.num <= start.committed + landed
             base == start.committed + landed
  <1>1. Typed /\ Chained /\ Continued /\ PoolAhead /\ Placed /\ Covered /\ Lawful
    BY DEF Inv
  <1>2. /\ phase = "up" /\ sent < verified
        /\ chain' = chain /\ height' = height /\ l1' = l1 /\ executed' = executed /\ landed' = landed
        /\ pool' = IF used THEN pool ELSE Place(batch)
    BY DEF Submit
  <1>3. /\ l1 \in Seq(Tx) /\ pool \in Seq(Tx) /\ sealed \in Seq(Tx)
        /\ Len(l1) \in Nat /\ Len(pool) \in Nat /\ Len(sealed) \in Nat
        /\ landed \in Nat /\ submitted \in Nat /\ base \in Nat
        /\ verified \in Nat /\ sent \in Nat /\ verified <= Len(sealed) /\ sent + 1 \in 1..Len(sealed)
        /\ start.committed \in Nat /\ start.executed \in Nat
        /\ start.executed <= start.committed /\ start.committed <= Len(l1)
    BY <1>1, <1>2 DEF Typed
  <1>4. /\ batch \in Tx /\ batch.num = Number(sent + 1) /\ batch.num \in Nat
        /\ batch.num = start.executed + (sent + 1)
    <2>1. batch \in Tx /\ batch.num \in Nat
      BY <1>3, Fields
    <2>2. batch.num = Number(sent + 1)
      BY <1>1, <1>3 DEF Continued
    <2>3. QED
      BY <2>1, <2>2 DEF Number
  <1>5. CASE ~(used => OnL1(batch))
    <2>1. Exit /\ pool' = pool
      BY <1>2, <1>5, Zenon DEF Submit
    <2>2. QED
      BY <1>1, <1>2, <1>3, <2>1, Quiet DEF Exit, Typed
  <1>6. CASE used => OnL1(batch)
    <2>1. /\ sent' = sent + 1 /\ submitted' = NoteSubmitted(batch.num)
          /\ phase' = phase /\ inFlight' = inFlight /\ start' = start /\ pos' = pos
          /\ armed' = armed /\ sealed' = sealed /\ verified' = verified
      BY <1>6 DEF Submit
    <2>2. submitted' \in Nat /\ submitted' >= submitted /\ submitted' >= batch.num
      BY <1>3, <1>4, <2>1 DEF NoteSubmitted
    <2> DEFINE slot == batch.num - start.committed - landed
    <2>3. ASSUME ~used
          PROVE  slot \in 1..(Len(pool) + 1) /\ batch.num = base + slot
      <3>1. batch.num > start.committed + landed
        BY <1>3, <1>4, <2>3
      <3>2. /\ slot \in Nat /\ slot >= 1 /\ batch.num = base + slot
            /\ slot # 1 => /\ sent >= 1 /\ start.executed + sent > base
                           /\ (start.executed + sent) - start.committed - landed = slot - 1
        <4>1. /\ batch.num \in Nat /\ start.committed \in Nat /\ landed \in Nat
              /\ start.executed \in Nat /\ sent \in Nat
              /\ batch.num = start.executed + (sent + 1) /\ start.executed <= start.committed
          BY <1>3, <1>4
        <4> HIDE DEF batch
        <4>2. QED
          BY <3>1, <4>1, NextSlot
      <3> HIDE DEF slot, base, batch
      <3>3. CASE slot # 1
        <4>1. sent \in 1..sent
          BY <1>3, <3>2, <3>3
        <4>2. Number(sent) > base /\ Number(sent) - start.committed - landed = slot - 1
          BY <3>2, <3>3 DEF Number
        <4>3. slot - 1 <= Len(pool)
          BY <1>1, <1>2, <4>1, <4>2 DEF Placed, base
        <4>4. QED
          BY <1>3, <3>2, <4>3
      <3>4. QED
        BY <1>3, <3>2, <3>3
    <2>4. /\ pool' \in Seq(Tx) /\ Len(pool') \in Nat /\ Len(pool') >= Len(pool)
          /\ used => pool' = pool
          /\ ~used => slot <= Len(pool') /\ pool'[slot] = batch
          /\ \A j \in 1..Len(pool') : \/ pool'[j] = batch /\ j = slot /\ ~used
                                      \/ j \in 1..Len(pool) /\ pool'[j] = pool[j]
          /\ \A j \in 1..Len(pool) : j # slot => pool'[j] = pool[j]
      <3>1. CASE used
        <4>1. pool' = pool
          BY <1>2, <3>1
        <4>2. QED
          BY <1>3, <3>1, <4>1
      <3>2. CASE ~used
        <4>1. slot \in 1..(Len(pool) + 1)
          BY <2>3, <3>2
        <4>2. pool' = IF slot <= Len(pool) THEN [pool EXCEPT ![slot] = batch] ELSE Append(pool, batch)
          BY <1>2, <3>2 DEF Place, Nonce
        <4> HIDE DEF slot, batch, used
        <4>3. CASE slot <= Len(pool)
          <5>1. slot \in 1..Len(pool) /\ pool' = [pool EXCEPT ![slot] = batch]
            BY <1>3, <4>1, <4>2, <4>3
          <5>2. pool' \in Seq(Tx) /\ Len(pool') = Len(pool)
            BY <1>3, <1>4, <5>1
          <5>3. \A j \in 1..Len(pool) : pool'[j] = IF j = slot THEN batch ELSE pool[j]
            BY <1>3, <5>1
          <5>4. pool'[slot] = batch
            BY <5>1, <5>3
          <5>5. \A j \in 1..Len(pool) : (pool'[j] = batch /\ j = slot) \/ pool'[j] = pool[j]
            BY <5>3
          <5>6. QED
            BY <1>3, <3>2, <4>3, <5>2, <5>3, <5>4, <5>5
        <4>4. CASE ~(slot <= Len(pool))
          <5>1. slot = Len(pool) + 1 /\ pool' = Append(pool, batch)
            BY <1>3, <4>1, <4>2, <4>4
          <5>2. /\ pool' \in Seq(Tx) /\ Len(pool') = Len(pool) + 1
                /\ \A j \in 1..Len(pool) : pool'[j] = pool[j]
                /\ pool'[Len(pool) + 1] = batch
            BY <1>3, <1>4, <5>1, AppendFacts
          <5>3. \A j \in 1..Len(pool') : j = slot \/ j \in 1..Len(pool)
            BY <1>3, <5>1, <5>2
          <5>4. QED
            BY <1>3, <3>2, <5>1, <5>2, <5>3
        <4>5. QED
          BY <4>3, <4>4
      <3>3. QED
        BY <3>1, <3>2
    <2> HIDE DEF slot, batch, used, base
    <2>5. Typed'
      <3>1. sent' \in Nat /\ sent' <= verified'
        BY <1>2, <1>3, <2>1
      <3>2. QED
        BY <1>1, <1>2, <2>1, <2>2, <2>4, <3>1 DEF Typed
    <2>6. Chained'
      BY <1>1, <1>2, Zenon DEF Chained, L1At
    <2>7. Continued'
      BY <1>1, <1>2, <2>1, Zenon DEF Continued, Number, Base, L1At
    <2>8. PoolAhead'
      <3> SUFFICES ASSUME NEW j \in 1..Len(pool')
                   PROVE  pool'[j].num >= Len(l1) + j
        BY <1>2 DEF PoolAhead
      <3>1. CASE pool'[j] = batch /\ j = slot /\ ~used
        <4>1. batch.num = base + j
          BY <2>3, <3>1
        <4>2. Len(l1) <= base
          BY <1>1, <1>2 DEF Placed, base
        <4>3. QED
          BY <1>3, <2>4, <3>1, <4>1, <4>2
      <3>2. CASE j \in 1..Len(pool) /\ pool'[j] = pool[j]
        BY <1>1, <3>2 DEF PoolAhead
      <3>3. QED
        BY <2>4, <3>1, <3>2
    <2>9. Placed'
      <3>1. Len(l1) <= base
        BY <1>1, <1>2 DEF Placed, base
      <3>2. ASSUME NEW i \in 1..(sent + 1), Number(i) > start.committed, Number(i) <= base
            PROVE  Number(i) <= Len(l1) /\ l1[Number(i)] = sealed[i]
        <4>1. CASE i \in 1..sent
          BY <1>1, <1>2, <3>2, <4>1 DEF Placed, base
        <4>2. CASE i = sent + 1
          <5>1. used
            BY <1>4, <3>2, <4>2 DEF used, base
          <5>2. QED
            BY <1>4, <1>6, <4>2, <5>1 DEF OnL1, batch
        <4>3. QED
          BY <1>3, <4>1, <4>2
      <3>3. ASSUME NEW i \in 1..(sent + 1), Number(i) > base
            PROVE  /\ Number(i) - start.committed - landed <= Len(pool')
                   /\ pool'[Number(i) - start.committed - landed] = sealed[i]
        <4>1. CASE i \in 1..sent
          <5> DEFINE k == Number(i) - start.committed - landed
          <5>1. k <= Len(pool) /\ pool[k] = sealed[i]
            BY <1>1, <1>2, <3>3, <4>1 DEF Placed, base
          <5>2. Number(i) \in Nat /\ Number(i) = start.executed + i /\ i \in Nat /\ i <= sent
            <6>1. i \in Nat /\ i <= sent
              BY <1>3, <4>1
            <6>2. QED
              BY <1>1, <6>1, NumberType
          <5>3. k \in Nat /\ k >= 1 /\ k # slot
            <6>1. Number(i) < batch.num
              BY <1>3, <1>4, <5>2
            <6>2. QED
              <7>1. /\ batch.num \in Nat /\ start.committed \in Nat /\ landed \in Nat /\ Number(i) \in Nat
                    /\ Number(i) > start.committed + landed
                BY <1>3, <1>4, <3>3, <5>2 DEF base
              <7>2. QED
                BY <6>1, <7>1, OtherSlot DEF slot
          <5> HIDE DEF k
          <5>4. pool'[k] = pool[k] /\ k <= Len(pool')
            BY <1>3, <2>4, <5>1, <5>3
          <5>5. QED
            BY <5>1, <5>4 DEF k
        <4>2. CASE i = sent + 1
          <5>1. ~used
            BY <1>3, <1>4, <3>3, <4>2 DEF used, base
          <5>2. Number(i) - start.committed - landed = slot
            BY <1>4, <4>2 DEF slot
          <5>3. QED
            BY <2>4, <4>2, <5>1, <5>2 DEF batch
        <4>3. QED
          BY <1>3, <4>1, <4>2
      <3>4. \A i \in 1..(sent + 1) :
              /\ Number(i) > start.committed /\ Number(i) <= base =>
                    Number(i) <= Len(l1) /\ l1[Number(i)] = sealed[i]
              /\ Number(i) > base =>
                    LET k == Number(i) - start.committed - landed
                    IN k <= Len(pool') /\ pool'[k] = sealed[i]
        BY <3>2, <3>3
      <3>5. QED
        BY <1>2, <2>1, <3>1, <3>4, Zenon DEF Placed, Number, base
    <2>10. Covered'
      <3>1. Len(l1) <= submitted'
        BY <1>1, <1>2, <1>3, <2>2 DEF Covered
      <3>2. ASSUME NEW j \in 1..Len(pool')
            PROVE  pool'[j].num <= submitted' \/ pool'[j].num > Len(l1) + j
        <4>1. CASE pool'[j] = batch
          BY <2>2, <4>1
        <4>2. CASE j \in 1..Len(pool) /\ pool'[j] = pool[j]
          <5>1. pool[j].num <= submitted \/ pool[j].num > Len(l1) + j
            BY <1>1, <1>2, <4>2 DEF Covered
          <5>2. pool[j].num \in Nat
            BY <1>3, <4>2, Fields
          <5>3. QED
            BY <1>3, <2>2, <4>2, <5>1, <5>2
        <4>3. QED
          BY <2>4, <4>1, <4>2
      <3>3. QED
        BY <1>2, <2>1, <3>1, <3>2 DEF Covered
    <2>11. Lawful'
      <3>1. ObeysAll(chain, pool')
        <4> SUFFICES ASSUME NEW j \in 1..Len(pool')
                     PROVE  Obeys(chain, pool'[j].first, pool'[j].last)
          BY DEF ObeysAll
        <4>1. CASE pool'[j] = batch
          BY <1>1, <1>3, <4>1 DEF Lawful, ObeysAll, batch
        <4>2. CASE j \in 1..Len(pool) /\ pool'[j] = pool[j]
          BY <1>1, <4>2 DEF Lawful, ObeysAll
        <4>3. QED
          BY <2>4, <4>1, <4>2
      <3>2. Open'
        BY <1>1, <1>2, <2>1, Zenon DEF Lawful, Open, Recreates, Number, Frontier, Base, L1At
      <3>3. QED
        BY <1>1, <1>2, <2>1, <3>1, <3>2 DEF Lawful
    <2>12. QED
      BY <2>5, <2>6, <2>7, <2>8, <2>9, <2>10, <2>11 DEF Inv
  <1>7. QED
    BY <1>5, <1>6


(***************************************************************************)
(* Startup.                                                                *)
(***************************************************************************)
\* in_flight_commit_tx_count: from now on the mempool holds no more than was counted.
LEMMA CountInFlightStep ==
    ASSUME Inv, CountInFlight
    PROVE  Inv'
  <1>1. /\ phase' = "counted" /\ inFlight' = Len(pool)
        /\ chain' = chain /\ height' = height /\ l1' = l1 /\ executed' = executed /\ pool' = pool
        /\ landed' = landed /\ start' = start /\ pos' = pos /\ armed' = armed /\ sealed' = sealed
        /\ verified' = verified /\ sent' = sent /\ submitted' = submitted
    BY DEF CountInFlight, l1Vars
  <1>2. Len(pool) \in Nat
    BY DEF Inv, Typed
  <1>3. Typed'
    BY <1>1, <1>2 DEF Inv, Typed
  <1>4. Chained' /\ Continued' /\ PoolAhead'
    BY <1>1, Zenon DEF Inv, Chained, Continued, PoolAhead, Number, Base, L1At
  <1>5. Placed'
    BY <1>1 DEF Placed
  <1>6. Covered'
    BY <1>1, <1>2 DEF Covered
  <1>7. Lawful'
    BY <1>1, Zenon DEF Inv, Lawful, Open, Recreates, Number, Frontier, Base, L1At
  <1>8. QED
    BY <1>3, <1>4, <1>5, <1>6, <1>7 DEF Inv

\* Startup reads L1 after it has counted: the guard starts at the sum of both.
LEMMA StartNodeStep ==
    ASSUME Inv, StartNode
    PROVE  Inv'
  <1>1. /\ phase = "counted" /\ phase' = "up" /\ inFlight' = inFlight /\ submitted' = Len(l1) + inFlight
        /\ start' = [committed |-> Len(l1), executed |-> executed, persisted |-> height]
        /\ chain' = chain /\ height' = height /\ l1' = l1 /\ executed' = executed /\ pool' = pool
        /\ landed' = 0 /\ armed' = FALSE /\ sealed' = <<>> /\ verified' = 0 /\ sent' = 0
        /\ pos' \in 1..(CommittedBlock(executed) + 1)
    BY DEF StartNode, GuardInit
  <1>2. Typed /\ Chained /\ PoolAhead /\ Covered /\ Lawful
    BY DEF Inv
  <1>3. /\ l1 \in Seq(Tx) /\ pool \in Seq(Tx) /\ Len(l1) \in Nat /\ Len(pool) \in Nat /\ inFlight \in Nat
        /\ executed \in Nat /\ executed <= Len(l1) /\ height \in Nat
    BY <1>2 DEF Typed
  <1>4. start'.committed = Len(l1) /\ start'.executed = executed
    BY <1>1
  <1>5. L1At(executed) \in Tx
    BY <1>2, <1>3, L1AtType
  <1>6. CommittedBlock(executed) = L1At(executed).last /\ L1At(executed).last \in Nat
    <2>1. L1At(executed).last \in Nat
      BY <1>5 DEF Tx
    <2>2. CommittedBlock(executed) = IF executed = 0 THEN 0 ELSE l1[executed].last
      BY <1>3, SubSeqEnd DEF CommittedBlock
    <2>3. QED
      BY <2>1, <2>2 DEF L1At, Genesis
  <1>7. Len(sealed') = 0 /\ sealed' \in Seq(Tx)
    BY <1>1
  <1>8. Typed'
    <2>1. start' \in [committed: Nat, executed: Nat, persisted: Nat]
      BY <1>1, <1>3
    <2>2. pos' \in Nat \ {0} /\ submitted' \in Nat
      BY <1>1, <1>3, <1>6
    <2>3. start'.executed <= start'.committed /\ start'.committed <= Len(l1')
      BY <1>1, <1>3, <1>4
    <2>4. verified' \in Nat /\ verified' <= Len(sealed') /\ sent' \in Nat /\ sent' <= verified'
      BY <1>1, <1>7
    <2>5. QED
      BY <1>1, <1>3, <1>7, <2>1, <2>2, <2>3, <2>4, Zenon DEF Typed
  <1>9. Chained' /\ PoolAhead'
    BY <1>1, <1>2, Zenon DEF Chained, PoolAhead, L1At
  <1>10. Continued'
    BY <1>7 DEF Continued
  <1>11. Placed'
    BY <1>1, <1>3, <1>4 DEF Placed
  <1>12. Covered'
    <2>1. Len(pool) <= inFlight
      BY <1>1, <1>2 DEF Covered
    <2>2. ASSUME NEW i \in 1..Len(pool)
          PROVE  pool[i].num <= submitted' \/ pool[i].num > Len(l1) + i
      <3>1. pool[i].num \in Nat
        BY <1>3, Fields
      <3>2. i \in Nat /\ i <= inFlight
        BY <1>3, <2>1
      <3>3. QED
        BY <1>1, <1>3, <3>1, <3>2
    <2>3. Len(l1) <= submitted'
      BY <1>1, <1>3
    <2>4. QED
      BY <1>1, <2>2, <2>3 DEF Covered
  <1>13. Lawful'
    <2>1. ObeysAll(chain', sealed')
      BY <1>7 DEF ObeysAll
    <2>2. Frontier' = L1At(executed).last + 1
      BY <1>1, <1>4, <1>7 DEF Frontier, Base, L1At
    <2>3. pos' <= Frontier' /\ ~(pos' > Frontier')
      BY <1>1, <1>6, <2>2
    <2>4. Open'
      BY <1>1, <2>3 DEF Open
    <2>5. QED
      BY <1>1, <1>2, <2>1, <2>4 DEF Lawful
  <1>14. QED
    BY <1>8, <1>9, <1>10, <1>11, <1>12, <1>13 DEF Inv

(***************************************************************************)
(* Batch verification.                                                     *)
(***************************************************************************)
\* The verification step counts a batch as verified only if it is there.
LEMMA VerificationStep ==
    ASSUME Inv, Asked, PassCommitted \/ Ask \/ (\E v \in Verifiers : Answer(v)) \/ Retry
    PROVE  Inv' /\ Asked'
  <1>1. /\ chain' = chain /\ height' = height /\ l1' = l1 /\ executed' = executed /\ pool' = pool
        /\ landed' = landed /\ inFlight' = inFlight /\ submitted' = submitted /\ start' = start
        /\ pos' = pos /\ armed' = armed /\ sealed' = sealed /\ sent' = sent /\ phase' = phase
    BY Zenon DEF PassCommitted, Ask, Answer, Retry, VerificationUnchanged, l1Vars
  <1>2. /\ verified \in Nat /\ verified <= Len(sealed) /\ sent <= verified /\ sent \in Nat
        /\ Len(sealed) \in Nat /\ executed \in Nat /\ executed <= Len(l1) /\ height \in Nat
    BY DEF Inv, Typed
  <1>3. /\ \/ verified' = verified
           \/ verified' = verified + 1 /\ verified < Len(sealed)
        /\ Asked'
    <2>1. CASE PassCommitted
      <3>1. /\ verified < Len(sealed) /\ verified' = verified + 1 /\ request' = request
            /\ sealed[verified + 1].num <= start.committed
        BY <2>1 DEF PassCommitted, ToVerify, Current, SignsFrom
      <3>2. verified + 1 \in 1..Len(sealed)
        BY <1>2, <3>1
      <3>3. sealed[verified + 1].num = Number(verified + 1)
        BY <3>2 DEF Inv, Continued
      <3>4. Number(verified + 1) \in Nat /\ start.committed \in Nat
        <4>1. Typed /\ verified + 1 \in Nat
          BY <1>2 DEF Inv
        <4>2. QED
          BY <4>1, NumberType, Zenon DEF Typed
      <3>5. ~request.open
        BY <3>1, <3>3, <3>4 DEF Asked
      <3>6. QED
        BY <3>1, <3>5 DEF Asked
    <2>2. CASE Ask
      <3>1. /\ verified < Len(sealed) /\ verified' = verified
            /\ sealed[verified + 1].num > start.committed
            /\ \E asked \in SUBSET Verifiers : request' = [open |-> TRUE, asked |-> asked, signed |-> {}]
        BY <2>2, Zenon DEF Ask, ToVerify, Current, SignsFrom
      <3>2. verified + 1 \in 1..Len(sealed)
        BY <1>2, <3>1
      <3>3. sealed[verified + 1].num = Number(verified + 1)
        BY <3>2 DEF Inv, Continued
      <3>4. request' \in [open: BOOLEAN, asked: SUBSET Verifiers, signed: SUBSET Verifiers]
        BY <3>1
      <3>5. verified' < Len(sealed') /\ (Number(verified + 1) > start.committed)'
        BY <1>1, <3>1, <3>3, Zenon DEF Number
      <3>6. QED
        BY <3>1, <3>4, <3>5, Zenon DEF Asked
    <2>3. CASE \E v \in Verifiers : Answer(v)
      <3>1. PICK v \in Verifiers : Answer(v)
        BY <2>3
      <3> DEFINE signed == IF \A b \in Current.first..Current.last : b \in vlow[v]..vpos[v]
                           THEN request.signed \cup {v} ELSE request.signed
      <3>2. /\ request.open
            /\ \/ verified' = verified + 1 /\ request' = NoRequest
               \/ verified' = verified /\ request' = [request EXCEPT !.asked = @ \ {v}, !.signed = signed]
        BY <3>1, Zenon DEF Answer
      <3>3. verified < Len(sealed) /\ signed \in SUBSET Verifiers
        BY <3>2 DEF Asked
      <3> HIDE DEF signed
      <3>4. CASE verified' = verified + 1 /\ request' = NoRequest
        BY <3>3, <3>4 DEF Asked, NoRequest
      <3>5. CASE verified' = verified /\ request' = [request EXCEPT !.asked = @ \ {v}, !.signed = signed]
        <4>1. /\ request' \in [open: BOOLEAN, asked: SUBSET Verifiers, signed: SUBSET Verifiers]
              /\ request'.open = request.open
          BY <3>3, <3>5, Zenon DEF Asked
        <4>2. QED
          BY <1>1, <3>5, <4>1, Zenon DEF Asked, Number
      <3>6. QED
        BY <3>2, <3>4, <3>5
    <2>4. CASE Retry
      BY <2>4 DEF Retry, NoRequest, Asked
    <2>5. QED
      BY <2>1, <2>2, <2>3, <2>4
  <1>4. verified' \in Nat /\ sent <= verified' /\ verified' <= Len(sealed)
    BY <1>2, <1>3
  <1>5. Inv'
    BY <1>1, <1>2, <1>4, Quiet
  <1>6. QED
    BY <1>3, <1>5

\* New batches do not disturb the open request.
LEMMA AskedKept ==
    ASSUME Inv, Asked, request' = request, verified' = verified, start' = start,
           Len(sealed') \in Nat, Len(sealed') >= Len(sealed)
    PROVE  Asked'
  <1>1. verified \in Nat /\ Len(sealed) \in Nat
    BY DEF Inv, Typed
  <1>2. verified < Len(sealed) => verified < Len(sealed')
    BY <1>1
  <1>3. QED
    BY <1>2, Zenon DEF Asked, Number

(***************************************************************************)
(* The induction.                                                          *)
(***************************************************************************)
\* The initial state: nothing on L1, no session.
LEMMA InitInv ==
    ASSUME Init
    PROVE  Inv /\ Asked
  <1>1. /\ l1 = <<>> /\ executed = 0 /\ pool = <<>> /\ landed = 0 /\ phase = "down" /\ inFlight = 0
        /\ start = [committed |-> 0, executed |-> 0, persisted |-> 0] /\ height = 0
        /\ pos = 1 /\ armed = FALSE /\ sealed = <<>> /\ verified = 0 /\ sent = 0 /\ submitted = 0
        /\ request = NoRequest
    BY DEF Init
  <1>2. /\ Len(l1) = 0 /\ Len(pool) = 0 /\ Len(sealed) = 0
        /\ l1 \in Seq(Tx) /\ pool \in Seq(Tx) /\ sealed \in Seq(Tx)
        /\ start.committed = 0 /\ start.executed = 0
        /\ start \in [committed: Nat, executed: Nat, persisted: Nat]
    BY <1>1
  <1>3. Typed
    <2>1. /\ executed \in Nat /\ executed <= Len(l1) /\ landed \in Nat /\ inFlight \in Nat /\ submitted \in Nat
          /\ height \in Nat /\ pos \in Nat \ {0}
          /\ verified \in Nat /\ verified <= Len(sealed) /\ sent \in Nat /\ sent <= verified
          /\ start.executed <= start.committed /\ start.committed <= Len(l1)
      <3>1. /\ executed = 0 /\ landed = 0 /\ inFlight = 0 /\ submitted = 0 /\ height = 0 /\ pos = 1
            /\ verified = 0 /\ sent = 0
        BY <1>1
      <3>2. Len(l1) = 0 /\ Len(sealed) = 0 /\ start.executed = 0 /\ start.committed = 0
        BY <1>2
      <3>3. QED
        BY <3>1, <3>2
    <2>2. armed \in BOOLEAN /\ phase \in {"down", "counted", "up"}
      BY <1>1, Zenon
    <2>3. QED
      BY <1>2, <2>1, <2>2, Zenon DEF Typed
  <1>4. Chained /\ Continued /\ PoolAhead /\ Placed /\ Covered
    BY <1>1, <1>2 DEF Chained, Continued, PoolAhead, Placed, Covered
  <1>5. ObeysAll(chain, l1) /\ ObeysAll(chain, pool) /\ ObeysAll(chain, sealed)
    BY <1>2 DEF ObeysAll
  <1>6. Frontier = 1
    BY <1>2 DEF Frontier, Base, L1At, Genesis
  <1>7. Open
    BY <1>1, <1>6 DEF Open
  <1>8. Asked
    BY <1>1 DEF Asked, NoRequest
  <1>9. QED
    BY <1>3, <1>4, <1>5, <1>7, <1>8 DEF Inv, Lawful

\* Every step of the node, of L1 and of the verifiers keeps the invariant.
LEMMA NextInv ==
    ASSUME Inv, Asked, [Next]_vars
    PROVE  Inv' /\ Asked'
  <1>1. /\ executed \in Nat /\ executed <= Len(l1) /\ height \in Nat /\ Len(l1) \in Nat
        /\ verified \in Nat /\ sent <= verified /\ verified <= Len(sealed)
        /\ Len(sealed) \in Nat /\ Len(sealed) >= Len(sealed) /\ sealed \in Seq(Tx)
    BY DEF Inv, Typed
  <1>2. CASE Land
    <2>1. request' = request /\ verified' = verified /\ start' = start /\ sealed' = sealed
      BY <1>2 DEF Land, mainVars, Exit
    <2>2. QED
      BY <1>1, <1>2, <2>1, LandStep, AskedKept
  <1>3. CASE Execute
    <2>1. /\ executed < Len(l1) /\ executed' = executed + 1
          /\ chain' = chain /\ height' = height /\ l1' = l1 /\ pool' = pool
          /\ landed' = landed /\ inFlight' = inFlight /\ submitted' = submitted /\ start' = start
          /\ pos' = pos /\ armed' = armed /\ sealed' = sealed /\ sent' = sent /\ phase' = phase
          /\ verified' = verified /\ request' = request
      BY <1>3 DEF Execute, mainVars
    <2>2. executed' \in Nat /\ executed' <= Len(l1)
      BY <1>1, <2>1
    <2>3. QED
      BY <1>1, <2>1, <2>2, Quiet, AskedKept
  <1>4. CASE CountInFlight
    <2>1. request' = request /\ verified' = verified /\ start' = start /\ sealed' = sealed
      BY <1>4 DEF CountInFlight
    <2>2. QED
      BY <1>1, <1>4, <2>1, CountInFlightStep, AskedKept
  <1>5. CASE StartNode
    <2>1. request' = NoRequest
      BY <1>5 DEF StartNode
    <2>2. Asked'
      BY <2>1 DEF Asked, NoRequest
    <2>3. QED
      BY <1>5, <2>2, StartNodeStep
  <1>6. CASE Crash \/ ObserveCommit
    <2>1. /\ chain' = chain /\ height' = height /\ l1' = l1 /\ pool' = pool /\ executed' = executed
          /\ landed' = landed /\ inFlight' = inFlight /\ submitted' = submitted /\ start' = start
          /\ pos' = pos /\ armed' = armed /\ sealed' = sealed /\ sent' = sent /\ phase' \in {phase, "down"}
          /\ verified' = verified /\ request' = request
      BY <1>6 DEF Crash, ObserveCommit, Exit, l1Vars
    <2>2. QED
      BY <1>1, <2>1, Quiet, AskedKept
  <1>7. CASE Produce
    <2>1. /\ chain' = chain /\ height' = height + 1 /\ l1' = l1 /\ pool' = pool /\ executed' = executed
          /\ landed' = landed /\ inFlight' = inFlight /\ submitted' = submitted /\ start' = start
          /\ pos' = pos /\ armed' = armed /\ sealed' = sealed /\ sent' = sent /\ phase' = phase
          /\ verified' = verified /\ request' = request
      BY <1>7 DEF Produce, mainVars, l1Vars
    <2>2. height' \in Nat
      BY <1>1, <2>1
    <2>3. QED
      BY <1>1, <2>1, <2>2, Quiet, AskedKept
  <1>8. CASE Skip \/ Recreate \/ AddBlock \/ SealByLimit \/ SealByTimeout
    <2>1. request' = request /\ verified' = verified /\ start' = start
      BY <1>8 DEF Skip, Recreate, AddBlock, SealByLimit, SealByTimeout, BatcherUnchanged
    <2>2. sealed' = sealed \/ \E tx : sealed' = Append(sealed, tx)
      BY <1>8, Zenon DEF Skip, Recreate, AddBlock, SealByLimit, SealByTimeout, Seal
    <2>3. Len(sealed') \in Nat /\ Len(sealed') >= Len(sealed)
      BY <1>1, <2>2
    <2>4. QED
      BY <1>8, <2>1, <2>3, BatcherStep, AskedKept
  <1>9. CASE PassCommitted \/ Ask \/ (\E v \in Verifiers : Answer(v)) \/ Retry
    BY <1>9, VerificationStep
  <1>10. CASE Submit
    <2>1. request' = request /\ verified' = verified /\ start' = start /\ sealed' = sealed
      BY <1>10, Zenon DEF Submit, Exit
    <2>2. QED
      BY <1>1, <1>10, <2>1, SubmitStep, AskedKept
  <1>11. CASE (\E v \in Verifiers : Insert(v)) \/ (\E v \in Verifiers : RestartVerifier(v)) \/ UNCHANGED vars
    <2>1. /\ chain' = chain /\ height' = height /\ l1' = l1 /\ pool' = pool /\ executed' = executed
          /\ landed' = landed /\ inFlight' = inFlight /\ submitted' = submitted /\ start' = start
          /\ pos' = pos /\ armed' = armed /\ sealed' = sealed /\ sent' = sent /\ phase' = phase
          /\ verified' = verified /\ request' = request
      BY <1>11 DEF Insert, RestartVerifier, vars, mainVars, l1Vars
    <2>2. QED
      BY <1>1, <2>1, Quiet, AskedKept
  <1>12. QED
    BY <1>2, <1>3, <1>4, <1>5, <1>6, <1>7, <1>8, <1>9, <1>10, <1>11 DEF Next

\* The invariant holds in every reachable state.
LEMMA Invariance == Spec => [](Inv /\ Asked)
  <1>1. Init => Inv /\ Asked
    BY InitInv
  <1>2. Inv /\ Asked /\ [Next]_vars => (Inv /\ Asked)'
    BY NextInv
  <1>3. QED
    BY <1>1, <1>2, PTL DEF Spec

(***************************************************************************)
(* The theorems.                                                           *)
(***************************************************************************)
(* Every batch that L1 accepts obeys the seal criteria of the batcher,       *)
(* whichever session has sealed it, whatever was left in the mempool and     *)
(* however batches are recreated after a restart.                            *)
THEOREM LawfulBatches == Spec => []SealRules
  <1>1. Inv => SealRules
    <2> SUFFICES ASSUME Inv, NEW n \in 1..Len(l1)
                 PROVE  LET first == l1[n].first
                            last == l1[n].last
                        IN /\ Overweight(first, last) => first = last
                           /\ ~MixesVersions(first, last)
                           /\ HasUpgrade(first, last) => first = last
                           /\ ~MigratesLate(first, last)
      BY Zenon DEF SealRules
    <2>1. Obeys(chain, l1[n].first, l1[n].last)
      BY Zenon DEF Inv, Lawful, ObeysAll
    <2>2. QED
      BY <2>1, Zenon DEF Obeys, Overweight, MixesVersions, HasUpgrade, MigratesLate
  <1>2. QED
    BY <1>1, Invariance, PTL

(* A commit transaction of the running session never reverts: when it is     *)
(* next to be mined, it carries on from the last batch on L1.  So pairing    *)
(* and replacing the transactions of earlier sessions by nonce is sound.     *)
THEOREM CommitsAccepted == Spec => []OwnCommitsAccepted
  <1>1. Inv => OwnCommitsAccepted
    BY OwnAccepted
  <1>2. QED
    BY <1>1, Invariance, PTL

(* The UnexpectedCommit guard of the commit watcher never stops a main node  *)
(* that has no rival: the count of the mempool at startup and the notes of   *)
(* the sender cover every commit that can land.                              *)
THEOREM GuardSuffices == Spec => []GuardCoversCommits
  <1>1. Inv => GuardCoversCommits
    BY DEF Inv, Covered, GuardCoversCommits
  <1>2. QED
    BY <1>1, Invariance, PTL
=============================================================================
