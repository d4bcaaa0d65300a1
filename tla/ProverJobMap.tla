---------------------------- MODULE ProverJobMap ----------------------------
(***************************************************************************)
(* The map of prover jobs that the FRI and the SNARK job managers share:   *)
(* its keys are batch numbers, and of an entry the operators below need    *)
(* whether it is assigned, whether that assignment has timed out and the   *)
(* proving version of its batch.  Behind them, the lemmas that the proofs  *)
(* about both stages rest on: what the operators return, how the contents  *)
(* of a channel change, and when moving a batch from one place to another  *)
(* keeps every batch in one place.                                         *)
(***************************************************************************)
EXTENDS Integers, Sequences, FiniteSets, FiniteSetTheorems, WellFoundedInduction, TLAPS

\* is_queue_full: the span of the batch numbers in the map has reached `range`.
IsQueueFull(jobs, range) == \E lo, hi \in jobs : hi - lo >= range

\* The part of is_job_eligible that looks at one entry: it is pending or its
\* assignment has timed out.  (The caller's predicate is intersected with it.)
Assignable(jobs, assigned, timed_out) == {b \in jobs : b \in assigned => b \in timed_out}

First(S) == CHOOSE b \in S : \A c \in S : b <= c

\* pick_jobs_while_with_limit: the first eligible job, and after it as many
\* consecutive ones of the same proving version as the limit allows.
PickWhile(eligible, version, limit) ==
    IF eligible = {}
    THEN {}
    ELSE LET first == First(eligible)
         IN  {b \in eligible :
                /\ b - first < limit
                /\ \A c \in first .. b : c \in eligible /\ version[c] = version[first]}

\* complete_many_jobs removes a range only when all of it is still there.
CanComplete(jobs, range) == range \subseteq jobs

-----------------------------------------------------------------------------
(* The job map *)

\* A non-empty set of natural numbers has a least element.
LEMMA LeastNatural ==
  ASSUME NEW T \in SUBSET Nat, T # {}
  PROVE  \E m \in T : \A k \in T : m <= k
<1> DEFINE R == {ss \in Nat \X Nat : ss[1] < ss[2]}
<1>1. IsWellFoundedOn(R, Nat)
  BY NatLessThanWellFounded DEF OpToRel
<1>2. PICK m \in T : \A k \in T : ~(<<k, m>> \in R)
  BY <1>1, WFMin
<1>3. \A k \in T : ~(k < m)
  BY <1>2
<1>4. QED
  BY <1>3

\* First is the least element of a non-empty set of batch numbers.
LEMMA FirstIsLeast ==
  ASSUME NEW T \in SUBSET Nat, T # {}
  PROVE  First(T) \in T /\ \A k \in T : First(T) <= k
  BY LeastNatural DEF First

\* pick_jobs_while_with_limit returns eligible jobs, all from one gapless range
\* of one proving version that begins with the first eligible job.
LEMMA PickedJobs ==
  ASSUME NEW eligible \in SUBSET Nat, NEW version, NEW limit \in Nat
  PROVE  /\ PickWhile(eligible, version, limit) \subseteq eligible
         /\ \A b \in PickWhile(eligible, version, limit) :
               /\ First(eligible) <= b
               /\ b - First(eligible) < limit
               /\ version[b] = version[First(eligible)]
               /\ First(eligible) .. b \subseteq PickWhile(eligible, version, limit)
<1>1. CASE eligible = {}
  BY <1>1 DEF PickWhile
<1>2. CASE eligible # {}
  <2> DEFINE f == First(eligible)
             P == {b \in eligible :
                     /\ b - f < limit
                     /\ \A c \in f .. b : c \in eligible /\ version[c] = version[f]}
  <2>1. PickWhile(eligible, version, limit) = P
    BY <1>2 DEF PickWhile
  <2>2. f \in Nat /\ \A k \in eligible : f <= k
    BY <1>2, FirstIsLeast
  <2> HIDE DEF f
  <2>3. ASSUME NEW b \in P
        PROVE  f <= b /\ b - f < limit /\ version[b] = version[f] /\ f .. b \subseteq P
    <3>1. b \in Nat /\ f <= b
      BY <2>2
    <3>2. b - f < limit /\ \A c \in f .. b : c \in eligible /\ version[c] = version[f]
      OBVIOUS
    <3>3. version[b] = version[f]
      BY <2>2, <3>1, <3>2
    <3>4. ASSUME NEW d \in f .. b PROVE d \in P
      <4>1. d \in eligible /\ d - f < limit
        BY <2>2, <3>1, <3>2
      <4>2. \A c \in f .. d : c \in f .. b
        BY <2>2, <3>1
      <4>3. QED
        BY <3>2, <4>1, <4>2
    <3>5. QED
      BY <3>1, <3>2, <3>3, <3>4
  <2>4. QED
    BY <2>1, <2>3 DEF f
<1>3. QED
  BY <1>1, <1>2
-----------------------------------------------------------------------------
(* Channels *)

\* No element of a channel occurs twice.
NoRepeats(s) == \A i, k \in 1 .. Len(s) : s[i] = s[k] => i = k

\* What a channel holds after a send.
LEMMA AppendElems ==
  ASSUME NEW S, NEW s \in Seq(S), NEW x \in S
  PROVE  /\ Append(s, x) \in Seq(S)
         /\ {Append(s, x)[i] : i \in 1 .. Len(Append(s, x))}
               = {s[i] : i \in 1 .. Len(s)} \cup {x}
         /\ NoRepeats(s) /\ x \notin {s[i] : i \in 1 .. Len(s)} => NoRepeats(Append(s, x))
<1> DEFINE t == Append(s, x)
<1>1. t \in Seq(S) /\ Len(t) = Len(s) + 1 /\ Len(s) \in Nat
  OBVIOUS
<1>2. t[Len(s) + 1] = x /\ \A i \in 1 .. Len(s) : t[i] = s[i]
  OBVIOUS
<1> HIDE DEF t
<1>3. {t[i] : i \in 1 .. Len(t)} = {s[i] : i \in 1 .. Len(s)} \cup {x}
  <2>1. \A i \in 1 .. Len(t) : i \in 1 .. Len(s) \/ i = Len(s) + 1
    BY <1>1
  <2>2. 1 .. Len(s) \subseteq 1 .. Len(t) /\ Len(s) + 1 \in 1 .. Len(t)
    BY <1>1
  <2>3. QED
    BY <1>2, <2>1, <2>2
<1>4. NoRepeats(s) /\ x \notin {s[i] : i \in 1 .. Len(s)} => NoRepeats(t)
  BY <1>1, <1>2 DEF NoRepeats
<1>5. QED
  BY <1>1, <1>3, <1>4 DEF t

\* What a channel without repetitions holds after a receive.
LEMMA TailElems ==
  ASSUME NEW S, NEW s \in Seq(S), s # << >>, NoRepeats(s)
  PROVE  /\ Tail(s) \in Seq(S)
         /\ Head(s) \in S /\ Head(s) \in {s[i] : i \in 1 .. Len(s)}
         /\ {Tail(s)[i] : i \in 1 .. Len(Tail(s))} = {s[i] : i \in 1 .. Len(s)} \ {Head(s)}
         /\ NoRepeats(Tail(s))
<1> DEFINE t == Tail(s)
<1>1. /\ t \in Seq(S) /\ Len(s) \in Nat /\ Len(s) > 0 /\ Len(t) = Len(s) - 1
      /\ Head(s) = s[1] /\ Head(s) \in S
  OBVIOUS
<1>2. \A i \in 1 .. Len(t) : t[i] = s[i + 1]
  OBVIOUS
<1> HIDE DEF t
<1>3. {t[i] : i \in 1 .. Len(t)} = {s[i] : i \in 1 .. Len(s)} \ {Head(s)}
  <2>1. ASSUME NEW i \in 1 .. Len(t)
        PROVE  t[i] \in {s[k] : k \in 1 .. Len(s)} \ {Head(s)}
    <3>1. i + 1 \in 1 .. Len(s) /\ 1 \in 1 .. Len(s) /\ i + 1 # 1
      BY <1>1
    <3>2. QED
      BY <1>1, <1>2, <3>1 DEF NoRepeats
  <2>2. ASSUME NEW k \in 1 .. Len(s), s[k] # Head(s)
        PROVE  s[k] \in {t[i] : i \in 1 .. Len(t)}
    <3>1. k - 1 \in 1 .. Len(t) /\ k = (k - 1) + 1
      BY <1>1, <2>2
    <3>2. t[k - 1] = s[k]
      BY <1>2, <3>1
    <3>3. QED
      BY <3>1, <3>2
  <2>3. QED
    BY <2>1, <2>2
<1>4. NoRepeats(t)
  BY <1>1, <1>2 DEF NoRepeats
<1>5. 1 \in 1 .. Len(s)
  BY <1>1
<1>6. QED
  BY <1>1, <1>3, <1>4, <1>5 DEF t

-----------------------------------------------------------------------------
(* Places of a batch: P[1] .. P[8] are sets of batches *)

PlaceIds == 1 .. 8

LEMMA PlaceNumbers ==
  /\ 1 \in PlaceIds /\ 2 \in PlaceIds /\ 3 \in PlaceIds /\ 4 \in PlaceIds
  /\ 5 \in PlaceIds /\ 6 \in PlaceIds /\ 7 \in PlaceIds /\ 8 \in PlaceIds
  BY DEF PlaceIds

Exclusive(P) == \A i, k \in PlaceIds : i # k => P[i] \cap P[k] = {}

Covers(P, S) == \A b \in S : \E i \in PlaceIds : b \in P[i]

\* At first every batch is at the first place.
LEMMA InitialPlaces ==
  ASSUME NEW P, NEW S, P[1] = S, P[2] = {}, P[3] = {}, P[4] = {}, P[5] = {}, P[6] = {},
         P[7] = {}, P[8] = {}
  PROVE  Exclusive(P) /\ Covers(P, S)
<1>1. \A i \in PlaceIds : i # 1 => P[i] = {}
  BY DEF PlaceIds
<1>2. 1 \in PlaceIds
  BY PlaceNumbers
<1>3. QED
  BY <1>1, <1>2 DEF Exclusive, Covers

\* Q is P after the batches M moved from place i to place j.
Moved(P, Q, i, j, M) ==
    /\ i \in PlaceIds /\ j \in PlaceIds /\ i # j
    /\ M \subseteq P[i] /\ Q[i] = P[i] \ M /\ Q[j] = P[j] \cup M
    /\ \A k \in PlaceIds : k # i /\ k # j => Q[k] = P[k]

\* Moving some batches from one place to another changes neither.
LEMMA MoveBatches ==
  ASSUME NEW P, NEW Q, NEW S, NEW i, NEW j, NEW M, Moved(P, Q, i, j, M),
         Exclusive(P), Covers(P, S)
  PROVE  Exclusive(Q) /\ Covers(Q, S)
<1> USE DEF Moved
<1>1. ASSUME NEW k \in PlaceIds, NEW l \in PlaceIds, k # l, NEW b, b \in Q[k], b \in Q[l]
      PROVE  FALSE
  <2>1. CASE b \in M
    BY <1>1, <2>1 DEF Exclusive
  <2>2. CASE b \notin M
    BY <1>1, <2>2 DEF Exclusive
  <2>3. QED
    BY <2>1, <2>2
<1>2. Exclusive(Q)
  BY <1>1 DEF Exclusive
<1>3. ASSUME NEW b \in S PROVE \E k \in PlaceIds : b \in Q[k]
  <2>1. PICK k \in PlaceIds : b \in P[k]
    BY DEF Covers
  <2>2. CASE b \in M
    BY <2>2
  <2>3. CASE b \notin M
    BY <2>1, <2>3
  <2>4. QED
    BY <2>2, <2>3
<1>4. QED
  BY <1>2, <1>3 DEF Covers

\* Exclusive places that cover a set hold each of its elements once.
LEMMA OnePlace ==
  ASSUME NEW P, DOMAIN P = PlaceIds, NEW S, Exclusive(P), Covers(P, S)
  PROVE  \A b \in S : Cardinality({i \in DOMAIN P : b \in P[i]}) = 1
<1> TAKE b \in S
<1>1. PICK i \in PlaceIds : b \in P[i]
  BY DEF Covers
<1>2. {k \in DOMAIN P : b \in P[k]} = {i}
  BY <1>1 DEF Exclusive
<1>3. QED
  BY <1>2, FS_Singleton, Zenon
=============================================================================
