------------------------ MODULE ProfileRankingProofs ------------------------
(***************************************************************************)
(* For every set of profiles, of identities and every range of scores:     *)
(* type correctness, and that the unlocked search of rankedProfiles loses  *)
(* no profile, never raises, and chooses a profile that suits.             *)
(***************************************************************************)
EXTENDS ProfileRanking, TLAPS

(***************************************************************************)
(* What insertObject:atIndex: makes of an array.                           *)
(***************************************************************************)
\* new is list with x at index: one element longer, every element below the
\* index where it was, the others behind the new one.
Inserted(new, list, x, index) ==
  /\ Len(new) = Len(list) + 1
  /\ \A k \in 1..index : new[k] = list[k]
  /\ new[index + 1] = x
  /\ \A k \in (index + 2)..(Len(list) + 1) : new[k] = list[k - 1]

LEMMA InsertedObject ==
  ASSUME NEW S, NEW list \in Seq(S), NEW x \in S, NEW index \in 0..Len(list)
  PROVE  /\ InsertObject(list, x, index) \in Seq(S)
         /\ Inserted(InsertObject(list, x, index), list, x, index)
<1> DEFINE new == InsertObject(list, x, index)
<1>1. Len(list) \in Nat /\ DOMAIN list = 1..Len(list)
  OBVIOUS
<1>2. \A k \in 1..(Len(list) + 1) :
         new[k] = IF k <= index THEN list[k] ELSE IF k = index + 1 THEN x ELSE list[k - 1]
  BY DEF InsertObject
<1>3. \A k \in 1..(Len(list) + 1) : new[k] \in S
  <2> SUFFICES ASSUME NEW k \in 1..(Len(list) + 1) PROVE new[k] \in S
    OBVIOUS
  <2>1. CASE k <= index
    BY <2>1, <1>1, <1>2
  <2>2. CASE k = index + 1
    BY <2>2, <1>1, <1>2
  <2>3. CASE k > index + 1
    <3>1. k - 1 \in 1..Len(list)
      BY <2>3, <1>1
    <3> QED
      BY <2>3, <3>1, <1>1, <1>2
  <2> QED
    BY <2>1, <2>2, <2>3, <1>1
<1>4. new \in [1..(Len(list) + 1) -> S]
  BY <1>3 DEF InsertObject
<1>5. new \in Seq(S) /\ Len(new) = Len(list) + 1
  BY <1>1, <1>4
<1> HIDE DEF new
<1> QED
  BY <1>1, <1>2, <1>5 DEF new, Inserted

(***************************************************************************)
(* Type correctness.                                                       *)
(***************************************************************************)
\* What is needed besides the types for the types to be inductive: a search
\* stays within the array (IndexInBounds).
TypeInv == TypeOK /\ IndexInBounds

LEMMA MiddleBetween ==
  ASSUME NEW a \in Nat, NEW b \in Nat, a < b
  PROVE  /\ (a + b) \div 2 \in Nat
         /\ a <= (a + b) \div 2 /\ (a + b) \div 2 < b
  OBVIOUS

LEMMA TypeInvInit == Init => TypeInv
<1> SUFFICES ASSUME Init PROVE TypeInv
  OBVIOUS
<1>1. satisfying \in Seq(Profiles)
  BY DEF Init
<1> QED
  BY <1>1 DEF Init, TypeInv, TypeOK, IndexInBounds

LEMMA TypeInvStep == TypeInv /\ [Next]_vars => TypeInv'
<1> SUFFICES ASSUME TypeInv, [Next]_vars PROVE TypeInv'
  OBVIOUS
<1> USE DEF TypeInv, TypeOK, facts, picking, search
<1>0. CASE Identified \/ Unpicked
  BY <1>0 DEF Identified, Unpicked, IndexInBounds
<1>1. ASSUME NEW i \in Identities, Consider(i) PROVE TypeInv'
  <2>1. PICK better \in SUBSET Profiles : Picks(i, better)
    BY <1>1 DEF Consider
  <2> QED
    BY <2>1 DEF Picks, IndexInBounds
<1>2. CASE Loaded
  BY <1>2 DEF Loaded, IndexInBounds
<1>3. CASE Ranked
  <2>1. satisfying # << >> => satisfying[1] \in Profiles
    OBVIOUS
  <2> QED
    BY <1>3, <2>1 DEF Ranked, IndexInBounds
<1>4. ASSUME NEW p \in Profiles, Load(p) PROVE TypeInv'
  BY <1>4 DEF Load, IndexInBounds
<1>5. ASSUME NEW p \in Profiles, Judge(p) PROVE TypeInv'
  <2>1. /\ lo \in [Profiles -> Nat] /\ hi \in [Profiles -> Nat]
        /\ Len(satisfying) \in Nat /\ IndexInBounds
    OBVIOUS
  <2>2. CASE Suits(p, identity)
    <3>1. /\ pc' = [pc EXCEPT ![p] = "search"]
          /\ lo' = [lo EXCEPT ![p] = 0]
          /\ hi' = [hi EXCEPT ![p] = Len(satisfying)]
          /\ UNCHANGED <<facts, expired, phase, picking, satisfying, match, raced>>
      BY <1>5, <2>2 DEF Judge
    <3> HIDE DEF TypeInv, TypeOK
    <3>2. lo' \in [Profiles -> Nat] /\ hi' \in [Profiles -> Nat]
      BY <2>1, <3>1
    <3>3. pc \in [Profiles -> {"unread", "skipped", "found", "search", "in", "out"}]
      BY DEF TypeInv, TypeOK
    <3>4. IndexInBounds'
      BY <2>1, <3>1, <3>3 DEF IndexInBounds
    <3>5. TypeOK'
      BY <3>1, <3>2 DEF TypeInv, TypeOK, facts, picking
    <3> QED
      BY <3>4, <3>5 DEF TypeInv
  <2>3. CASE ~Suits(p, identity)
    BY <1>5, <2>3 DEF Judge, IndexInBounds
  <2> QED
    BY <2>2, <2>3
<1>6. ASSUME NEW p \in Profiles, Probe(p) PROVE TypeInv'
  <2>1. /\ Middle(p) \in Nat /\ lo[p] <= Middle(p) /\ Middle(p) < hi[p]
        /\ lo[p] < hi[p] /\ pc[p] = "search"
    BY <1>6, MiddleBetween DEF Probe, ProbeWith, Middle
  <2>2. \/ /\ lo' = [lo EXCEPT ![p] = Middle(p) + 1] /\ UNCHANGED hi
        \/ /\ hi' = [hi EXCEPT ![p] = Middle(p)] /\ UNCHANGED lo
    BY <1>6 DEF Probe, ProbeWith
  <2>3. UNCHANGED <<facts, expired, phase, picking, pc, satisfying, match, raced>>
    BY <1>6 DEF Probe, ProbeWith
  <2> HIDE DEF TypeInv, TypeOK
  <2>4. /\ lo \in [Profiles -> Nat] /\ hi \in [Profiles -> Nat]
        /\ Len(satisfying) \in Nat /\ IndexInBounds
    BY DEF TypeInv, TypeOK
  <2>5. lo' \in [Profiles -> Nat] /\ hi' \in [Profiles -> Nat]
    BY <2>1, <2>2, <2>4
  <2>6. IndexInBounds'
    BY <2>1, <2>2, <2>3, <2>4 DEF IndexInBounds
  <2>7. TypeOK'
    BY <2>3, <2>5 DEF TypeInv, TypeOK, facts, picking
  <2> QED
    BY <2>6, <2>7 DEF TypeInv
<1>7. ASSUME NEW p \in Profiles, Insert(p) PROVE TypeInv'
  <2>1. lo[p] \in 0..Len(satisfying)
    BY <1>7 DEF Insert
  <2>2. satisfying' \in Seq(Profiles) /\ Len(satisfying') = Len(satisfying) + 1
    BY <1>7, <2>1, InsertedObject DEF Insert, Inserted
  <2>3. raced' \in BOOLEAN
    BY <1>7 DEF Insert
  <2>4. /\ pc' = [pc EXCEPT ![p] = "in"]
        /\ UNCHANGED <<valid, score, expired, phase, unseen, identity, rank, pickedFor,
                       lo, hi, match>>
    BY <1>7 DEF Insert
  <2>5. /\ lo \in [Profiles -> Nat] /\ hi \in [Profiles -> Nat]
        /\ pc \in [Profiles -> {"unread", "skipped", "found", "search", "in", "out"}]
        /\ Len(satisfying) \in Nat /\ IndexInBounds
    OBVIOUS
  <2>6. TypeOK'
    BY <2>2, <2>3, <2>4
  <2> HIDE DEF TypeInv, TypeOK
  <2>7. ASSUME NEW q \in Profiles, pc'[q] = "search"
        PROVE  lo'[q] <= hi'[q] /\ hi'[q] <= Len(satisfying')
    <3>1. pc[q] = "search"
      BY <2>4, <2>5, <2>7
    <3>2. lo[q] \in Nat /\ hi[q] \in Nat /\ lo[q] <= hi[q] /\ hi[q] <= Len(satisfying)
      BY <2>5, <3>1 DEF IndexInBounds
    <3> QED
      BY <2>2, <2>4, <2>5, <3>2
  <2> QED
    BY <2>6, <2>7 DEF TypeInv, IndexInBounds
<1>8. ASSUME NEW p \in Profiles, Expire(p) PROVE TypeInv'
  BY <1>8 DEF Expire, IndexInBounds
<1>9. CASE UNCHANGED vars
  BY <1>9 DEF vars, IndexInBounds
<1> QED
  BY <1>0, <1>1, <1>2, <1>3, <1>4, <1>5, <1>6, <1>7, <1>8, <1>9
     DEF Next, Caller, Block

LEMMA TypeInvAlways == Spec => []TypeInv
  BY TypeInvInit, TypeInvStep, PTL DEF Spec

\* In every behaviour the variables of the selection keep their types.
THEOREM TypeCorrect == Spec => []TypeOK
  BY TypeInvAlways, PTL DEF TypeInv

\* insertObject:atIndex: is always called within the bounds of the array,
\* although its index was computed without the lock.
THEOREM InsertionNeverRaises == Spec => []IndexInBounds
  BY TypeInvAlways, PTL DEF TypeInv
-----------------------------------------------------------------------------
\* An insertion keeps the array a listing of exactly the blocks that are in.
LEMMA NothingLostStep == TypeInv /\ NothingLost /\ [Next]_vars => NothingLost'
<1> SUFFICES ASSUME TypeInv, NothingLost, [Next]_vars PROVE NothingLost'
  OBVIOUS
<1>0. /\ satisfying \in Seq(Profiles)
      /\ pc \in [Profiles -> {"unread", "skipped", "found", "search", "in", "out"}]
  BY DEF TypeInv, TypeOK
<1>1. CASE Identified \/ Unpicked
  BY <1>1 DEF Identified, Unpicked, NothingLost, search
<1>10. ASSUME NEW i \in Identities, Consider(i) PROVE NothingLost'
  BY <1>10 DEF Consider, Picks, NothingLost, search
<1>2. CASE Loaded
  BY <1>2 DEF Loaded, NothingLost, search
<1>3. CASE Ranked
  BY <1>3 DEF Ranked, NothingLost, search
<1>4. ASSUME NEW p \in Profiles, Load(p) PROVE NothingLost'
  BY <1>0, <1>4 DEF Load, NothingLost, search
<1>5. ASSUME NEW p \in Profiles, Judge(p) PROVE NothingLost'
  BY <1>0, <1>5 DEF Judge, NothingLost
<1>6. ASSUME NEW p \in Profiles, Probe(p) PROVE NothingLost'
  BY <1>6 DEF Probe, ProbeWith, NothingLost
<1>7. ASSUME NEW p \in Profiles, Insert(p) PROVE NothingLost'
  <2> DEFINE n == Len(satisfying)
             at == lo[p]
  <2>1. n \in Nat /\ at \in 0..n /\ DOMAIN satisfying = 1..n
    BY <1>0, <1>7 DEF Insert, TypeInv, TypeOK
  <2>2. /\ satisfying' \in Seq(Profiles) /\ Len(satisfying') = n + 1
        /\ \A k \in 1..at : satisfying'[k] = satisfying[k]
        /\ satisfying'[at + 1] = p
        /\ \A k \in (at + 2)..(n + 1) : satisfying'[k] = satisfying[k - 1]
    <3>1. satisfying' = InsertObject(satisfying, p, at)
      BY <1>7 DEF Insert
    <3>2. satisfying' \in Seq(Profiles) /\ Inserted(satisfying', satisfying, p, at)
      BY <1>0, <2>1, <3>1, InsertedObject
    <3> QED
      BY <3>2 DEF Inserted
  <2>3. DOMAIN satisfying' = 1..(n + 1)
    BY <2>2
  <2>4. pc[p] = "search" /\ pc' = [pc EXCEPT ![p] = "in"]
    BY <1>7 DEF Insert
  <2>5. \A k \in 1..n : satisfying[k] # p
    BY <2>1, <2>4 DEF NothingLost
  <2> HIDE DEF n, at
  <2>6. ASSUME NEW q \in Profiles
        PROVE  pc'[q] = "in" <=> \E k \in 1..(n + 1) : satisfying'[k] = q
    <3>1. CASE q = p
      <4>1. at + 1 \in 1..(n + 1)
        BY <2>1
      <4> QED
        BY <1>0, <2>2, <2>4, <3>1, <4>1
    <3>2. CASE q # p
      <4>1. pc'[q] = "in" <=> \E k \in 1..n : satisfying[k] = q
        BY <1>0, <2>1, <2>4, <3>2 DEF NothingLost
      <4>2. ASSUME NEW k \in 1..n, satisfying[k] = q
            PROVE  \E j \in 1..(n + 1) : satisfying'[j] = q
        <5>1. CASE k <= at
          BY <2>1, <2>2, <4>2, <5>1
        <5>2. CASE k > at
          <6>1. k + 1 \in (at + 2)..(n + 1) /\ (k + 1) - 1 = k
            BY <2>1, <5>2
          <6>2. satisfying'[k + 1] = q
            BY <2>2, <4>2, <6>1
          <6> QED
            BY <2>1, <6>1, <6>2
        <5> QED
          BY <2>1, <5>1, <5>2
      <4>3. ASSUME NEW k \in 1..(n + 1), satisfying'[k] = q
            PROVE  \E j \in 1..n : satisfying[j] = q
        <5>1. CASE k <= at
          BY <2>1, <2>2, <4>3, <5>1
        <5>2. CASE k = at + 1
          BY <2>2, <3>2, <4>3, <5>2
        <5>3. CASE k > at + 1
          BY <2>1, <2>2, <4>3, <5>3
        <5> QED
          BY <2>1, <5>1, <5>2, <5>3
      <4> QED
        BY <4>1, <4>2, <4>3
    <3> QED
      BY <3>1, <3>2
  <2>7. ASSUME NEW j \in 1..(n + 1), NEW k \in 1..(n + 1),
               satisfying'[j] = satisfying'[k]
        PROVE  j = k
    <3> DEFINE old(i) == IF i <= at THEN i ELSE i - 1
    <3>1. \A i \in 1..(n + 1) : i # at + 1 =>
             old(i) \in 1..n /\ satisfying'[i] = satisfying[old(i)]
      BY <2>1, <2>2
    <3>2. \A i \in 1..(n + 1) : satisfying'[i] = p => i = at + 1
      BY <2>5, <3>1
    <3>3. CASE j = at + 1 \/ k = at + 1
      BY <2>2, <2>7, <3>2, <3>3
    <3>4. CASE j # at + 1 /\ k # at + 1
      <4>1. /\ old(j) \in DOMAIN satisfying /\ old(k) \in DOMAIN satisfying
            /\ satisfying[old(j)] = satisfying[old(k)]
        <5> HIDE DEF old
        <5> QED
          BY <2>1, <2>7, <3>1, <3>4 DEF n
      <4>2. old(j) = old(k)
        <5> HIDE DEF old
        <5> QED
          BY <4>1 DEF NothingLost
      <4> QED
        BY <2>1, <3>4, <4>2
    <3> QED
      BY <3>3, <3>4
  <2> QED
    BY <2>3, <2>6, <2>7 DEF NothingLost
<1>8. ASSUME NEW p \in Profiles, Expire(p) PROVE NothingLost'
  BY <1>8 DEF Expire, NothingLost, search
<1>9. CASE UNCHANGED vars
  BY <1>9 DEF vars, NothingLost, search
<1> QED
  BY <1>1, <1>2, <1>3, <1>4, <1>5, <1>6, <1>7, <1>8, <1>9, <1>10
     DEF Next, Caller, Block

\* The array lists each accepted profile once: no interleaving of searches
\* and insertions loses one.
THEOREM NothingIsLost == Spec => []NothingLost
<1>1. Init => NothingLost
  BY DEF Init, NothingLost
<1> QED
  BY <1>1, NothingLostStep, TypeInvAlways, PTL DEF Spec
-----------------------------------------------------------------------------
(***************************************************************************)
(* The order of the array.                                                 *)
(***************************************************************************)
\* What the search knows of the array while nobody else inserts: all below its
\* range is preferred at least as much, and nothing above it is preferred.
Bracketed ==
  ~raced => \A p \in Profiles : pc[p] = "search" =>
    \A k \in DOMAIN satisfying :
      /\ k <= lo[p] => score[satisfying[k]] <= score[p]
      /\ k > hi[p] => score[p] <= score[satisfying[k]]

OrderInv == Bracketed /\ SortedUnlessRaced

LEMMA OrderInvInit == Init => OrderInv
  BY DEF Init, OrderInv, Bracketed, SortedUnlessRaced, SortedByScore

LEMMA OrderInvStep == TypeInv /\ OrderInv /\ [Next]_vars => OrderInv'
<1> SUFFICES ASSUME TypeInv, OrderInv, [Next]_vars PROVE OrderInv'
  OBVIOUS
<1>0. /\ satisfying \in Seq(Profiles) /\ Len(satisfying) \in Nat
      /\ DOMAIN satisfying = 1..Len(satisfying)
      /\ pc \in [Profiles -> {"unread", "skipped", "found", "search", "in", "out"}]
      /\ lo \in [Profiles -> Nat] /\ hi \in [Profiles -> Nat]
      /\ \A p \in Profiles : score[p] \in Int
      /\ raced \in BOOLEAN
  BY RankingAssumption DEF TypeInv, TypeOK, Scores, Rejected
<1> USE DEF OrderInv, facts
<1>1. CASE Identified \/ Unpicked
  BY <1>1 DEF Identified, Unpicked, search, Bracketed, SortedUnlessRaced, SortedByScore
<1>10. ASSUME NEW i \in Identities, Consider(i) PROVE OrderInv'
  BY <1>10 DEF Consider, Picks, search, Bracketed, SortedUnlessRaced, SortedByScore
<1>2. CASE Loaded
  BY <1>2 DEF Loaded, search, Bracketed, SortedUnlessRaced, SortedByScore
<1>3. CASE Ranked
  BY <1>3 DEF Ranked, search, Bracketed, SortedUnlessRaced, SortedByScore
<1>4. ASSUME NEW p \in Profiles, Load(p) PROVE OrderInv'
  BY <1>0, <1>4 DEF Load, search, Bracketed, SortedUnlessRaced, SortedByScore
<1>5. ASSUME NEW p \in Profiles, Judge(p) PROVE OrderInv'
  <2>1. SortedUnlessRaced'
    BY <1>5 DEF Judge, SortedUnlessRaced, SortedByScore
  <2>2. CASE Suits(p, identity)
    <3>1. /\ pc' = [pc EXCEPT ![p] = "search"]
          /\ lo' = [lo EXCEPT ![p] = 0]
          /\ hi' = [hi EXCEPT ![p] = Len(satisfying)]
          /\ UNCHANGED <<score, satisfying, raced>>
      BY <1>5, <2>2 DEF Judge
    <3> QED
      BY <1>0, <2>1, <3>1 DEF Bracketed
  <2>3. CASE ~Suits(p, identity)
    BY <1>0, <1>5, <2>1, <2>3 DEF Judge, Bracketed
  <2> QED
    BY <2>2, <2>3
<1>6. ASSUME NEW p \in Profiles, Probe(p) PROVE OrderInv'
  <2>1. SortedUnlessRaced'
    BY <1>6 DEF Probe, ProbeWith, SortedUnlessRaced, SortedByScore
  <2>2. /\ pc[p] = "search" /\ hi[p] <= Len(satisfying)
        /\ Middle(p) \in Nat /\ Middle(p) < hi[p]
    BY <1>0, <1>6, MiddleBetween DEF Probe, ProbeWith, Middle, TypeInv, IndexInBounds
  <2>3. /\ Middle(p) + 1 \in DOMAIN satisfying
        /\ satisfying[Middle(p) + 1] \in Profiles
    BY <1>0, <2>2
  <2>4. UNCHANGED <<facts, pc, satisfying, raced>>
    BY <1>6 DEF Probe, ProbeWith
  <2>5. CASE /\ score[satisfying[Middle(p) + 1]] <= score[p]
             /\ lo' = [lo EXCEPT ![p] = Middle(p) + 1] /\ UNCHANGED hi
    <3>1. ASSUME ~raced, NEW k \in DOMAIN satisfying, k <= Middle(p) + 1
          PROVE  score[satisfying[k]] <= score[p]
      <4>1. score[satisfying[k]] <= score[satisfying[Middle(p) + 1]]
        BY <2>3, <3>1 DEF SortedUnlessRaced, SortedByScore
      <4>2. satisfying[k] \in Profiles
        BY <1>0
      <4>3. /\ score[satisfying[k]] \in Int /\ score[p] \in Int
            /\ score[satisfying[Middle(p) + 1]] \in Int
        BY <1>0, <2>3, <4>2
      <4>4. score[satisfying[Middle(p) + 1]] <= score[p]
        BY <2>5
      <4> QED
        BY <4>1, <4>3, <4>4
    <3>2. ASSUME ~raced, NEW q \in Profiles, pc[q] = "search", NEW k \in DOMAIN satisfying
          PROVE  /\ k <= lo'[q] => score[satisfying[k]] <= score[q]
                 /\ k > hi'[q] => score[q] <= score[satisfying[k]]
      <4>1. /\ k <= lo[q] => score[satisfying[k]] <= score[q]
            /\ k > hi[q] => score[q] <= score[satisfying[k]]
        BY <3>2 DEF Bracketed
      <4>2. lo'[q] = (IF q = p THEN Middle(p) + 1 ELSE lo[q]) /\ hi'[q] = hi[q]
        BY <1>0, <2>5
      <4> QED
        BY <3>1, <3>2, <4>1, <4>2
    <3>3. Bracketed'
      BY <2>4, <3>2 DEF Bracketed
    <3> QED
      BY <2>1, <3>3
  <2>6. CASE /\ score[p] <= score[satisfying[Middle(p) + 1]]
             /\ hi' = [hi EXCEPT ![p] = Middle(p)] /\ UNCHANGED lo
    <3>1. ASSUME ~raced, NEW k \in DOMAIN satisfying, k > Middle(p)
          PROVE  score[p] <= score[satisfying[k]]
      <4>1. k \in Nat /\ Middle(p) + 1 <= k
        BY <1>0, <2>2, <3>1
      <4>2. score[satisfying[Middle(p) + 1]] <= score[satisfying[k]]
        BY <2>3, <3>1, <4>1 DEF SortedUnlessRaced, SortedByScore
      <4>3. satisfying[k] \in Profiles
        BY <1>0
      <4>4. /\ score[satisfying[k]] \in Int /\ score[p] \in Int
            /\ score[satisfying[Middle(p) + 1]] \in Int
        BY <1>0, <2>3, <4>3
      <4>5. score[p] <= score[satisfying[Middle(p) + 1]]
        BY <2>6
      <4> QED
        BY <4>2, <4>4, <4>5
    <3>2. ASSUME ~raced, NEW q \in Profiles, pc[q] = "search", NEW k \in DOMAIN satisfying
          PROVE  /\ k <= lo'[q] => score[satisfying[k]] <= score[q]
                 /\ k > hi'[q] => score[q] <= score[satisfying[k]]
      <4>1. /\ k <= lo[q] => score[satisfying[k]] <= score[q]
            /\ k > hi[q] => score[q] <= score[satisfying[k]]
        BY <3>2 DEF Bracketed
      <4>2. hi'[q] = (IF q = p THEN Middle(p) ELSE hi[q]) /\ lo'[q] = lo[q]
        BY <1>0, <2>6
      <4> QED
        BY <3>1, <3>2, <4>1, <4>2
    <3>3. Bracketed'
      BY <2>4, <3>2 DEF Bracketed
    <3> QED
      BY <2>1, <3>3
  <2>7. score[p] \in Int /\ score[satisfying[Middle(p) + 1]] \in Int
    BY <1>0, <2>3
  <2>8. CASE /\ Order(p) >= 0
             /\ lo' = [lo EXCEPT ![p] = Middle(p) + 1] /\ UNCHANGED hi
    <3>1. score[satisfying[Middle(p) + 1]] <= score[p]
      BY <2>7, <2>8 DEF Order
    <3> QED
      BY <2>5, <2>8, <3>1
  <2>9. CASE /\ Order(p) <= 0
             /\ hi' = [hi EXCEPT ![p] = Middle(p)] /\ UNCHANGED lo
    <3>1. score[p] <= score[satisfying[Middle(p) + 1]]
      BY <2>7, <2>9 DEF Order
    <3> QED
      BY <2>6, <2>9, <3>1
  <2>10. \/ /\ Order(p) >= 0
            /\ lo' = [lo EXCEPT ![p] = Middle(p) + 1] /\ UNCHANGED hi
         \/ /\ Order(p) <= 0
            /\ hi' = [hi EXCEPT ![p] = Middle(p)] /\ UNCHANGED lo
    BY <1>6 DEF Probe, ProbeWith
  <2> QED
    BY <2>8, <2>9, <2>10
<1>7. ASSUME NEW p \in Profiles, Insert(p) PROVE OrderInv'
  <2> SUFFICES ASSUME ~raced' PROVE OrderInv'
    BY DEF Bracketed, SortedUnlessRaced
  <2>0. ~raced /\ \A q \in Profiles : q # p => pc[q] # "search"
    BY <1>7, Zenon DEF Insert
  <2>1. /\ pc[p] = "search" /\ pc' = [pc EXCEPT ![p] = "in"]
        /\ lo[p] = hi[p] /\ lo[p] \in 0..Len(satisfying) /\ score' = score
    BY <1>0, <1>7 DEF Insert
  <2>2. Bracketed'
    BY <1>0, <2>0, <2>1 DEF Bracketed
  <2>3. satisfying' \in Seq(Profiles) /\ Inserted(satisfying', satisfying, p, lo[p])
    BY <1>0, <1>7, <2>1, InsertedObject DEF Insert
  <2> DEFINE n == Len(satisfying)
             at == lo[p]
             old(i) == IF i <= at THEN i ELSE i - 1
  <2>4. DOMAIN satisfying' = 1..(n + 1) /\ n \in Nat /\ at \in 0..n
    BY <1>0, <2>1, <2>3 DEF Inserted
  <2>5. /\ satisfying'[at + 1] = p
        /\ \A i \in 1..(n + 1) : i # at + 1 =>
              old(i) \in DOMAIN satisfying /\ satisfying'[i] = satisfying[old(i)]
    <3>1. /\ \A k \in 1..at : satisfying'[k] = satisfying[k]
          /\ satisfying'[at + 1] = p
          /\ \A k \in (at + 2)..(n + 1) : satisfying'[k] = satisfying[k - 1]
      BY <2>3 DEF Inserted
    <3>2. DOMAIN satisfying = 1..n
      BY <1>0
    <3> HIDE DEF n, at
    <3> QED
      BY <2>4, <3>1, <3>2
  <2>6. \A i \in 1..(n + 1) : i < at + 1 => score[satisfying'[i]] <= score[p]
    <3> SUFFICES ASSUME NEW i \in 1..(n + 1), i < at + 1
                 PROVE  score[satisfying'[i]] <= score[p]
      OBVIOUS
    <3>1. /\ old(i) \in DOMAIN satisfying /\ old(i) <= at
          /\ satisfying'[i] = satisfying[old(i)]
      BY <2>4, <2>5
    <3> HIDE DEF old
    <3> QED
      BY <2>0, <2>1, <3>1 DEF Bracketed
  <2>7. \A i \in 1..(n + 1) : i > at + 1 => score[p] <= score[satisfying'[i]]
    <3> SUFFICES ASSUME NEW i \in 1..(n + 1), i > at + 1
                 PROVE  score[p] <= score[satisfying'[i]]
      OBVIOUS
    <3>1. /\ old(i) \in DOMAIN satisfying /\ old(i) > at
          /\ satisfying'[i] = satisfying[old(i)]
      BY <2>4, <2>5
    <3> HIDE DEF old
    <3> QED
      BY <2>0, <2>1, <3>1 DEF Bracketed
  <2> HIDE DEF n, at
  <2>8. ASSUME NEW j \in 1..(n + 1), NEW k \in 1..(n + 1), j <= k
        PROVE  score[satisfying'[j]] <= score[satisfying'[k]]
    <3>1. CASE j # at + 1 /\ k # at + 1
      <4>1. old(j) <= old(k)
        BY <2>4, <2>8, <3>1
      <4>2. /\ old(j) \in DOMAIN satisfying /\ satisfying'[j] = satisfying[old(j)]
            /\ old(k) \in DOMAIN satisfying /\ satisfying'[k] = satisfying[old(k)]
        BY <2>5, <3>1
      <4> HIDE DEF old
      <4> QED
        BY <2>0, <4>1, <4>2 DEF SortedUnlessRaced, SortedByScore
    <3>2. CASE j = at + 1 /\ k = at + 1
      BY <1>0, <2>5, <3>2
    <3>3. CASE j = at + 1 /\ k # at + 1
      <4>1. k > at + 1
        BY <2>4, <2>8, <3>3
      <4> QED
        BY <2>5, <2>7, <3>3, <4>1
    <3>4. CASE j # at + 1 /\ k = at + 1
      <4>1. j < at + 1
        BY <2>4, <2>8, <3>4
      <4> QED
        BY <2>5, <2>6, <3>4, <4>1
    <3> QED
      BY <3>1, <3>2, <3>3, <3>4
  <2>9. SortedUnlessRaced'
    BY <2>1, <2>4, <2>8 DEF SortedUnlessRaced, SortedByScore
  <2> QED
    BY <2>2, <2>9
<1>8. ASSUME NEW p \in Profiles, Expire(p) PROVE OrderInv'
  BY <1>8 DEF Expire, search, Bracketed, SortedUnlessRaced, SortedByScore
<1>9. CASE UNCHANGED vars
  BY <1>9 DEF vars, search, Bracketed, SortedUnlessRaced, SortedByScore
<1> QED
  BY <1>1, <1>2, <1>3, <1>4, <1>5, <1>6, <1>7, <1>8, <1>9, <1>10
     DEF Next, Caller, Block

LEMMA OrderInvAlways == Spec => []OrderInv
  BY OrderInvInit, OrderInvStep, TypeInvAlways, PTL DEF Spec

\* The array is in order of preference as long as no insertion came between
\* another block's reading of the count and its own insertion.
THEOREM SortedWithoutRaces == Spec => []SortedUnlessRaced
  BY OrderInvAlways, PTL DEF OrderInv
-----------------------------------------------------------------------------
(***************************************************************************)
(* The choice.                                                             *)
(***************************************************************************)
\* Where the blocks can be in each phase, and what they have found out.
Progress ==
  \A p \in Profiles :
    /\ phase = "identity" => pc[p] = "unread"
    /\ phase = "load" => pc[p] \in {"unread", "found", "skipped"}
    /\ phase = "rank" => pc[p] # "unread"
    /\ phase = "done" => pc[p] # "search"
    /\ pc[p] \in {"search", "in"} => Suits(p, identity)
    /\ pc[p] = "out" => ~Suits(p, identity)

\* rank is the score of the profile the identity was picked for.
PickedBest ==
  rank # NSIntegerMax =>
    /\ identity \in Identities \ unseen /\ pickedFor \in Profiles
    /\ Suits(pickedFor, identity) /\ score[pickedFor] = rank

ChoiceInv == Progress /\ PickedBest /\ MatchSuits /\ IdentityFindsProfile

LEMMA ChoiceInvInit == Init => ChoiceInv
  BY DEF Init, ChoiceInv, Progress, PickedBest, MatchSuits, IdentityFindsProfile

LEMMA ChoiceInvStep ==
  TypeInv /\ NothingLost /\ OrderInv /\ ChoiceInv /\ [Next]_vars => ChoiceInv'
<1> SUFFICES ASSUME TypeInv, NothingLost, OrderInv, ChoiceInv, [Next]_vars
             PROVE  ChoiceInv'
  OBVIOUS
<1> USE DEF ChoiceInv, facts, picking
<1>0. /\ satisfying \in Seq(Profiles)
      /\ pc \in [Profiles -> {"unread", "skipped", "found", "search", "in", "out"}]
      /\ match \in Profiles \cup {Nil, Raised}
      /\ \A p \in Profiles : score[p] \in Int
      /\ rank \in Int
  BY RankingAssumption DEF TypeInv, TypeOK, Scores, Rejected, NSIntegerMax
<1>1. CASE Identified \/ Unpicked
  <2>1. UNCHANGED <<facts, expired, picking, pc, search, raced>> /\ phase = "identity"
    BY <1>1 DEF Identified, Unpicked
  <2>2. \/ phase' = "load" /\ UNCHANGED match
        \/ phase' = "done" /\ match' = Raised /\ (identity = Nil \/ unseen = Identities)
    BY <1>1 DEF Identified, Unpicked
  <2>3. Progress' /\ PickedBest'
    BY <2>1, <2>2 DEF Suits, Progress, PickedBest
  <2>4. phase' = "done" => rank' = NSIntegerMax
    BY <2>1, <2>2, NoProfileIsNil DEF PickedBest, NSIntegerMax
  <2> QED
    BY <2>2, <2>3, <2>4, NoProfileIsNil DEF MatchSuits, IdentityFindsProfile, Nil, Raised
<1>2. CASE Loaded
  <2>1. phase = "load" /\ UNCHANGED <<facts, expired, picking, pc, search, raced>>
    BY <1>2 DEF Loaded
  <2>2. Progress' /\ PickedBest'
    BY <1>2, <2>1 DEF Loaded, Suits, Progress, PickedBest
  <2>3. CASE phase' = "rank"
    BY <2>2, <2>3 DEF MatchSuits, IdentityFindsProfile
  <2>4. CASE phase' = "done" /\ match' = Nil /\ \E p \in Profiles : pc[p] = "found"
    <3>1. Refused'
      BY <2>1, <2>4 DEF Refused
    <3> QED
      BY <2>2, <2>4, <3>1, NoProfileIsNil DEF MatchSuits, IdentityFindsProfile
  <2>5. CASE /\ phase' = "done" /\ match' = Raised
             /\ \A p \in Profiles : pc[p] # "found"
    <3>1. \A p \in Profiles : pc'[p] = "skipped"
      BY <1>2, <2>1, <2>5 DEF Loaded, Progress
    <3> QED
      BY <2>2, <2>5, <3>1, NoProfileIsNil
         DEF MatchSuits, IdentityFindsProfile, PickedBest, Nil, Raised
  <2> QED
    BY <1>2, <2>3, <2>4, <2>5 DEF Loaded
<1>3. CASE Ranked
  <2>1. Progress' /\ PickedBest'
    BY <1>3 DEF Ranked, Suits, Progress, PickedBest
  <2>2. CASE satisfying = << >>
    <3>1. match' = Nil /\ Nil \notin Profiles
      BY <1>3, <2>2, NoProfileIsNil DEF Ranked
    <3>2. \A p \in Profiles : pc[p] # "in"
      BY <2>2 DEF NothingLost
    <3>3. MatchSuits'
      BY <1>3, <3>1, <3>2 DEF Ranked, Suits, Progress, MatchSuits
    <3>4. IdentityFindsProfile'
      BY <1>3, <3>2 DEF Ranked, Progress, PickedBest, IdentityFindsProfile
    <3> QED
      BY <2>1, <3>3, <3>4
  <2>3. CASE satisfying # << >>
    <3>1. /\ 1 \in DOMAIN satisfying /\ satisfying[1] \in Profiles
          /\ match' = satisfying[1]
      BY <1>0, <1>3, <2>3 DEF Ranked
    <3>2. pc[match'] = "in" /\ match' \in Profiles /\ match' # Nil
      BY <3>1, NoProfileIsNil DEF NothingLost
    <3>3. MatchSuits'
      BY <1>3, <3>2 DEF Ranked, Suits, Progress, MatchSuits
    <3>4. ASSUME ~raced, rank # NSIntegerMax, pc[pickedFor] # "skipped"
          PROVE  score[match'] <= rank
      <4>1. /\ pickedFor \in Profiles /\ Suits(pickedFor, identity)
            /\ score[pickedFor] = rank
        BY <3>4 DEF PickedBest
      <4>2. pc[pickedFor] = "in"
        BY <1>3, <3>4, <4>1 DEF Ranked, Progress
      <4>3. PICK k \in DOMAIN satisfying : satisfying[k] = pickedFor
        BY <4>1, <4>2 DEF NothingLost
      <4>4. 1 <= k
        BY <1>0, <4>3
      <4> QED
        BY <3>1, <3>4, <4>1, <4>3, <4>4 DEF OrderInv, SortedUnlessRaced, SortedByScore
    <3>5. IdentityFindsProfile'
      BY <1>3, <3>2, <3>4 DEF Ranked, IdentityFindsProfile
    <3> QED
      BY <2>1, <3>3, <3>5
  <2> QED
    BY <2>2, <2>3
<1>4. ASSUME NEW p \in Profiles, Load(p) PROVE ChoiceInv'
  BY <1>0, <1>4
     DEF Load, Suits, Progress, PickedBest, MatchSuits, IdentityFindsProfile
<1>5. ASSUME NEW p \in Profiles, Judge(p) PROVE ChoiceInv'
  BY <1>0, <1>5
     DEF Judge, Suits, Progress, PickedBest, MatchSuits, IdentityFindsProfile
<1>6. ASSUME NEW p \in Profiles, Probe(p) PROVE ChoiceInv'
  BY <1>0, <1>6
     DEF Probe, ProbeWith, Suits, Progress, PickedBest, MatchSuits, IdentityFindsProfile
<1>7. ASSUME NEW p \in Profiles, Insert(p) PROVE ChoiceInv'
  <2>1. phase # "done" /\ phase' = phase
    BY <1>7 DEF Insert, Progress
  <2>2. Progress' /\ PickedBest'
    BY <1>0, <1>7 DEF Insert, Suits, Progress, PickedBest
  <2> QED
    BY <2>1, <2>2 DEF MatchSuits, IdentityFindsProfile
<1>8. ASSUME NEW p \in Profiles, Expire(p) PROVE ChoiceInv'
  <2>1. phase # "done" /\ UNCHANGED <<facts, phase, picking, pc>>
    BY <1>8 DEF Expire
  <2>2. Progress' /\ PickedBest'
    BY <2>1 DEF Suits, Progress, PickedBest
  <2> QED
    BY <2>1, <2>2 DEF MatchSuits, IdentityFindsProfile
<1>9. CASE UNCHANGED vars
  BY <1>9
     DEF vars, search, Suits, Progress, PickedBest, MatchSuits, IdentityFindsProfile,
         Refused
<1>10. ASSUME NEW i \in Identities, Consider(i) PROVE ChoiceInv'
  <2>1. phase = "identity" /\ UNCHANGED <<facts, expired, phase, pc, search, match, raced>>
    BY <1>10 DEF Consider, Picks
  <2>2. Progress'
    BY <2>1 DEF Progress
  <2>3. PickedBest'
    <3>1. PICK listed \in SUBSET (Profiles \ expired) :
                 Picks(i, {p \in listed : Suits(p, i) /\ score[p] < rank})
      BY <1>10 DEF Consider
    <3> QED
      BY <1>0, <3>1 DEF Picks, Suits, PickedBest
  <2> QED
    BY <2>1, <2>2, <2>3 DEF MatchSuits, IdentityFindsProfile
<1> QED
  BY <1>1, <1>2, <1>3, <1>4, <1>5, <1>6, <1>7, <1>8, <1>9, <1>10
     DEF Next, Caller, Block

LEMMA ChoiceInvAlways == Spec => []ChoiceInv
  BY ChoiceInvInit, ChoiceInvStep, TypeInvAlways, NothingIsLost, OrderInvAlways,
     PTL DEF Spec

\* The profile chosen admits the identity on the device and has every
\* entitlement of the application; none is chosen only if no loaded one would
\* do or the app's entitlements could not be read.
THEOREM ChosenSuits == Spec => []MatchSuits
  BY ChoiceInvAlways, PTL DEF ChoiceInv

\* An identity picked by identityForAppBundle gets a profile if the app can be
\* read again and the one it was picked for is listed again, and one at least as
\* good if no insertion raced.
THEOREM PickedIdentityServes == Spec => []IdentityFindsProfile
  BY ChoiceInvAlways, PTL DEF ChoiceInv
=============================================================================
