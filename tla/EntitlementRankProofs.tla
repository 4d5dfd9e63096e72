------------------------ MODULE EntitlementRankProofs ------------------------
(***************************************************************************)
(* For any entitlements of any finite number of keys: the types, that no   *)
(* sum passes for a rejection, that exact profiles rank first, and that    *)
(* the order of the keys does not matter.                                  *)
(***************************************************************************)
EXTENDS EntitlementRank, FiniteSetTheorems, WellFoundedInduction, TLAPS

Score(k) == Compare(profile[k], app[k])
Agrees(k) == Same(profile[k], app[k])
Compared == AppKeys \ todo

\* Of the keys compared: each exact one counts 1, and one that is not, 100.
Counted ==
  sum # ProfileDoesNotHaveRequiredKey
    => /\ sum >= Cardinality(Compared)
       /\ sum = Cardinality(Compared) <=> \A k \in Compared : Agrees(k)
       /\ done => todo = {}

Inv == TypeOK /\ Counted

\* The comparison of a key of the app: a rejection, 1 exactly for the same
\* value, or at least 100.
LEMMA CompareBounds ==
  ASSUME NEW p \in Values \cup {Absent}, NEW a \in Values
  PROVE  /\ Compare(p, a) \in Nat \cup {ProfileDoesNotHaveRequiredKey}
         /\ Compare(p, a) = ProfileHasKeyExactly <=> Same(p, a)
         /\ Compare(p, a) \in {ProfileDoesNotHaveRequiredKey, ProfileHasKeyExactly}
            \/ Compare(p, a) >= ProfileHasKey
<1> USE DEF ProfileDoesNotHaveRequiredKey, ProfileHasKeyExactly, ProfileHasKey
<1>1. /\ a.type \in Types /\ a.of \in Seq(Strings)
      /\ a.type \in {"string", "number"} => Len(a.of) = 1
  BY RankAssumption
<1>2. CASE p = Absent
  BY <1>1, <1>2 DEF Absent, Compare, Types, Same
<1>3. CASE p \in Values
  <2>1. /\ p.type \in Types /\ p.of \in Seq(Strings)
        /\ p.type \in {"string", "number"} => Len(p.of) = 1
    BY <1>3, RankAssumption
  <2>2. Len(p.of) \in Nat /\ Len(a.of) \in Nat
    BY <1>1, <2>1
  <2>3. CASE p.type = "array" /\ a.type = "array"
    <3>1. Compare(p, a) = CompareArrays(p.of, a.of)
      BY <2>3 DEF Compare
    <3>2. CASE Len(a.of) > Len(p.of)
      <4>1. CompareArrays(p.of, a.of) \in {-1, 100}
        <5>1. ~(Len(a.of) < Len(p.of))
          BY <2>2, <3>2
        <5>2. CompareArrays(p.of, a.of)
                = HasIf(Len(p.of) = 1 /\ p.of[1] \in {Star} \cup TeamStars)
          BY <3>2, <5>1 DEF CompareArrays
        <5> QED
          BY <5>2 DEF HasIf
      <4>2. Len(p.of) # Len(a.of)
        BY <2>2, <3>2
      <4> QED
        BY <3>1, <4>1, <4>2 DEF Same
    <3>3. CASE Len(a.of) < Len(p.of)
      <4> DEFINE d == Len(p.of) - Len(a.of)
      <4>1. d \in Nat /\ d >= 1 /\ Len(p.of) # Len(a.of) /\ ~(Len(a.of) > Len(p.of))
        BY <2>2, <3>3
      <4>2. CompareArrays(p.of, a.of) = d * 100
        BY <3>3, <4>1 DEF CompareArrays
      <4> HIDE DEF d
      <4>3. d * 100 \in Nat /\ d * 100 >= 100
        BY <4>1
      <4>4. Compare(p, a) \in Nat /\ Compare(p, a) >= 100
        BY <3>1, <4>2, <4>3
      <4> QED
        BY <4>1, <4>4 DEF Same
    <3>4. CASE Len(a.of) = Len(p.of)
      BY <2>2, <2>3, <3>1, <3>4 DEF CompareArrays, ExactIf, Same
    <3> QED
      BY <2>2, <3>2, <3>3, <3>4
  <2>4. CASE p.type = a.type /\ a.type \in {"string", "number"}
    <3>1. Compare(p, a) = ExactIf(p.of = a.of)
      BY <2>4 DEF Compare
    <3>2. p.of = a.of <=> Elements(p.of) = Elements(a.of)
      <4>1. /\ p.of = <<p.of[1]>> /\ DOMAIN p.of = {1}
            /\ a.of = <<a.of[1]>> /\ DOMAIN a.of = {1}
        BY <1>1, <2>1, <2>4
      <4> QED
        BY <4>1 DEF Elements
    <3> QED
      BY <1>1, <2>1, <2>4, <3>1, <3>2 DEF ExactIf, Same
  <2>5. CASE p.type # a.type
    BY <1>1, <2>1, <2>5 DEF Compare, HasIf, Same, Types
  <2>6. CASE p.type = "other" /\ a.type = "other"
    BY <2>6 DEF Compare, Same
  <2> QED
    BY <1>1, <2>1, <2>3, <2>4, <2>5, <2>6 DEF Types
<1> QED
  BY <1>2, <1>3

LEMMA InvInit == Init => Inv
<1> SUFFICES ASSUME Init PROVE Inv
  OBVIOUS
<1>1. Compared = {} /\ Cardinality({}) = 0
  BY FS_EmptySet DEF Init, Compared
<1>2. sum = 0 /\ done = FALSE /\ todo = AppKeys
  BY DEF Init
<1>3. Counted
  BY <1>1, <1>2 DEF Counted
<1>4. sum \in Nat /\ sum # ProfileDoesNotHaveRequiredKey
  BY <1>2 DEF ProfileDoesNotHaveRequiredKey
<1>5. TypeOK
  BY <1>2, <1>4 DEF Init, TypeOK
<1> QED
  BY <1>3, <1>5 DEF Inv

LEMMA InvStep == Inv /\ [Next]_vars => Inv'
<1> SUFFICES ASSUME Inv, [Next]_vars PROVE Inv'
  OBVIOUS
<1> USE DEF ProfileDoesNotHaveRequiredKey
<1>0. TypeOK /\ Counted
  BY DEF Inv
<1>1. UNCHANGED <<app, profile>> => UNCHANGED AppKeys
  BY DEF AppKeys
<1>2. CASE UNCHANGED vars
  BY <1>0, <1>1, <1>2 DEF vars, Inv, TypeOK, Counted, Compared, Agrees
<1>3. ASSUME NEW k \in todo, Reject(k), UNCHANGED <<app, profile>> PROVE Inv'
  BY <1>0, <1>1, <1>3 DEF Reject, Inv, TypeOK, Counted
<1>4. ASSUME NEW k \in todo, Add(k), UNCHANGED <<app, profile>>, ~done PROVE Inv'
  <2>1. k \in AppKeys /\ k \notin Compared /\ todo' = todo \ {k}
    BY <1>0, <1>4 DEF TypeOK, Compared, Add
  <2>2. Compared' = Compared \cup {k} /\ AppKeys' = AppKeys
    BY <1>1, <1>4, <2>1 DEF Compared
  <2>3. IsFiniteSet(Compared)
    <3>1. Compared \subseteq Keys
      BY DEF Compared, AppKeys
    <3> QED
      BY <3>1, RankAssumption, FS_Subset
  <2>4. Cardinality(Compared') = Cardinality(Compared) + 1 /\ Cardinality(Compared) \in Nat
    BY <2>1, <2>2, <2>3, FS_AddElement, FS_CardinalityType
  <2>5. app[k] \in Values /\ profile[k] \in Values \cup {Absent}
    BY <1>0, <2>1 DEF TypeOK, AppKeys
  <2>6. sum \in Nat /\ sum' = sum + Score(k) /\ Score(k) # -1
    BY <1>0, <1>4 DEF TypeOK, Add, Score
  <2>7. /\ Score(k) \in Nat
        /\ \/ Score(k) = 1 /\ Agrees(k)
           \/ Score(k) >= 100 /\ ~Agrees(k)
    BY <2>5, <2>6, CompareBounds DEF Score, Agrees, ProfileHasKeyExactly, ProfileHasKey
  <2>8. \A x \in Keys : Agrees(x)' <=> Agrees(x)
    BY <1>4 DEF Agrees
  <2>9. (\A x \in Compared' : Agrees(x)') <=> (\A x \in Compared : Agrees(x)) /\ Agrees(k)
    BY <2>1, <2>2, <2>8 DEF Compared, AppKeys
  <2>10. Counted'
    <3>1. /\ sum >= Cardinality(Compared)
          /\ sum = Cardinality(Compared) <=> \A x \in Compared : Agrees(x)
      BY <1>0, <2>6 DEF Counted
    <3>2. sum' >= Cardinality(Compared')
      BY <2>4, <2>6, <2>7, <3>1
    <3>3. sum' = Cardinality(Compared') <=> sum = Cardinality(Compared) /\ Agrees(k)
      BY <2>4, <2>6, <2>7, <3>1
    <3> QED
      BY <1>4, <2>9, <3>1, <3>2, <3>3 DEF Counted, Add
  <2>11. TypeOK'
    BY <1>0, <1>4, <2>2, <2>6, <2>7 DEF TypeOK, Add
  <2> QED
    BY <2>10, <2>11 DEF Inv
<1>5. ASSUME Return, UNCHANGED <<app, profile>> PROVE Inv'
  BY <1>0, <1>1, <1>5 DEF Return, Inv, TypeOK, Counted, Compared, Agrees
<1> QED
  BY <1>2, <1>3, <1>4, <1>5 DEF Next

LEMMA Always == Spec => []Inv
  BY InvInit, InvStep, PTL DEF Spec

-----------------------------------------------------------------------------
\* A rank is a count or the one number that stands for a rejection, and it is
\* the latter only when the loop has ended on it.
THEOREM RankTypes == Spec => []TypeOK
<1>1. Inv => TypeOK
  BY DEF Inv
<1> QED
  BY <1>1, Always, PTL

\* No number of keys that agree makes up for one that does not: profiles with
\* exactly the app's entitlements rank before all others.
THEOREM ExactFirst == Spec => []ExactRanksFirst
<1>1. Inv => ExactRanksFirst
  BY DEF Inv, Counted, ExactRanksFirst, Compared, Agrees
<1> QED
  BY <1>1, Always, PTL

-----------------------------------------------------------------------------
(***************************************************************************)
(* Sums over finite sets, by induction on their size: a set of natural     *)
(* numbers that is not all of them would lack a least one.                 *)
(***************************************************************************)
\* Induction on a set of natural numbers.
LEMMA SetInduction ==
  ASSUME NEW T \in SUBSET Nat, 0 \in T, \A n \in T : n + 1 \in T
  PROVE  T = Nat
<1>1. SUFFICES ASSUME Nat \ T # {} PROVE FALSE
  OBVIOUS
<1>2. \E R : IsWellFoundedOn(R, Nat) /\ \A i, j \in Nat : i < j => <<i, j>> \in R
  <2> DEFINE R == OpToRel(<, Nat)
  <2>1. IsWellFoundedOn(R, Nat)
    BY NatLessThanWellFounded, Zenon
  <2>2. R = {ij \in Nat \X Nat : ij[1] < ij[2]}
    BY DEF OpToRel
  <2> HIDE DEF R
  <2> QED
    BY <2>1, <2>2
<1>3. PICK R : IsWellFoundedOn(R, Nat) /\ \A i, j \in Nat : i < j => <<i, j>> \in R
  BY <1>2
<1>4. PICK m \in Nat \ T : \A k \in Nat \ T : ~(<<k, m>> \in R)
  BY <1>1, <1>3, WFMin
<1>5. m # 0 /\ m - 1 \in Nat /\ m - 1 < m /\ (m - 1) + 1 = m
  BY <1>4
<1>6. m - 1 \in T
  BY <1>3, <1>4, <1>5
<1> QED
  BY <1>4, <1>5, <1>6

Some(s) == CHOOSE x \in s : TRUE

\* g sums up score over each subset of S, taking out one element at a time.
Sums(g, score, S) ==
  \A s \in SUBSET S :
    g[s] = IF s = {} THEN 0 ELSE score[Some(s)] + g[s \ {Some(s)}]

LEMMA SomeIn ==
  ASSUME NEW s, s # {}
  PROVE  Some(s) \in s
  BY DEF Some

\* What leaves a finite set leaves one element less.
LEMMA Smaller ==
  ASSUME NEW S, IsFiniteSet(S), NEW s \in SUBSET S
  PROVE  /\ IsFiniteSet(s) /\ Cardinality(s) \in Nat
         /\ s = {} <=> Cardinality(s) = 0
         /\ \A x \in s : Cardinality(s \ {x}) = Cardinality(s) - 1
<1>1. IsFiniteSet(s)
  BY FS_Subset
<1> QED
  BY <1>1, FS_CardinalityType, FS_EmptySet, FS_RemoveElement

LEMMA SumsExist ==
  ASSUME NEW S, IsFiniteSet(S), NEW score \in [S -> Int]
  PROVE  \E g \in [SUBSET S -> Int] : Sums(g, score, S)
<1> DEFINE Step(g, s) == IF s = {} THEN 0 ELSE score[Some(s)] + g[s \ {Some(s)}]
           UpTo(n) == {s \in SUBSET S : Cardinality(s) <= n}
           T == {n \in Nat : \E g \in [SUBSET S -> Int] :
                               \A s \in UpTo(n) : g[s] = Step(g, s)}
<1>1. \A g \in [SUBSET S -> Int], s \in SUBSET S : Step(g, s) \in Int
  BY SomeIn
<1>2. 0 \in T
  <2> DEFINE g == [s \in SUBSET S |-> 0]
  <2>1. g \in [SUBSET S -> Int] /\ \A s \in SUBSET S : g[s] = 0
    OBVIOUS
  <2>2. \A s \in UpTo(0) : s = {}
    BY Smaller
  <2>3. \A s \in UpTo(0) : g[s] = Step(g, s)
    BY <2>1, <2>2
  <2> HIDE DEF g, Step, UpTo
  <2> QED
    BY <2>1, <2>3
<1>3. ASSUME NEW n \in T PROVE n + 1 \in T
  <2>1. PICK g \in [SUBSET S -> Int] : \A s \in UpTo(n) : g[s] = Step(g, s)
    BY <1>3
  <2> DEFINE h == [s \in SUBSET S |-> Step(g, s)]
  <2>2. h \in [SUBSET S -> Int] /\ \A s \in SUBSET S : h[s] = Step(g, s)
    BY <1>1, <2>1
  <2>3. ASSUME NEW s \in UpTo(n + 1) PROVE h[s] = Step(h, s)
    <3>1. CASE s = {}
      BY <2>2, <2>3, <3>1
    <3>2. CASE s # {}
      <4> DEFINE r == s \ {Some(s)}
      <4>1. r \in SUBSET S /\ Cardinality(r) <= n
        BY <2>3, <3>2, SomeIn, Smaller
      <4>2. h[r] = g[r]
        BY <2>1, <2>2, <4>1
      <4> QED
        BY <2>2, <2>3, <3>2, <4>2
    <3> QED
      BY <3>1, <3>2
  <2> HIDE DEF h, Step, UpTo
  <2> QED
    BY <2>2, <2>3
<1>4. Cardinality(S) \in T
  <2> HIDE DEF T
  <2>1. T \subseteq Nat
    BY DEF T
  <2>2. T = Nat
    BY <1>2, <1>3, <2>1, SetInduction
  <2> QED
    BY <2>2, FS_CardinalityType
<1>5. \A s \in SUBSET S : s \in UpTo(Cardinality(S))
  BY FS_Subset
<1> QED
  BY <1>4, <1>5 DEF Sums

\* Whichever element is taken out first, the sum is the same.
LEMMA SumsTakeAny ==
  ASSUME NEW S, IsFiniteSet(S), NEW score \in [S -> Int], NEW g, Sums(g, score, S)
  PROVE  \A s \in SUBSET S : /\ g[s] \in Int
                             /\ s = {} => g[s] = 0
                             /\ \A x \in s : g[s] = score[x] + g[s \ {x}]
<1> DEFINE Good(s) == /\ g[s] \in Int
                      /\ s = {} => g[s] = 0
                      /\ \A x \in s : g[s] = score[x] + g[s \ {x}]
           T == {n \in Nat : \A s \in SUBSET S : Cardinality(s) <= n => Good(s)}
<1>1. 0 \in T
  <2>1. ASSUME NEW s \in SUBSET S, Cardinality(s) <= 0 PROVE Good(s)
    <3>1. s = {}
      BY <2>1, Smaller
    <3> QED
      BY <3>1 DEF Sums
  <2> QED
    BY <2>1
<1>2. ASSUME NEW n \in T PROVE n + 1 \in T
  <2>1. ASSUME NEW s \in SUBSET S, Cardinality(s) <= n + 1 PROVE Good(s)
    <3>1. CASE s = {}
      BY <3>1 DEF Sums
    <3>2. CASE s # {}
      <4> DEFINE e == Some(s)
      <4>1. e \in s /\ e \in S
        BY <3>2, SomeIn
      <4>2. g[s] = score[e] + g[s \ {e}]
        BY <3>2 DEF Sums
      <4> HIDE DEF e
      <4>3. \A x \in s : Cardinality(s \ {x}) <= n /\ s \ {x} \in SUBSET S
        BY <2>1, Smaller
      <4>4. \A x \in s : Good(s \ {x})
        BY <1>2, <4>3
      <4>5. g[s] \in Int
        BY <4>1, <4>2, <4>4
      <4>6. ASSUME NEW x \in s PROVE g[s] = score[x] + g[s \ {x}]
        <5>1. CASE x = e
          BY <4>2, <5>1
        <5>2. CASE x # e
          <6>1. x \in s \ {e} /\ e \in s \ {x}
            BY <4>1, <5>2
          <6>2. g[s \ {e}] = score[x] + g[(s \ {e}) \ {x}]
            BY <4>1, <4>4, <6>1
          <6>3. g[s \ {x}] = score[e] + g[(s \ {x}) \ {e}]
            BY <4>4, <6>1
          <6>4. (s \ {e}) \ {x} = (s \ {x}) \ {e}
            OBVIOUS
          <6>5. g[(s \ {e}) \ {x}] \in Int
            <7> DEFINE r == s \ {e}
            <7>1. r \in SUBSET S /\ Cardinality(r) <= n /\ x \in r
              BY <4>1, <4>3, <6>1
            <7>2. Cardinality(r \ {x}) = Cardinality(r) - 1 /\ Cardinality(r) \in Nat
              BY <7>1, Smaller
            <7>3. Cardinality(r \ {x}) <= n /\ r \ {x} \in SUBSET S
              BY <1>2, <7>1, <7>2
            <7> HIDE DEF r
            <7>4. Good(r \ {x})
              BY <1>2, <7>3
            <7> QED
              BY <7>4 DEF r
          <6>6. score[e] \in Int /\ score[x] \in Int
            BY <4>1
          <6>7. g[(s \ {x}) \ {e}] = g[(s \ {e}) \ {x}]
            BY <6>4
          <6> HIDE DEF Good
          <6> QED
            BY <4>2, <6>2, <6>3, <6>5, <6>6, <6>7
        <5> QED
          BY <5>1, <5>2
      <4> QED
        BY <3>2, <4>5, <4>6
    <3> QED
      BY <3>1, <3>2
  <2> HIDE DEF Good
  <2> QED
    BY <1>2, <2>1
<1>3. Cardinality(S) \in T
  <2> HIDE DEF T
  <2>1. T \subseteq Nat
    BY DEF T
  <2>2. T = Nat
    BY <1>1, <1>2, <2>1, SetInduction
  <2> QED
    BY <2>2, FS_CardinalityType
<1>4. \A s \in SUBSET S : Cardinality(s) <= Cardinality(S)
  BY FS_Subset
<1> QED
  BY <1>3, <1>4

LEMMA SumsGrow ==
  ASSUME NEW S, IsFiniteSet(S), NEW score \in [S -> Int], NEW g, Sums(g, score, S),
         NEW s \in SUBSET S, NEW x \in S \ s
  PROVE  g[s \cup {x}] = score[x] + g[s] /\ g[s] \in Int
<1> DEFINE r == s \cup {x}
<1>1. r \in SUBSET S /\ x \in r /\ r \ {x} = s
  OBVIOUS
<1> HIDE DEF r
<1>2. g[r] = score[x] + g[r \ {x}] /\ g[s] \in Int
  BY <1>1, SumsTakeAny
<1> QED
  BY <1>1, <1>2 DEF r

-----------------------------------------------------------------------------
Scores == [k \in AppKeys |-> Score(k)]

\* So far the rank is the sum over the keys compared, however it is made, and no
\* key compared rejects the profile; a rejection has a key that does.
Tallied ==
  /\ sum # ProfileDoesNotHaveRequiredKey
       => /\ \A g : Sums(g, Scores, AppKeys) => sum = g[Compared]
          /\ \A k \in Compared : Score(k) # ProfileDoesNotHaveRequiredKey
  /\ sum = ProfileDoesNotHaveRequiredKey
       => \E k \in AppKeys : Score(k) = ProfileDoesNotHaveRequiredKey

LEMMA ScoresType ==
  ASSUME TypeOK
  PROVE  IsFiniteSet(AppKeys) /\ Scores \in [AppKeys -> Int]
<1>1. AppKeys \subseteq Keys
  BY DEF AppKeys
<1>2. IsFiniteSet(AppKeys)
  BY <1>1, RankAssumption, FS_Subset
<1>3. ASSUME NEW k \in AppKeys PROVE Score(k) \in Int
  <2>1. app[k] \in Values /\ profile[k] \in Values \cup {Absent}
    BY DEF TypeOK, AppKeys
  <2> QED
    BY <2>1, CompareBounds DEF Score, ProfileDoesNotHaveRequiredKey
<1> QED
  BY <1>2, <1>3 DEF Scores

LEMMA TalliedInit == Init => Tallied
<1> SUFFICES ASSUME Init PROVE Tallied
  OBVIOUS
<1>1. sum = 0 /\ Compared = {}
  BY DEF Init, Compared
<1>2. \A g : Sums(g, Scores, AppKeys) => g[{}] = 0
  BY DEF Sums
<1> QED
  BY <1>1, <1>2 DEF Tallied, ProfileDoesNotHaveRequiredKey

LEMMA TalliedStep == Inv /\ Tallied /\ [Next]_vars => Tallied'
<1> SUFFICES ASSUME Inv, Tallied, [Next]_vars PROVE Tallied'
  OBVIOUS
<1>0. TypeOK /\ UNCHANGED <<app, profile>>
  BY DEF Inv, Next, vars
<1>1. UNCHANGED AppKeys
  BY <1>0 DEF AppKeys
<1>2. \A k : Score(k)' = Score(k)
  BY <1>0 DEF Score
<1>3. UNCHANGED Scores
  BY <1>1, <1>2 DEF Scores
<1>4. CASE UNCHANGED <<sum, todo>>
  BY <1>1, <1>2, <1>3, <1>4 DEF Tallied, Compared
<1>5. ASSUME NEW k \in todo, Reject(k) PROVE Tallied'
  <2>1. k \in AppKeys /\ Score(k) = ProfileDoesNotHaveRequiredKey
    BY <1>0, <1>5 DEF TypeOK, Reject, Score
  <2>2. sum' = ProfileDoesNotHaveRequiredKey
    BY <1>5 DEF Reject
  <2> QED
    BY <1>1, <1>2, <2>1, <2>2 DEF Tallied
<1>6. ASSUME NEW k \in todo, Add(k), ~done PROVE Tallied'
  <2>1. k \in AppKeys /\ k \notin Compared /\ todo' = todo \ {k}
    BY <1>0, <1>6 DEF TypeOK, Compared, Add
  <2>2. Compared' = Compared \cup {k}
    BY <1>1, <2>1 DEF Compared
  <2>3. /\ sum # ProfileDoesNotHaveRequiredKey /\ sum' = sum + Score(k)
        /\ Score(k) # ProfileDoesNotHaveRequiredKey
    BY <1>0, <1>6 DEF TypeOK, Add, Score
  <2>4. ASSUME NEW g, Sums(g, Scores, AppKeys) PROVE sum' = g[Compared']
    <3>1. Compared \in SUBSET AppKeys /\ k \in AppKeys \ Compared
      BY <2>1 DEF Compared
    <3>2. g[Compared \cup {k}] = Scores[k] + g[Compared] /\ g[Compared] \in Int
      <4>1. IsFiniteSet(AppKeys) /\ Scores \in [AppKeys -> Int]
        BY <1>0, ScoresType
      <4> QED
        BY <2>4, <3>1, <4>1, SumsGrow, Zenon
    <3>3. Scores[k] = Score(k) /\ Scores[k] \in Int
      BY <1>0, <2>1, ScoresType DEF Scores
    <3>4. sum = g[Compared]
      BY <2>3, <2>4 DEF Tallied
    <3> QED
      BY <2>2, <2>3, <3>2, <3>3, <3>4
  <2>5. \A x \in Compared' : Score(x)' # ProfileDoesNotHaveRequiredKey
    BY <1>2, <2>2, <2>3 DEF Tallied
  <2>6. sum' # ProfileDoesNotHaveRequiredKey
    <3>1. TypeOK' /\ done' = FALSE
      BY <1>6, InvStep DEF Inv, Add
    <3> QED
      BY <3>1 DEF TypeOK
  <2>7. \A g : Sums(g, Scores', AppKeys') => sum' = g[Compared']
    BY <1>1, <1>3, <2>4
  <2> QED
    BY <2>5, <2>6, <2>7 DEF Tallied
<1> QED
  BY <1>4, <1>5, <1>6 DEF Next, Return, vars

\* What the fold over the keys of the app means.
LEMMA FoldIsSum ==
  ASSUME TypeOK
  PROVE  \E g : /\ Sums(g, Scores, AppKeys)
                /\ MapThenSumSet(Score, AppKeys) = g[AppKeys]
<1> DEFINE P(h) == h = [s \in SUBSET AppKeys |->
                          IF s = {} THEN 0 ELSE Score(Some(s)) + h[s \ {Some(s)}]]
           F == CHOOSE h : P(h)
<1>1. MapThenSumSet(Score, AppKeys) = F[AppKeys]
  BY Zenon DEF MapThenSumSet, MapThenFoldSet, Some
<1>2. \A s \in SUBSET AppKeys : s # {} => Scores[Some(s)] = Score(Some(s))
  BY SomeIn DEF Scores
<1>3. \E h : P(h)
  <2>0. IsFiniteSet(AppKeys) /\ Scores \in [AppKeys -> Int]
    BY ScoresType
  <2>1. PICK g \in [SUBSET AppKeys -> Int] : Sums(g, Scores, AppKeys)
    BY <2>0, SumsExist
  <2>2. P(g)
    BY <1>2, <2>1 DEF Sums
  <2> QED
    BY <2>2
<1>4. P(F)
  <2> HIDE DEF P
  <2> QED
    BY <1>3, Zenon
<1> HIDE DEF F
<1>5. Sums(F, Scores, AppKeys)
  BY <1>2, <1>4 DEF Sums
<1> QED
  BY <1>1, <1>5

\* The rank of a profile is that of its comparisons, in whatever order the
\* dictionary gives the keys: -1 exactly when some key rejects the profile, as
\* the loop ends there with -1 for a rank, and otherwise the sum over all keys.
THEOREM OrderOfKeysIsIrrelevant == Spec => []RankIsOfNoOrder
<1>1. Inv /\ Tallied => RankIsOfNoOrder
  <2> SUFFICES ASSUME Inv, Tallied, done PROVE RankIsOfNoOrder
    BY DEF RankIsOfNoOrder
  <2>1. PICK g : /\ Sums(g, Scores, AppKeys)
                 /\ MapThenSumSet(Score, AppKeys) = g[AppKeys]
    BY FoldIsSum DEF Inv
  <2>2. CASE sum = ProfileDoesNotHaveRequiredKey
    BY <2>2 DEF Tallied, RankIsOfNoOrder, Score
  <2>3. CASE sum # ProfileDoesNotHaveRequiredKey
    <3>1. Compared = AppKeys
      BY <2>3 DEF Inv, Counted, Compared
    <3>2. sum = MapThenSumSet(Score, AppKeys)
      BY <2>1, <2>3, <3>1 DEF Tallied
    <3>3. \A k \in AppKeys : Score(k) # ProfileDoesNotHaveRequiredKey
      BY <2>3, <3>1 DEF Tallied
    <3> QED
      BY <3>2, <3>3, Zenon DEF RankIsOfNoOrder, Score
  <2> QED
    BY <2>2, <2>3
<1> QED
  BY <1>1, Always, TalliedInit, TalliedStep, PTL DEF Spec
=============================================================================
