--------------------------- MODULE EntitlementRank ---------------------------
(***************************************************************************)
(* The rank of a profile for an app, Resigning/Entitlements.m, from the    *)
(* comparison of their entitlements key by key, Resigning/Entitlement.m.   *)
(* ProfileRanking takes the rank as the score of the profile.              *)
(*                                                                         *)
(* A value has a type and the strings in it: one for a string or a number, *)
(* any sequence for an array.  The keys come in no particular order.       *)
(***************************************************************************)
EXTENDS Integers, Sequences, FiniteSets, FiniteSetsExt

CONSTANTS Keys, Strings,
          Star,        \* the string *
          TeamStars,   \* strings of 12 characters that end in *
          Values       \* of entitlements

Types == {"array", "string", "number", "other"}

ASSUME RankAssumption ==
  /\ IsFiniteSet(Keys)
  /\ Star \in Strings /\ TeamStars \subseteq Strings
  /\ \A v \in Values : /\ v.type \in Types /\ v.of \in Seq(Strings)
                       /\ v.type \in {"string", "number"} => Len(v.of) = 1

Absent == [type |-> "absent", of |-> <<>>]   \* nil

VARIABLES app, profile,   \* the entitlements of both
          todo,           \* keys of the app still to compare
          sum, done

vars == <<app, profile, todo, sum, done>>

-----------------------------------------------------------------------------
(***************************************************************************)
(* EntitlementComparisonResult, and                                        *)
(* +compareProfileEntitlement:appEntitlement: of the values p and a.       *)
(***************************************************************************)
ProfileDoesNotHaveRequiredKey == -1
AppNorProfileHasKey           == 0
ProfileHasKeyExactly          == 1
ProfileHasKey                 == 100
ProfileHasUnRequiredKey       == 1000

Elements(s) == {s[i] : i \in DOMAIN s}

HasIf(condition) == IF condition THEN ProfileHasKey ELSE ProfileDoesNotHaveRequiredKey
ExactIf(condition) == IF condition THEN ProfileHasKeyExactly ELSE ProfileHasKey

CompareArraysByCount(p, a) == \* variant: as many items are the same items
  CASE Len(a) > Len(p) -> HasIf(Len(p) = 1 /\ p[1] \in {Star} \cup TeamStars)
    [] Len(a) < Len(p) -> (Len(p) - Len(a)) * ProfileHasKey
    [] OTHER -> ProfileHasKeyExactly

\* "Prefer less entitlements": each item too many costs a ProfileHasKey.
CompareArrays(p, a) ==
  CASE Len(a) > Len(p) -> HasIf(Len(p) = 1 /\ p[1] \in {Star} \cup TeamStars)
    [] Len(a) < Len(p) -> (Len(p) - Len(a)) * ProfileHasKey
    [] OTHER -> ExactIf(Elements(p) = Elements(a))

\* Combinations of types not named are no match.
Compare(p, a) ==
  LET types == <<p.type, a.type>> IN
  CASE types = <<"absent", "absent">> -> AppNorProfileHasKey
    [] a.type = "absent" /\ p.type # "absent" -> ProfileHasUnRequiredKey
    [] types = <<"array", "array">>   -> CompareArrays(p.of, a.of)
    [] types = <<"string", "array">>  -> HasIf(p.of = <<Star>>)
    [] types \in {<<"string", "string">>, <<"number", "number">>} -> ExactIf(p.of = a.of)
    [] types = <<"array", "string">>  ->
         HasIf(a.of # <<Star>> /\ Elements(a.of) \subseteq Elements(p.of))
    [] OTHER -> ProfileDoesNotHaveRequiredKey

-----------------------------------------------------------------------------
(***************************************************************************)
(* +rankByComparingProfileEntitlements:appEntitlements:                    *)
(***************************************************************************)
AppKeys == {k \in Keys : app[k] # Absent}

\* An app without entitlements is not ranked.
Init ==
  /\ app \in [Keys -> Values \cup {Absent}] /\ AppKeys # {}
  /\ profile \in [Keys -> Values \cup {Absent}]
  /\ todo = AppKeys
  /\ sum = 0 /\ done = FALSE

RejectAsFar(k) == \* variant: the loop ends with the sum so far
  /\ Compare(profile[k], app[k]) = ProfileDoesNotHaveRequiredKey
  /\ done' = TRUE
  /\ UNCHANGED <<todo, sum>>

RejectAdding(k) == \* variant: the rejection is one more summand
  /\ Compare(profile[k], app[k]) = ProfileDoesNotHaveRequiredKey
  /\ sum' = sum + ProfileDoesNotHaveRequiredKey
  /\ todo' = todo \ {k}
  /\ UNCHANGED done

\* A key that is missing ends the loop with the rank that says so.
Reject(k) ==
  /\ Compare(profile[k], app[k]) = ProfileDoesNotHaveRequiredKey
  /\ sum' = ProfileDoesNotHaveRequiredKey
  /\ done' = TRUE
  /\ UNCHANGED todo

Add(k) ==
  /\ Compare(profile[k], app[k]) # ProfileDoesNotHaveRequiredKey
  /\ sum' = sum + Compare(profile[k], app[k])
  /\ todo' = todo \ {k}
  /\ UNCHANGED done

Return == todo = {} /\ done' = TRUE /\ UNCHANGED <<todo, sum>>

Next ==
  /\ ~done
  /\ (\E k \in todo : Reject(k) \/ Add(k)) \/ Return
  /\ UNCHANGED <<app, profile>>

Spec == Init /\ [][Next]_vars
-----------------------------------------------------------------------------
\* The entitlements, the keys left and the sum are of their types.
TypeOK ==
  /\ app \in [Keys -> Values \cup {Absent}] /\ profile \in [Keys -> Values \cup {Absent}]
  /\ todo \subseteq AppKeys
  /\ sum \in Nat \cup {ProfileDoesNotHaveRequiredKey} /\ done \in BOOLEAN
  /\ sum = ProfileDoesNotHaveRequiredKey => done

\* The rank does not depend on the order in which the dictionary gives its keys:
\* a profile is rejected exactly when some key of the app rejects it, however
\* much the others add, and else has the sum of its comparisons.
RankIsOfNoOrder ==
  LET Score(k) == Compare(profile[k], app[k])
      rejected == \E k \in AppKeys : Score(k) = ProfileDoesNotHaveRequiredKey
  IN done => sum = IF rejected THEN ProfileDoesNotHaveRequiredKey
                               ELSE MapThenSumSet(Score, AppKeys)

\* The same entitlement: arrays may differ in the order of their items.
Same(p, a) == /\ p.type = a.type /\ p.type \in {"array", "string", "number"}
              /\ Len(p.of) = Len(a.of) /\ Elements(p.of) = Elements(a.of)

\* Of the profiles that are not rejected, those with exactly the app's value
\* for each of its keys have the least rank, and no other has it: however many
\* keys agree, one that does not outweighs them.
ExactRanksFirst ==
  done /\ sum # ProfileDoesNotHaveRequiredKey
    => /\ sum >= Cardinality(AppKeys)
       /\ sum = Cardinality(AppKeys) <=> \A k \in AppKeys : Same(profile[k], app[k])
=============================================================================
