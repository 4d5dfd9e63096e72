--------------------------- MODULE ProfileRanking ---------------------------
(***************************************************************************)
(* How a provisioning profile is chosen for an application and a device:   *)
(* bestMatchProfileForApplication of Resigning/MobileProfile.m.            *)
(*                                                                         *)
(* An identity is picked first (CodesignIdentity.m), the profiles of the   *)
(* machine being listed anew for each.  Then they are loaded once more,    *)
(* and the loaded ones ranked, each time by                                *)
(* enumerateObjectsWithOptions:NSEnumerationConcurrent: one block for each *)
(* profile, all blocks at once, and a join at the end.  A block of the     *)
(* ranking searches the shared array for its place WITHOUT the lock, one   *)
(* element read at a time, and inserts under the lock; a search that runs  *)
(* beside an insertion reads each slot before or after it.                 *)
(*                                                                         *)
(* A profile is read by a child process, `security cms`, and so is the     *)
(* app, by `codesign`: each time a child may fail or be out of time, which *)
(* drops the profile from that listing alone, or ends the choice.          *)
(***************************************************************************)
EXTENDS Integers, Sequences, FiniteSets

CONSTANTS Profiles,     \* profiles installed, for iOS
          Identities,   \* valid iOS signing identities of the keychain
          MaxScore      \* bound on an entitlements score

ASSUME RankingAssumption == MaxScore \in Nat

Rejected == -1          \* ProfileDoesNotHaveRequiredKey
Scores == Rejected..MaxScore
NSIntegerMax == MaxScore + 1   \* a rank above every score
Nil == "nil"            \* also: no identity was found
Raised == "raised"      \* an exception ends the command

ASSUME NoProfileIsNil == Nil \notin Profiles \cup Identities /\ Raised \notin Profiles

VARIABLES valid,        \* identities a profile admits on the device
          score,        \* the profile's entitlements against the app's
          expired,      \* profiles that have expired
          phase,        \* "identity", "load", "rank" or "done"
          unseen,       \* identities of the keychain not looked at yet
          identity,     \* the identity given, or the best one so far
          rank,         \* and the score it is the best for
          pickedFor,    \* history: the profile that has that score
          pc,           \* where the block of each profile is
          lo, hi,       \* the bounds of each block's binary search
          satisfying,   \* satisfyingProfiles, the shared array
          match,        \* the profile chosen
          raced         \* history: an insertion overtook a running search

facts == <<valid, score>>
picking == <<unseen, identity, rank, pickedFor>>
search == <<lo, hi, satisfying>>
vars == <<facts, expired, phase, picking, pc, search, match, raced>>

\* The identity is looked for, or it is given with --codesign-identity.
Init ==
  /\ valid \in [Profiles -> SUBSET Identities]
  /\ score \in [Profiles -> Scores]
  /\ expired = {}
  /\ \/ phase = "identity" /\ identity = Nil /\ unseen = Identities
     \/ phase = "load" /\ identity \in Identities /\ unseen = {}
  /\ rank = NSIntegerMax
  /\ pickedFor = Nil
  /\ pc = [p \in Profiles |-> "unread"]
  /\ lo = [p \in Profiles |-> 0]
  /\ hi = [p \in Profiles |-> 0]
  /\ satisfying = << >>
  /\ match = Nil
  /\ raced = FALSE

-----------------------------------------------------------------------------
\* isValidForDeviceUDID:identity: and a score that is no rejection.
Suits(p, i) == i \in valid[p] /\ score[p] # Rejected

\* entitlementsWithBundlePath: fails, or the app has none: no identity.
Unpicked ==
  /\ phase = "identity" /\ unseen = Identities
  /\ phase' = "done"
  /\ match' = Raised
  /\ UNCHANGED <<facts, expired, picking, pc, search, raced>>

\* identityForAppBundle:deviceId: looks at each identity with the profiles that
\* could be read at that moment and keeps the first with a profile of lower
\* score than before.
Picks(i, better) ==
  /\ phase = "identity" /\ i \in unseen
  /\ unseen' = unseen \ {i}
  /\ \/ better = {} /\ UNCHANGED <<identity, rank, pickedFor>>
     \/ \E best \in better : /\ \A p \in better : score[best] <= score[p]
                             /\ identity' = i
                             /\ rank' = score[best]
                             /\ pickedFor' = best
  /\ UNCHANGED <<facts, expired, phase, pc, search, match, raced>>

ConsiderRejected(i) == \* variant: a rejected profile counts, with the lowest rank
  \E listed \in SUBSET (Profiles \ expired) :
    Picks(i, {p \in listed : i \in valid[p] /\ score[p] < rank})

Consider(i) ==
  \E listed \in SUBSET (Profiles \ expired) :
    Picks(i, {p \in listed : Suits(p, i) /\ score[p] < rank})

\* CBXThrowExceptionIf(identity, ...) throws when there is none.
Identified ==
  /\ phase = "identity" /\ unseen = {}
  /\ IF identity = Nil
     THEN phase' = "done" /\ match' = Raised
     ELSE phase' = "load" /\ UNCHANGED match
  /\ UNCHANGED <<facts, expired, picking, pc, search, raced>>

\* nonExpiredIOSProfiles: a block reads its profile, which may fail, looks at it
\* and adds it under the lock.
Load(p) ==
  /\ phase = "load" /\ pc[p] = "unread"
  /\ \/ p \notin expired /\ pc' = [pc EXCEPT ![p] = "found"]
     \/ pc' = [pc EXCEPT ![p] = "skipped"]
  /\ UNCHANGED <<facts, expired, phase, picking, search, match, raced>>

\* The join.  rankedProfiles asserts that there are profiles to rank; it reads
\* the app's entitlements, and ranks none when that fails.
Loaded ==
  /\ phase = "load"
  /\ \A p \in Profiles : pc[p] # "unread"
  /\ \/ /\ \E p \in Profiles : pc[p] = "found"
        /\ \/ phase' = "rank" /\ UNCHANGED match
           \/ phase' = "done" /\ match' = Nil
     \/ /\ \A p \in Profiles : pc[p] # "found"
        /\ phase' = "done" /\ match' = Raised
  /\ UNCHANGED <<facts, expired, picking, pc, search, raced>>

\* A block judges its profile and, when it is suitable, reads the count of
\* the shared array.
JudgeUnscored(p) == \* variant: a rejected score is ranked like another
  /\ phase = "rank" /\ pc[p] = "found"
  /\ pc' = [pc EXCEPT ![p] = IF identity \in valid[p] THEN "search" ELSE "out"]
  /\ lo' = [lo EXCEPT ![p] = 0]
  /\ hi' = [hi EXCEPT ![p] = Len(satisfying)]
  /\ UNCHANGED <<facts, expired, phase, picking, satisfying, match, raced>>

JudgeWrongCount(p) == \* variant: the count of mobileProfiles is read
  /\ phase = "rank" /\ pc[p] = "found" /\ Suits(p, identity)
  /\ pc' = [pc EXCEPT ![p] = "search"]
  /\ lo' = [lo EXCEPT ![p] = 0]
  /\ hi' = [hi EXCEPT ![p] = Cardinality({q \in Profiles : pc[q] # "skipped"})]
  /\ UNCHANGED <<facts, expired, phase, picking, satisfying, match, raced>>

Judge(p) ==
  /\ phase = "rank" /\ pc[p] = "found"
  /\ IF Suits(p, identity)
     THEN /\ pc' = [pc EXCEPT ![p] = "search"]
          /\ lo' = [lo EXCEPT ![p] = 0]
          /\ hi' = [hi EXCEPT ![p] = Len(satisfying)]
     ELSE pc' = [pc EXCEPT ![p] = "out"] /\ UNCHANGED <<lo, hi>>
  /\ UNCHANGED <<facts, expired, phase, picking, satisfying, match, raced>>

\* One comparison of indexOfObject:inSortedRange:options:usingComparator: with
\* the middle element.  With NSBinarySearchingInsertionIndex alone an equal
\* element may be passed on either side.
ProbeWith(p, goesRight, goesLeft, above, below) ==
  /\ pc[p] = "search" /\ lo[p] < hi[p]
  /\ \/ goesRight /\ lo' = [lo EXCEPT ![p] = above] /\ UNCHANGED hi
     \/ goesLeft /\ hi' = [hi EXCEPT ![p] = below] /\ UNCHANGED lo
  /\ UNCHANGED <<facts, expired, phase, picking, pc, satisfying, match, raced>>

Middle(p) == (lo[p] + hi[p]) \div 2
Order(p) == score[p] - score[satisfying[Middle(p) + 1]]

ProbeDescending(p) == \* variant: the comparator is reversed
  ProbeWith(p, Order(p) <= 0, Order(p) >= 0, Middle(p) + 1, Middle(p))

ProbeBelow(p) == \* variant: the upper bound is taken to be inclusive
  ProbeWith(p, Order(p) >= 0, Order(p) <= 0, Middle(p) + 1, Middle(p) - 1)

ProbeStuck(p) == \* variant: the lower bound stays on the middle
  ProbeWith(p, Order(p) >= 0, Order(p) <= 0, Middle(p), Middle(p))

Probe(p) ==
  ProbeWith(p, Order(p) >= 0, Order(p) <= 0, Middle(p) + 1, Middle(p))

\* -[NSMutableArray insertObject:atIndex:], which raises beyond the end.
InsertObject(list, x, index) ==
  [k \in 1..(Len(list) + 1) |->
     IF k <= index THEN list[k] ELSE IF k = index + 1 THEN x ELSE list[k - 1]]

InsertOverwriting(p) == \* variant: without the lock the array does not grow
  /\ pc[p] = "search" /\ lo[p] = hi[p]
  /\ satisfying' = IF lo[p] < Len(satisfying) THEN [satisfying EXCEPT ![lo[p] + 1] = p]
                                              ELSE Append(satisfying, p)
  /\ pc' = [pc EXCEPT ![p] = "in"]
  /\ UNCHANGED <<facts, expired, phase, picking, lo, hi, match, raced>>

Insert(p) ==
  /\ pc[p] = "search" /\ lo[p] = hi[p]
  /\ lo[p] <= Len(satisfying)
  /\ satisfying' = InsertObject(satisfying, p, lo[p])
  /\ pc' = [pc EXCEPT ![p] = "in"]
  /\ raced' = (raced \/ \E q \in Profiles : q # p /\ pc[q] = "search")
  /\ UNCHANGED <<facts, expired, phase, picking, lo, hi, match>>

\* The join, and profiles.count ? profiles[0] : nil.
Ranked ==
  /\ phase = "rank"
  /\ \A p \in Profiles : pc[p] \in {"skipped", "in", "out"}
  /\ phase' = "done"
  /\ match' = IF satisfying = << >> THEN Nil ELSE satisfying[1]
  /\ UNCHANGED <<facts, expired, picking, pc, search, raced>>

Expire(p) ==
  /\ phase # "done" /\ p \notin expired
  /\ expired' = expired \cup {p}
  /\ UNCHANGED <<facts, phase, picking, pc, search, match, raced>>

\* The thread that runs the command, and the blocks.
Caller == \/ Unpicked \/ (\E i \in Identities : Consider(i)) \/ Identified
          \/ Loaded \/ Ranked
Block(p) == Load(p) \/ Judge(p) \/ Probe(p) \/ Insert(p)

Next == \/ Caller
        \/ \E p \in Profiles : Block(p) \/ Expire(p)

\* Every block and the caller are scheduled.
Fairness == /\ WF_vars(Caller)
            /\ \A p \in Profiles : WF_vars(Block(p))

Spec == Init /\ [][Next]_vars /\ Fairness

-----------------------------------------------------------------------------
\* The values the variables of the selection range over.
TypeOK ==
  /\ valid \in [Profiles -> SUBSET Identities]
  /\ score \in [Profiles -> Scores]
  /\ expired \in SUBSET Profiles
  /\ phase \in {"identity", "load", "rank", "done"}
  /\ unseen \in SUBSET Identities
  /\ identity \in Identities \cup {Nil}
  /\ rank \in Scores \cup {NSIntegerMax} /\ pickedFor \in Profiles \cup {Nil}
  /\ pc \in [Profiles -> {"unread", "skipped", "found", "search", "in", "out"}]
  /\ lo \in [Profiles -> Nat] /\ hi \in [Profiles -> Nat]
  /\ satisfying \in Seq(Profiles)
  /\ match \in Profiles \cup {Nil, Raised}
  /\ raced \in BOOLEAN

\* However searches and insertions interleave, the shared array holds exactly
\* the profiles whose blocks have inserted, each once: no insertion is lost
\* or overwritten, which is what the lock is for.
NothingLost ==
  /\ \A p \in Profiles : pc[p] = "in" <=> \E k \in DOMAIN satisfying : satisfying[k] = p
  /\ \A j, k \in DOMAIN satisfying : satisfying[j] = satisfying[k] => j = k

\* An index found without the lock, however stale, is still within the array
\* when it is used, so insertObject:atIndex: never raises; and no element
\* read by a search is beyond its end.
IndexInBounds ==
  \A p \in Profiles : pc[p] = "search" => lo[p] <= hi[p] /\ hi[p] <= Len(satisfying)

\* "App %@ has no entitlements, refusing to rank profiles.": the blocks of the
\* loaded profiles never ran.
Refused == phase = "done" /\ \E p \in Profiles : pc[p] = "found"

\* The profile chosen admits the identity on this device and has every
\* entitlement of the application; none is chosen only if no loaded profile
\* would do, or the app's entitlements could not be read.
MatchSuits ==
  phase = "done" =>
    /\ match \in Profiles => Suits(match, identity) /\ pc[match] = "in"
    /\ match = Nil =>
         Refused \/ \A p \in Profiles : pc[p] # "skipped" => ~Suits(p, identity)

\* An identity is picked for the sake of one profile, in a listing that is not
\* kept.  Unless that very profile is missing from the listing that is ranked, or
\* the app cannot be read again, the identity gets a profile; and, if no insertion
\* overtook a search, one at least as good, whatever else the two listings lack.
IdentityFindsProfile ==
  phase = "done" /\ rank # NSIntegerMax /\ pc[pickedFor] # "skipped" /\ ~Refused =>
    match \in Profiles /\ (~raced => score[match] <= rank)

SortedByScore == \A j, k \in DOMAIN satisfying :
                   j <= k => score[satisfying[j]] <= score[satisfying[k]]

\* The array is in order of preference as long as no insertion came between
\* another block's reading of the count and its own insertion.
SortedUnlessRaced == ~raced => SortedByScore

\* "Ranked by most-preferred first": the first profile of the array, the one
\* chosen, has the lowest score of all.
MostPreferredFirst ==
  phase = "done" /\ match \in Profiles =>
    \A p \in Profiles : pc[p] = "in" => score[match] <= score[p]

\* The choice comes to an end: no block waits for another.
ChoiceEnds == <>(phase = "done")
=============================================================================
