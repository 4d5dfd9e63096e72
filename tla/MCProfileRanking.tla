-------------------------- MODULE MCProfileRanking --------------------------
(* Three profiles whose blocks race and two identities to pick among       *)
(* (MCProfileRanking.cfg), and the two profiles that are enough to have    *)
(* the order go wrong (MCProfileRankingOrder.cfg).                         *)
EXTENDS ProfileRanking

CONSTANTS p1, p2, p3, i1

\* Which name a profile or an identity has plays no part: the profiles are
\* named by rising score, and the identity given by the user is i1.
NamedByScore == /\ score[p1] <= score[p2] /\ score[p2] <= score[p3]
                /\ identity \in {Nil, i1}

NamedInit == Init /\ NamedByScore
NamedSpec == NamedInit /\ [][Next]_vars /\ Fairness
=============================================================================
