-------------------------- MODULE MCDataContainers --------------------------
(* One bundle of the user, one path to download to, one file name.         *)
EXTENDS DataContainers, TLC

\* Processes differ in nothing but their names, values in nothing at all.
Symmetry == Permutations(Clients) \cup Permutations(Values)
=============================================================================
