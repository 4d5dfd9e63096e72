---------------------------- MODULE MCResignBundle ----------------------------
(* A framework that may hold a dylib, calabash.dylib, one plug-in that may  *)
(* hold either, and three profiles of two teams.                            *)
EXTENDS ResignBundle, TLC

CONSTANTS t1, t2, q

SomeTeams(p) == IF p = q THEN t2 ELSE t1
Symmetry == Permutations(Objects \ Resources)
=============================================================================
