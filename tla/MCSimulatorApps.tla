--------------------------- MODULE MCSimulatorApps ---------------------------
(* Two processes on one simulator (MCSimulatorApps.cfg); one process is     *)
(* enough for the runs that look at a single command.                       *)
EXTENDS SimulatorApps, TLC

Symmetry == Permutations(Clients) \cup Permutations(Versions)
=============================================================================
