------------------------- MODULE MCPhysicalDeviceApps -------------------------
(* Two processes on one device, two versions, two profiles.                  *)
EXTENDS PhysicalDeviceApps, TLC

Symmetry == Permutations(Clients) \cup Permutations(Versions)
              \cup Permutations(Profiles)
=============================================================================
