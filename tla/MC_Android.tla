---------------------------- MODULE MC_Android ----------------------------
(* The threads of the service are interchangeable. *)
EXTENDS AndroidVpn, TLC

Symmetry == Permutations(Threads)
=============================================================================
