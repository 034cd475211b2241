---------------------------- MODULE MC_ProxiedTCP ----------------------------
(* Three connections compete for two dialers, so one request has to wait.  *)
EXTENDS ProxiedTCP, TLC

Symmetry == Permutations(Conns) \cup Permutations(Dialers)
=============================================================================
