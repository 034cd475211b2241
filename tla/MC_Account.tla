----------------------------- MODULE MC_Account -----------------------------
(* Emails and goroutine slots are interchangeable. *)
EXTENDS Account, TLC

Symmetry == Permutations(Emails) \cup Permutations(Calls)
=============================================================================
