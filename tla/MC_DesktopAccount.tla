-------------------------- MODULE MC_DesktopAccount --------------------------
(* Emails, campaigns and slots are interchangeable. *)
EXTENDS DesktopAccount, TLC

Symmetry == Permutations(Emails) \cup Permutations(Calls) \cup Permutations(Campaigns)
=============================================================================
