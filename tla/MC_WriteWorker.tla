--------------------------- MODULE MC_WriteWorker ---------------------------
(* Two connections share a worker whose queue holds two tasks.              *)
EXTENDS WriteWorker_proof, TLC

Symmetry == Permutations(Conns) \cup Permutations(Closers)
=============================================================================
