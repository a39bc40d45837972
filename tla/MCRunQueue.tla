----------------------------- MODULE MCRunQueue -----------------------------
(* RunQueue.tla on a small instance; tasks are interchangeable. *)
EXTENDS RunQueue, TLC

Symmetry == Permutations(Tasks)
=============================================================================
