------------------------------ MODULE MCKernel ------------------------------
(* Kernel.tla on small instances; tasks are interchangeable. *)
EXTENDS KernelProps, TLC

Symmetry == Permutations(Tasks)
=============================================================================
