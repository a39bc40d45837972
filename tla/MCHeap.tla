------------------------------- MODULE MCHeap -------------------------------
(***************************************************************************)
(* Two usable regions of 2 and 1 pages, unaligned, with a reserved one      *)
(* between them.                                                            *)
(***************************************************************************)
EXTENDS Heap, TLC

MCMemmap ==
  << [base |-> 32, length |-> 50, type |-> "usable"],
     [base |-> 82, length |-> 18, type |-> "reserved"],
     [base |-> 100, length |-> 36, type |-> "usable"] >>

MCArrays == {<<1, 2>>, <<64, 2>>}

Callers == Permutations(Ids)
=============================================================================
