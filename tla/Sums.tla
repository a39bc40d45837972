-------------------------------- MODULE Sums --------------------------------
(***************************************************************************)
(* The sum of a function over a finite set.                                 *)
(***************************************************************************)
EXTENDS Integers, FiniteSets, Functions

\* The members of S, each once.
OrderOf(S) == CHOOSE order \in Bijection(1..Cardinality(S), S) : TRUE

SumOver(S, f) ==
  LET upto[k \in 0..Cardinality(S)] == IF k = 0 THEN 0 ELSE upto[k - 1] + f[OrderOf(S)[k]]
  IN  upto[Cardinality(S)]
=============================================================================
