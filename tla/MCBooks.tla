------------------------------- MODULE MCBooks -------------------------------
(* Values for the constants of Books. *)
EXTENDS Books, TLC

Symmetry == Permutations(Requests)
=============================================================================
