------------------------------ MODULE MCSignIns ------------------------------
(* Values for the constants of SignIns. *)
EXTENDS SignIns, TLC

Symmetry == Permutations(Attempts)
=============================================================================
