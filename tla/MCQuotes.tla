------------------------------ MODULE MCQuotes ------------------------------
(* Values for the constants of Quotes. *)
EXTENDS Quotes, TLC

(* Halves, thirds, and a deposit with two stages. *)
SomePlans == {<<5000, 5000>>, <<3333, 3333, 3334>>, <<1000, 4500, 4500>>}

Symmetry == Permutations(Requests)
=============================================================================
