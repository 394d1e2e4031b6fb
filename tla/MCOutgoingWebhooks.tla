------------------------- MODULE MCOutgoingWebhooks -------------------------
(* Values for the constants of OutgoingWebhooks. *)
EXTENDS OutgoingWebhooks, TLC

(* The endpoint wants every event: the others are never read for it. *)
All == [h \in Hooks |-> Events]

OneRetry == <<1>>

Symmetry == Permutations(Sweeps)
=============================================================================
