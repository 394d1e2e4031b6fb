--------------------------- MODULE MCInvoiceBooks ---------------------------
(* Values for the constants of InvoiceBooks, one definition per choice. *)
EXTENDS InvoiceBooks, TLC

OneCustomer == [i \in Invoices |-> CHOOSE c \in Customers : TRUE]
AtPar == [i \in Invoices |-> RATE_SCALE]
ForeignAtOneAndAHalf ==
  [i \in Invoices |-> IF i \in Foreign THEN 1500000 ELSE RATE_SCALE]
NoOffer == [i \in Invoices |-> 0]
OfferOfOne == [i \in Invoices |-> 1]

Symmetry == Permutations(Requests) \cup Permutations(Notes)
(* Where no constant tells one invoice from another. *)
InvoiceSymmetry == Symmetry \cup Permutations(Invoices)
=============================================================================
