-------------------------- MODULE MCPaymentWebhook --------------------------
(* Values for the constants of PaymentWebhook. *)
EXTENDS PaymentWebhook

CONSTANTS e1, e2, e3, shop, invoicing

TwoEars == <<shop, invoicing>>

(* One event is invoicing's, one is nobody's; the last has no id to be known
   by and is the shop's. *)
OwnerOf ==
  [e \in Events |-> CASE e = e1 -> invoicing [] e = e2 -> NoOne [] e = e3 -> shop]
=============================================================================
