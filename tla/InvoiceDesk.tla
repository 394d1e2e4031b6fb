---------------------------- MODULE InvoiceDesk ----------------------------
(***************************************************************************)
(* What the invoicing handlers promise together: however many requests are *)
(* open, each one that touches issued money has the effect it would have   *)
(* had alone, decided on the tables as they stand.  InvoiceBooks, whose    *)
(* handlers decide on what they read some steps ago, implements this.      *)
(*                                                                         *)
(* Two things are left loose because the code leaves them loose: work on   *)
(* drafts, which may go by an old reading so long as it never reaches      *)
(* money, and the late fee, which the sweep charges on an old reading.     *)
(***************************************************************************)
EXTENDS InvoiceTables

(* Drafts written, copied, edited and merged, documents filed and restored:
   nothing that has been issued changes but its place in the lists. *)
DraftWork ==
  /\ \A i \in Invoices :
       /\ status'[i] # status[i] => status[i] = "none" /\ status'[i] = "draft"
       /\ total'[i] # total[i] => status'[i] = "draft"
  /\ status' \in [Invoices -> Statuses] /\ total' \in [Invoices -> Nat]
  /\ billed' \in [Invoices -> Nat] /\ filed' \in [Invoices -> BOOLEAN]
  /\ mergedFrom' \in [Invoices -> SUBSET Invoices]
  /\ UNCHANGED <<taken, fee, paid, everPaid, note, customerVars, ledgerVars>>

PayAtDesk(i) ==
  /\ status[i] \in Settling
  /\ \E amount \in Amounts, discounted \in BOOLEAN, rate \in RatesOn(i) :
       Pay(i, Figures(i), amount, discounted, rate)

SpendCreditAtDesk(i) ==
  /\ status[i] \in Settling
  /\ ApplyCredit(i, Figures(i), credit[CustomerOf[i]])

CreditAtDesk(i, n) ==
  /\ status[i] \in Settling
  /\ \E amount \in Amounts \cup {total[i]} :
       RaiseCreditNote(i, n, Figures(i), amount)

(* Only an invoice nothing has settled is voided. *)
VoidAtDesk(i) ==
  /\ status[i] \notin {"none", "void"}
  /\ paid[i] = 0 /\ taken[i] = 0 /\ Credited(i) = 0
  /\ Void(i)

(* Whatever has become of the invoice since the sweep read it. *)
ChargeFeeAtDesk(i) ==
  /\ status[i] \notin {"none", "draft"}
  /\ \E cents \in 1 .. LateFee : ChargeLateFee(i, cents)

DeskNext ==
  \/ DraftWork
  \/ \E i \in Invoices :
       \/ \E cents \in Amounts : Create(i, cents)
       \/ Issue(i)
       \/ PayAtDesk(i)
       \/ SpendCreditAtDesk(i)
       \/ VoidAtDesk(i)
       \/ ChargeFeeAtDesk(i)
       \/ \E n \in Notes : CreditAtDesk(i, n)
  \/ \E n \in Notes : VoidNote(n)

DeskSpec == Init /\ [][DeskNext]_tables
=============================================================================
