--------------------------- MODULE InvoiceTables ---------------------------
(***************************************************************************)
(* The rows an invoice lives in and the transactions that write them: the  *)
(* invoice, its payments, the credit notes raised against it, what a       *)
(* customer holds in credit, and what the ledger carries on Accounts       *)
(* Receivable under the invoice's sources.                                 *)
(*                                                                         *)
(* A transaction takes `read`, the figures its handler worked from.        *)
(* InvoiceDesk hands it the tables as they stand; InvoiceBooks hands it    *)
(* what a handler read some steps ago.                                     *)
(***************************************************************************)
EXTENDS Money, FiniteSetsExt

CONSTANTS
  Invoices,           \* ids an invoice can be given
  Notes,              \* ids a credit note can be given
  Customers,
  NoCustomer,         \* contactId is null
  NoInvoice,
  CustomerOf,         \* the customer each invoice names
  Foreign,            \* the invoices not in the base currency
  Rate,               \* rateMicro, fixed on the invoice when it is written
  PaymentRates,       \* the rates a foreign receipt day can have
  Amounts,            \* cents a request body or a set of lines can come to
  EarlyDiscount,      \* cents each invoice offers for early payment, 0 for none
  LateFee,            \* invoicingSettings.lateFeeValue, 0 when fees are off
  HoldsOverpayments,  \* invoicingSettings.overpaymentPolicy = "credit"
  MaxCredit           \* bound on the credit a customer can hold

ASSUME CustomersAssumption ==
  /\ NoCustomer \notin Customers
  /\ CustomerOf \in [Invoices -> Customers \cup {NoCustomer}]
ASSUME InvoicesAssumption == NoInvoice \notin Invoices
ASSUME RatesAssumption ==
  /\ Rate \in [Invoices -> Nat]
  /\ \A i \in Invoices \ Foreign : Rate[i] = RATE_SCALE
  /\ PaymentRates \subseteq Nat
ASSUME AmountsAssumption ==
  /\ Amounts \subseteq Nat
  /\ EarlyDiscount \in [Invoices -> Nat]
  /\ LateFee \in Nat
  /\ HoldsOverpayments \in BOOLEAN
  /\ MaxCredit \in Nat

VARIABLES
  \* the invoices table
  status,      \* "none" until the row exists
  total,       \* totalCents
  billed,      \* what the invoice's lines come to
  taken,       \* earlyDiscountTakenCents
  fee,         \* lateFeeCents; positive exactly when lateFeeAppliedAt is set
  filed,       \* deletedAt is set
  mergedFrom,  \* the drafts claimed by the merge that inserted it (a history
               \* of merges: {} for a row no merge inserted, a copy included)
  \* rows that name an invoice
  paid,        \* sum of its payments rows
  everPaid,    \* it has a payments row, of whatever amount
  note,        \* the credit notes
  \* what customers hold
  credit,      \* sum of a customer's customerCredits rows
  liability,   \* the ledger's customer-credits account
  \* the ledger's Accounts Receivable, by invoice
  receivable,  \* every entry made for the invoice, its reversals included
  issued,      \* the debit standing under `invoice:<id>`, 0 once reversed
  charged      \* the debit standing under `late-fee:<id>`, 0 once reversed

rowVars == <<status, total, billed, taken, fee, filed, mergedFrom>>
customerVars == <<credit, liability>>
ledgerVars == <<receivable, issued, charged>>
tables == <<rowVars, paid, everPaid, note, customerVars, ledgerVars>>

Settling == {"open", "partial", "paid", "credited"}
Statuses == Settling \cup {"none", "draft", "void"}
StillInTheBooks == {"open", "partial", "paid"}

NoNote == [status |-> "none", of |-> NoInvoice, amount |-> 0, cleared |-> 0]
NoteRecord == [status : {"none", "open", "void"}, of : Invoices \cup {NoInvoice},
               amount : Nat, cleared : Int]

-----------------------------------------------------------------------------
(* Queries *)

LiveNotes(i) == {n \in Notes : note[n].status = "open" /\ note[n].of = i}

(* creditedAgainst: the sum over the notes that are not void.  Written as the
   number of cents those notes hold, which is the same figure and needs no
   recursion over the set of notes. *)
NoteCents(n) == {n} \X (1 .. note[n].amount)
CreditedCents(i) == UNION {NoteCents(n) : n \in LiveNotes(i)}
Credited(i) == Cardinality(CreditedCents(i))

(* What a handler works from: the row, and the two sums beside it. *)
Figures(i) ==
  [status |-> status[i], total |-> total[i], taken |-> taken[i],
   paid |-> paid[i], credited |-> Credited(i)]

(* Receipts in the base currency are worth their face; a foreign one is worth
   what the rate of its day makes it. *)
RatesOn(i) == IF i \in Foreign THEN PaymentRates ELSE {RATE_SCALE}

Settled(read) == read.paid + read.credited + read.taken
Owed(read) == AtLeastZero(read.total - Settled(read))

-----------------------------------------------------------------------------
(* Transactions *)

(* The debit an issued invoice puts on Accounts Receivable. *)
PostInvoiceIssued(i, cents) ==
  /\ issued' = [issued EXCEPT ![i] = ToBaseCents(cents, Rate[i])]
  /\ receivable' = [receivable EXCEPT ![i] = @ + ToBaseCents(cents, Rate[i])]

(* A new invoice row; one raised as "open" posts in the same commit. *)
InsertInvoice(i, newStatus, cents, lines, from) ==
  /\ status[i] = "none"
  /\ status' = [status EXCEPT ![i] = newStatus]
  /\ total' = [total EXCEPT ![i] = cents]
  /\ billed' = [billed EXCEPT ![i] = lines]
  /\ mergedFrom' = [mergedFrom EXCEPT ![i] = from]
  /\ UNCHANGED <<taken, fee, paid, everPaid, note, customerVars, charged>>

Create(i, cents) ==
  /\ InsertInvoice(i, "open", cents, cents, {})
  /\ PostInvoiceIssued(i, cents)
  /\ UNCHANGED filed

CreateDraft(i, cents) ==
  /\ InsertInvoice(i, "draft", cents, cents, {})
  /\ UNCHANGED <<filed, receivable, issued>>

(* A copy takes the source's totals and its lines, never its late fee.  It
   claims no draft: the number of a draft that a line copied with its others
   may carry groups lines on the shared page and is not modelled. *)
CopyInvoice(i, copied) ==
  /\ InsertInvoice(i, "draft", copied.total, copied.lines, {})
  /\ UNCHANGED <<filed, receivable, issued>>

(* An edit of a draft; the UPDATE's own `status = 'draft'` is the gate. *)
EditDraft(i, cents) ==
  /\ status[i] = "draft"
  /\ total' = [total EXCEPT ![i] = cents]
  /\ billed' = [billed EXCEPT ![i] = cents]
  /\ UNCHANGED <<status, taken, fee, filed, mergedFrom, paid, everPaid, note,
                 customerVars, ledgerVars>>

(* Mutant: the status is written on the id alone, so two requests issue one
   draft twice. *)
IssueUnclaimed(i) ==
  /\ status' = [status EXCEPT ![i] = "open"]
  /\ PostInvoiceIssued(i, total[i])
  /\ UNCHANGED <<total, billed, taken, fee, filed, mergedFrom, paid, everPaid,
                 note, customerVars, charged>>

(* A draft issued and posted; the UPDATE's `status = 'draft'` is the gate. *)
Issue(i) ==
  /\ status[i] = "draft"
  /\ status' = [status EXCEPT ![i] = "open"]
  /\ PostInvoiceIssued(i, total[i])
  /\ UNCHANGED <<total, billed, taken, fee, filed, mergedFrom, paid, everPaid,
                 note, customerVars, charged>>

(* Mutant: the claim does not ask that the drafts are still live. *)
MergeUnclaimed(drafts, lines, i) ==
  /\ \A d \in drafts : status[d] = "draft"
  /\ filed' = [d \in Invoices |-> filed[d] \/ d \in drafts]
  /\ InsertInvoice(i, "draft", lines, lines, drafts)
  /\ UNCHANGED <<receivable, issued>>

(* Several drafts filed away and one draft made of their lines. *)
MergeDrafts(drafts, lines, i) ==
  /\ \A d \in drafts : status[d] = "draft" /\ ~filed[d]
  /\ filed' = [d \in Invoices |-> filed[d] \/ d \in drafts]
  /\ InsertInvoice(i, "draft", lines, lines, drafts)
  /\ UNCHANGED <<receivable, issued>>

FileAway(i) ==
  /\ ~filed[i]
  /\ filed' = [filed EXCEPT ![i] = TRUE]
  /\ UNCHANGED <<status, total, billed, taken, fee, mergedFrom, paid, everPaid,
                 note, customerVars, ledgerVars>>

Restore(i) ==
  /\ status[i] # "none"
  /\ filed' = [filed EXCEPT ![i] = FALSE]
  /\ UNCHANGED <<status, total, billed, taken, fee, mergedFrom, paid, everPaid,
                 note, customerVars, ledgerVars>>

(* Mutant: what arrives covers the late fee before it counts as a payment. *)
InsertPaymentLessFee(i, cents) ==
  /\ paid' = [paid EXCEPT ![i] = @ + cents - fee[i]]
  /\ everPaid' = [everPaid EXCEPT ![i] = TRUE]

(* A row in payments; no handler ever takes one away. *)
InsertPayment(i, cents) ==
  /\ paid' = [paid EXCEPT ![i] = @ + cents]
  /\ everPaid' = [everPaid EXCEPT ![i] = TRUE]

(* Mutant: what a customer spends is never written down. *)
CreditGrantedOnly(i, cents) ==
  credit' = IF cents <= 0 THEN credit
            ELSE [credit EXCEPT ![CustomerOf[i]] = @ + cents]

(* A row in customerCredits: positive when granted, negative when spent. *)
RecordCreditMovement(i, cents) ==
  credit' = IF cents = 0 THEN credit
            ELSE [credit EXCEPT ![CustomerOf[i]] = @ + cents]

(* A payment of `amount`, worth `rate` on the day it arrived, taking the
   early-payment saving when `discounted`.  What goes over the balance is held
   as the customer's credit, at what it is worth in base cents; the ledger
   clears the step the applied part adds, and then the saving's step. *)
Pay(i, read, amount, discounted, rate) ==
  LET saving   == EarlySaving(EarlyDiscount[i], read.total)
      forgiven == IF discounted THEN saving ELSE read.taken
      owed     == AtLeastZero(read.total - forgiven - read.paid - read.credited)
      applied  == Lesser(amount, owed)
      over     == ToBaseCents(amount, rate) - ToBaseCents(applied, rate)
      cleared  == ClearedInBase(Rate[i], Settled(read), applied)
      saved    == IF discounted
                  THEN ClearedInBase(Rate[i], Settled(read) + applied, saving)
                  ELSE 0
  IN
  /\ amount > 0
  /\ discounted => EarlyDiscount[i] > 0 /\ read.taken = 0
  /\ amount > owed => HoldsOverpayments /\ CustomerOf[i] # NoCustomer
  /\ over # 0 => credit[CustomerOf[i]] + over <= MaxCredit
  /\ InsertPayment(i, applied)
  /\ taken' = [taken EXCEPT ![i] = forgiven]
  /\ status' = [status EXCEPT ![i] =
                  InvoiceStatus(read.total - forgiven, read.paid + applied,
                                read.credited)]
  /\ receivable' = [receivable EXCEPT ![i] = @ - cleared - saved]
  /\ RecordCreditMovement(i, over)
  /\ liability' = liability + over
  /\ UNCHANGED <<total, billed, fee, filed, mergedFrom, note, issued, charged>>

(* Held credit spent on an invoice in the base currency. *)
ApplyCredit(i, read, available) ==
  LET applied == Lesser(available, Owed(read))
  IN
  /\ i \notin Foreign /\ CustomerOf[i] # NoCustomer
  /\ applied > 0
  /\ InsertPayment(i, applied)
  /\ status' = [status EXCEPT ![i] =
                  InvoiceStatus(read.total - read.taken, read.paid + applied,
                                read.credited)]
  /\ receivable' = [receivable EXCEPT ![i] = @ - applied]
  /\ RecordCreditMovement(i, -applied)
  /\ liability' = liability - applied
  /\ UNCHANGED <<total, billed, taken, fee, filed, mergedFrom, note, issued,
                 charged>>

(* A credit note against an invoice, posted and counted in the same commit. *)
RaiseCreditNote(i, n, read, amount) ==
  LET cleared == ClearedInBase(Rate[i], Settled(read), amount)
  IN
  /\ amount > 0
  /\ read.credited + amount <= read.total
  /\ note[n] = NoNote
  /\ note' = [note EXCEPT ![n] = [status |-> "open", of |-> i,
                                  amount |-> amount, cleared |-> cleared]]
  /\ receivable' = [receivable EXCEPT ![i] = @ - cleared]
  /\ status' = [status EXCEPT ![i] =
                  InvoiceStatus(read.total - read.taken, read.paid,
                                read.credited + amount)]
  /\ UNCHANGED <<total, billed, taken, fee, filed, mergedFrom, paid, everPaid,
                 customerVars, issued, charged>>

(* Mutant: `invoice:` alone is reversed, and the late fee stays owed. *)
VoidKeepsFee(i) ==
  /\ status' = [status EXCEPT ![i] = "void"]
  /\ IF status[i] = "draft" THEN UNCHANGED receivable
     ELSE receivable' = [receivable EXCEPT ![i] = @ - issued[i]]
  /\ issued' = [issued EXCEPT ![i] = 0]
  /\ charged' = [charged EXCEPT ![i] = 0]
  /\ UNCHANGED <<total, billed, taken, fee, filed, mergedFrom, paid, everPaid,
                 note, customerVars>>

(* The void of an invoice.  Everything standing under its sources is reversed
   line for line; a draft has nothing standing. *)
Void(i) ==
  /\ status' = [status EXCEPT ![i] = "void"]
  /\ IF status[i] = "draft" THEN UNCHANGED ledgerVars
     ELSE /\ receivable' = [receivable EXCEPT ![i] = @ - issued[i] - charged[i]]
          /\ issued' = [issued EXCEPT ![i] = 0]
          /\ charged' = [charged EXCEPT ![i] = 0]
  /\ UNCHANGED <<total, billed, taken, fee, filed, mergedFrom, paid, everPaid,
                 note, customerVars>>

(* Mutant: the note's own entry is not found, so nothing is reversed. *)
VoidNoteUnreversed(n) ==
  LET i == note[n].of
  IN
  /\ note[n].status = "open"
  /\ note' = [note EXCEPT ![n].status = "void"]
  /\ status' = [status EXCEPT ![i] =
                  InvoiceStatus(total[i] - taken[i], paid[i], Credited(i)')]
  /\ UNCHANGED <<total, billed, taken, fee, filed, mergedFrom, paid, everPaid,
                 customerVars, ledgerVars>>

(* Mutant: the invoice it credited goes on reading what it read. *)
VoidNoteAlone(n) ==
  /\ note[n].status = "open"
  /\ note' = [note EXCEPT ![n].status = "void"]
  /\ receivable' = [receivable EXCEPT ![note[n].of] = @ + note[n].cleared]
  /\ UNCHANGED <<rowVars, paid, everPaid, customerVars, issued, charged>>

(* The void of a credit note, and the status of the invoice it credited,
   worked out again without it. *)
VoidNote(n) ==
  LET i == note[n].of
  IN
  /\ note[n].status = "open"
  /\ note' = [note EXCEPT ![n].status = "void"]
  /\ receivable' = [receivable EXCEPT ![i] = @ + note[n].cleared]
  /\ status' = [status EXCEPT ![i] =
                  InvoiceStatus(total[i] - taken[i], paid[i],
                                Credited(i)')]
  /\ UNCHANGED <<total, billed, taken, fee, filed, mergedFrom, paid, everPaid,
                 customerVars, issued, charged>>

(* Mutant: the fee is not claimed, so two sweeps both charge it. *)
FeeUnclaimed(i, cents) ==
  /\ cents > 0
  /\ fee' = [fee EXCEPT ![i] = cents]
  /\ total' = [total EXCEPT ![i] = @ + cents]
  /\ receivable' = [receivable EXCEPT ![i] = @ + cents]
  /\ charged' = [charged EXCEPT ![i] = @ + cents]
  /\ UNCHANGED <<status, billed, taken, filed, mergedFrom, paid, everPaid, note,
                 customerVars, issued>>

(* The sweep's fee, claimed on `lateFeeAppliedAt is null` and posted at its
   face value. *)
ChargeLateFee(i, cents) ==
  /\ fee[i] = 0 /\ cents > 0
  /\ fee' = [fee EXCEPT ![i] = cents]
  /\ total' = [total EXCEPT ![i] = @ + cents]
  /\ receivable' = [receivable EXCEPT ![i] = @ + cents]
  /\ charged' = [charged EXCEPT ![i] = cents]
  /\ UNCHANGED <<status, billed, taken, filed, mergedFrom, paid, everPaid, note,
                 customerVars, issued>>

-----------------------------------------------------------------------------
Init ==
  /\ status = [i \in Invoices |-> "none"]
  /\ total = [i \in Invoices |-> 0]
  /\ billed = [i \in Invoices |-> 0]
  /\ taken = [i \in Invoices |-> 0]
  /\ fee = [i \in Invoices |-> 0]
  /\ filed = [i \in Invoices |-> FALSE]
  /\ mergedFrom = [i \in Invoices |-> {}]
  /\ paid = [i \in Invoices |-> 0]
  /\ everPaid = [i \in Invoices |-> FALSE]
  /\ note = [n \in Notes |-> NoNote]
  /\ credit = [c \in Customers |-> 0]
  /\ liability = 0
  /\ receivable = [i \in Invoices |-> 0]
  /\ issued = [i \in Invoices |-> 0]
  /\ charged = [i \in Invoices |-> 0]

TablesOK ==
  /\ status \in [Invoices -> Statuses]
  /\ total \in [Invoices -> Nat]
  /\ billed \in [Invoices -> Nat]
  /\ taken \in [Invoices -> Nat]
  /\ fee \in [Invoices -> Nat]
  /\ filed \in [Invoices -> BOOLEAN]
  /\ mergedFrom \in [Invoices -> SUBSET Invoices]
  /\ paid \in [Invoices -> Nat]
  /\ everPaid \in [Invoices -> BOOLEAN]
  /\ note \in [Notes -> NoteRecord]
  /\ credit \in [Customers -> Int]
  /\ liability \in Int
  /\ receivable \in [Invoices -> Int]
  /\ issued \in [Invoices -> Int]
  /\ charged \in [Invoices -> Nat]

-----------------------------------------------------------------------------
(* What must hold of the tables, whoever writes them. *)

(* A rounding cent is left behind only where a credit note was voided on an
   invoice kept at a rate other than one. *)
NoCentLeftOver(i) ==
  \/ Rate[i] = RATE_SCALE
  \/ \A n \in Notes : note[n].of = i => note[n].status # "void"

(* Accounts Receivable carries, for an invoice that stands, what it was issued
   for and its late fee less everything that settled it: the settlements'
   steps add up to one conversion of their sum, whoever made them and in
   whatever order. *)
ReceivableIsWhatIsOwed ==
  \A i \in Invoices : status[i] \in Settling /\ NoCentLeftOver(i) =>
    receivable[i] = ToBaseCents(total[i] - fee[i], Rate[i]) + fee[i]
                      - ToBaseCents(Settled(Figures(i)), Rate[i])

(* An invoice that does not stand has nothing on Accounts Receivable: a draft
   was never posted, and a void is reversed whole, fee and notes with it.  A
   fee charged after the void is the one thing left. *)
OnlyStandingInvoicesAreInTheBooks ==
  \A i \in Invoices :
    /\ status[i] \in {"none", "draft"} => receivable[i] = 0
    /\ status[i] = "void" /\ NoCentLeftOver(i) => receivable[i] = charged[i]

(* No money and no live credit note is ever left on a void invoice: a payment
   and a void that race cannot both have their way. *)
VoidSettlesNothing ==
  \A i \in Invoices : status[i] = "void" =>
    paid[i] = 0 /\ taken[i] = 0 /\ LiveNotes(i) = {}

(* Two credits, or two payments, raised at once cannot between them go past
   the invoice's total. *)
CreditedWithinTotal == \A i \in Invoices : Credited(i) <= total[i]
PaidWithinTotal == \A i \in Invoices : paid[i] <= total[i]

(* Neither is more than the invoice asks for, however many payments and notes
   worked from one balance. *)
SettledWithinTotal == PaidWithinTotal /\ CreditedWithinTotal

(* Held credit is spent once: two invoices settled at the same moment cannot
   both have a customer's last cent. *)
CreditNeverOverspent == \A c \in Customers : credit[c] >= 0

(* The ledger's liability to customers is what the customers' own balances
   add up to: the two are written by one commit, in the same base cents. *)
LiabilityIsTheSubledger ==
  liability = MapThenSumSet(LAMBDA c : credit[c], Customers)

(* The status column agrees with the payments and notes beside it, so the
   lists and the reminder sweep see the balance the invoice really has.  Only
   a fee charged late can leave it behind; an invoice for nothing is written
   "open" and stays so until something settles it. *)
StatusTellsTheBalance ==
  \A i \in Invoices :
    status[i] \in Settling /\ fee[i] = 0 /\ total[i] > 0 =>
      status[i] = InvoiceStatus(total[i] - taken[i], paid[i], Credited(i))

(* A void is the end of an invoice: not even the void of a credit note, which
   writes its invoice's status, brings one back. *)
VoidIsFinal ==
  [][\A i \in Invoices : status[i] = "void" => status'[i] = "void"]_tables

(* What an issued invoice asks for is fixed, but for one late fee. *)
IssuedTotalsAreFixed ==
  [][\A i \in Invoices : status[i] \notin {"none", "draft"} =>
       \/ total'[i] = total[i] /\ fee'[i] = fee[i]
       \/ fee[i] = 0 /\ total'[i] = total[i] + fee'[i]]_tables
=============================================================================
