---------------------------- MODULE InvoiceBooks ----------------------------
(***************************************************************************)
(* The invoicing handlers as they run: each reads the invoice, its         *)
(* payments and its credit notes in statements of their own, decides, and  *)
(* opens a transaction.  The transactions that move money first take the   *)
(* row with SELECT ... FOR UPDATE NOWAIT and compare it with what was read *)
(* (`holdInvoice`, `unmoved`); those that do not are gated by the WHERE of *)
(* their own UPDATE.  A transaction is one step: it holds its rows to the  *)
(* commit and nothing it wrote is seen before it.                          *)
(***************************************************************************)
EXTENDS InvoiceDesk

CONSTANTS
  Requests,  \* handlers that can be open at once
  Routes     \* the routes in use

RouteNames == {"create", "draft", "copy", "edit", "issue", "merge", "file",
               "restore", "pay", "apply", "credit", "void", "sweep"}
ASSUME RoutesAssumption == Routes \subseteq RouteNames

VARIABLE req  \* what each open handler has read so far

vars == <<tables, req>>

Idle == [route |-> "idle", stage |-> "idle", inv |-> NoInvoice,
         other |-> NoInvoice, status |-> "none", total |-> 0, taken |-> 0,
         paid |-> 0, credited |-> 0, lines |-> 0, available |-> 0]

RequestRecord ==
  [route : RouteNames \cup {"idle"},
   stage : {"idle", "row", "payments", "credited", "balance", "lines"},
   inv : Invoices \cup {NoInvoice}, other : Invoices \cup {NoInvoice},
   status : Statuses, total : Nat, taken : Nat, paid : Nat, credited : Nat,
   lines : Nat, available : Int]

TypeOK == TablesOK /\ req \in [Requests -> RequestRecord]

At(r, route, stage) == req[r].route = route /\ req[r].stage = stage

(* A handler answers: its transaction has committed. *)
Answer(r) == req' = [req EXCEPT ![r] = Idle]

(* A handler starts by reading the invoice's row. *)
ReadRow(r, route, i) ==
  /\ req[r] = Idle
  /\ route \in Routes
  /\ req' = [req EXCEPT ![r] =
               [Idle EXCEPT !.route = route, !.stage = "row", !.inv = i,
                            !.status = status[i], !.total = total[i],
                            !.taken = taken[i]]]
  /\ UNCHANGED tables

-----------------------------------------------------------------------------
(* The first read of each route, and the early refusals that follow it. *)

BeginPayment(r, i) ==
  /\ status[i] \in Settling
  /\ ReadRow(r, "pay", i)

BeginApplyCredit(r, i) ==
  /\ CustomerOf[i] # NoCustomer /\ i \notin Foreign
  /\ status[i] \in Settling
  /\ ReadRow(r, "apply", i)

BeginCredit(r, i) ==
  /\ status[i] \in Settling /\ ~filed[i]
  /\ ReadRow(r, "credit", i)

BeginVoid(r, i) ==
  /\ status[i] \notin {"none", "void"} /\ ~filed[i]
  /\ ReadRow(r, "void", i)

BeginIssue(r, i) ==
  /\ status[i] = "draft" /\ ~filed[i]
  /\ ReadRow(r, "issue", i)

(* A row already filed is not looked at; the UPDATE will find nothing to do
   unless it is restored meanwhile. *)
BeginFile(r, i) ==
  /\ status[i] # "none"
  /\ filed[i] \/ status[i] \notin StillInTheBooks
  /\ ReadRow(r, "file", i)

(* One candidate of the reminder sweep. *)
BeginSweep(r, i) ==
  /\ LateFee > 0
  /\ status[i] \in {"open", "partial"} /\ ~filed[i] /\ fee[i] = 0
  /\ ReadRow(r, "sweep", i)

BeginCopy(r, i) ==
  /\ status[i] # "none"
  /\ ReadRow(r, "copy", i)

Mergeable(i, j) ==
  /\ i # j
  /\ CustomerOf[i] = CustomerOf[j] /\ (i \in Foreign <=> j \in Foreign)
  /\ \A d \in {i, j} : status[d] = "draft" /\ ~filed[d]

BeginMerge(r, i, j) ==
  /\ "merge" \in Routes
  /\ req[r] = Idle
  /\ Mergeable(i, j)
  /\ req' = [req EXCEPT ![r] = [Idle EXCEPT !.route = "merge", !.stage = "row",
                                            !.inv = i, !.other = j]]
  /\ UNCHANGED tables

-----------------------------------------------------------------------------
(* The reads that follow, each a statement of its own. *)

(* The void refuses as soon as it finds a payment, of any amount. *)
ReadPayments(r) ==
  /\ req[r].route \in {"pay", "apply", "void", "sweep"} /\ req[r].stage = "row"
  /\ req[r].route = "void" => ~everPaid[req[r].inv]
  /\ req' = [req EXCEPT ![r].stage = "payments", ![r].paid = paid[req[r].inv]]
  /\ UNCHANGED tables

(* The credit route reads the notes alone. *)
ReadCredited(r) ==
  /\ req[r].stage = IF req[r].route = "credit" THEN "row" ELSE "payments"
  /\ req[r].route = "void" => Credited(req[r].inv) = 0
  /\ req' = [req EXCEPT ![r].stage = "credited",
                        ![r].credited = Credited(req[r].inv)]
  /\ UNCHANGED tables

ReadCreditBalance(r) ==
  /\ At(r, "apply", "credited")
  /\ req' = [req EXCEPT ![r].stage = "balance",
                        ![r].available = credit[CustomerOf[req[r].inv]]]
  /\ UNCHANGED tables

(* The lines a copy or a merge is made of, read after the rows. *)
ReadLines(r) ==
  /\ req[r].route \in {"copy", "merge"} /\ req[r].stage = "row"
  /\ req' = [req EXCEPT ![r].stage = "lines",
                        ![r].lines = billed[req[r].inv] +
                                     IF req[r].route = "merge"
                                     THEN billed[req[r].other] ELSE 0]
  /\ UNCHANGED tables

-----------------------------------------------------------------------------
(* The transactions. *)

(* Mutant: the payments that came in meanwhile are not looked at. *)
UnmovedButForPayments(i, read, paidCents, creditedCents) ==
  /\ status[i] = read.status
  /\ total[i] = read.total
  /\ taken[i] = read.taken
  /\ Credited(i) = creditedCents

(* The comparison made under the row lock: status, total, the saving taken,
   the payments and the notes are what the handler worked from. *)
Unmoved(i, read, paidCents, creditedCents) ==
  /\ status[i] = read.status
  /\ total[i] = read.total
  /\ taken[i] = read.taken
  /\ paid[i] = paidCents
  /\ Credited(i) = creditedCents

RecordPayment(r) ==
  LET i == req[r].inv
  IN
  /\ At(r, "pay", "credited")
  /\ Unmoved(i, req[r], req[r].paid, req[r].credited)
  /\ \E amount \in Amounts, discounted \in BOOLEAN, rate \in RatesOn(i) :
       Pay(i, req[r], amount, discounted, rate)
  /\ Answer(r)

(* Mutant: the balance is not read again. *)
SpendCreditUnheld(r) ==
  /\ At(r, "apply", "balance")
  /\ Unmoved(req[r].inv, req[r], req[r].paid, req[r].credited)
  /\ ApplyCredit(req[r].inv, req[r], req[r].available)
  /\ Answer(r)

(* The customer's balance is read again under its advisory lock. *)
SpendCredit(r) ==
  LET i == req[r].inv
  IN
  /\ At(r, "apply", "balance")
  /\ Unmoved(i, req[r], req[r].paid, req[r].credited)
  /\ credit[CustomerOf[i]] = req[r].available
  /\ ApplyCredit(i, req[r], req[r].available)
  /\ Answer(r)

(* Mutant: the note is raised on what was read, without the hold. *)
CreditUnheld(r, n) ==
  /\ At(r, "credit", "credited")
  /\ \E amount \in Amounts \cup {req[r].total} :
       RaiseCreditNote(req[r].inv, n, req[r], amount)
  /\ Answer(r)

(* The payments are the ones read under the hold. *)
CreditInvoice(r, n) ==
  LET i == req[r].inv
  IN
  /\ At(r, "credit", "credited")
  /\ Unmoved(i, req[r], paid[i], req[r].credited)
  /\ \E amount \in Amounts \cup {req[r].total} :
       RaiseCreditNote(i, n, [req[r] EXCEPT !.paid = paid[i]], amount)
  /\ Answer(r)

(* Mutant: the void trusts its check and takes no hold. *)
VoidUnheld(r) ==
  /\ At(r, "void", "credited")
  /\ Void(req[r].inv)
  /\ Answer(r)

VoidInvoice(r) ==
  LET i == req[r].inv
  IN
  /\ At(r, "void", "credited")
  /\ Unmoved(i, req[r], 0, 0)
  /\ Void(i)
  /\ Answer(r)

IssueInvoice(r) ==
  /\ At(r, "issue", "row")
  /\ Issue(req[r].inv)
  /\ Answer(r)

FileInvoice(r) ==
  /\ At(r, "file", "row")
  /\ FileAway(req[r].inv)
  /\ Answer(r)

(* The fee is worked out on the balance read at the start of the sweep. *)
ApplyLateFee(r) ==
  LET balance == BalanceDue(req[r].status, req[r].total - req[r].taken,
                            req[r].paid, req[r].credited)
  IN
  /\ At(r, "sweep", "credited")
  /\ ChargeLateFee(req[r].inv, LateFeeFor(LateFee, balance))
  /\ Answer(r)

SaveCopy(r, i) ==
  /\ At(r, "copy", "lines")
  /\ CustomerOf[i] = CustomerOf[req[r].inv]
  /\ i \in Foreign <=> req[r].inv \in Foreign
  /\ CopyInvoice(i, req[r])
  /\ Answer(r)

SaveMerged(r, i) ==
  /\ At(r, "merge", "lines")
  /\ CustomerOf[i] = CustomerOf[req[r].inv]
  /\ i \in Foreign <=> req[r].inv \in Foreign
  /\ MergeDrafts({req[r].inv, req[r].other}, req[r].lines, i)
  /\ Answer(r)

(* A handler that writes nothing: refused by a figure it read, told the
   invoice moved, stopped by a closed period, or lost in a crash that rolled
   its transaction back. *)
GiveUp(r) ==
  /\ req[r] # Idle
  /\ Answer(r)
  /\ UNCHANGED tables

(* The routes whose one transaction needs nothing read before it. *)
CreateInvoice ==
  /\ "create" \in Routes
  /\ \E i \in Invoices, cents \in Amounts : Create(i, cents)
  /\ UNCHANGED req

WriteDraft ==
  /\ "draft" \in Routes
  /\ \E i \in Invoices, cents \in Amounts : CreateDraft(i, cents)
  /\ UNCHANGED req

SaveDraft ==
  /\ "edit" \in Routes
  /\ \E i \in Invoices, cents \in Amounts : EditDraft(i, cents)
  /\ UNCHANGED req

RestoreInvoice ==
  /\ "restore" \in Routes
  /\ \E i \in Invoices : Restore(i)
  /\ UNCHANGED req

(* The void of a note: nothing else writes a note once it is open, so its own
   hold always finds what was read. *)
VoidCreditNote ==
  /\ "void" \in Routes
  /\ \E n \in Notes : VoidNote(n)
  /\ UNCHANGED req

-----------------------------------------------------------------------------
Begin(r, i) ==
  \/ BeginPayment(r, i)
  \/ BeginApplyCredit(r, i)
  \/ BeginCredit(r, i)
  \/ BeginVoid(r, i)
  \/ BeginIssue(r, i)
  \/ BeginFile(r, i)
  \/ BeginSweep(r, i)
  \/ BeginCopy(r, i)
  \/ \E j \in Invoices : BeginMerge(r, i, j)

Read(r) ==
  \/ ReadPayments(r)
  \/ ReadCredited(r)
  \/ ReadCreditBalance(r)
  \/ ReadLines(r)

Commit(r) ==
  \/ RecordPayment(r)
  \/ SpendCredit(r)
  \/ \E n \in Notes : CreditInvoice(r, n)
  \/ VoidInvoice(r)
  \/ IssueInvoice(r)
  \/ FileInvoice(r)
  \/ ApplyLateFee(r)
  \/ \E i \in Invoices : SaveCopy(r, i) \/ SaveMerged(r, i)

Next ==
  \/ \E r \in Requests :
       \/ \E i \in Invoices : Begin(r, i)
       \/ Read(r)
       \/ Commit(r)
       \/ GiveUp(r)
  \/ CreateInvoice
  \/ WriteDraft
  \/ SaveDraft
  \/ RestoreInvoice
  \/ VoidCreditNote

BooksInit == Init /\ req = [r \in Requests |-> Idle]

Spec == BooksInit /\ [][Next]_vars

(* Whatever the interleaving, the handlers have the effects of InvoiceDesk,
   where each decides and writes in one step. *)
ServedOneAtATime == DeskSpec

(* However many requests merge overlapping sets of drafts at once, no draft is
   claimed by two merges, so one merge alone bills its lines (whoever then
   duplicates the merged invoice bills them again by choice); only a draft put
   back by hand can be merged again. *)
DraftsMergedOnce ==
  "restore" \notin Routes =>
    \A i, j \in Invoices : i # j => mergedFrom[i] \cap mergedFrom[j] = {}
=============================================================================
