# Sentrello: a formal model of its money, its people and its webhooks

Sentrello is a self-hosted business suite: one server, one PostgreSQL
database, modules for invoicing, accounting, contacts, users and settings, and
a browser interface.  This directory holds TLA+ modules translated from its
TypeScript, the TLC configurations that check them on small instances, and
TLAPS proofs of the properties that matter most for every instance.

The server is a pool of asynchronous handlers over one database.  A handler
reads in several statements, decides, and then opens a transaction; between any
two `await`s another handler, a background job or another copy of the server
may run.  Almost everything that is hard about this code is in that gap: which
of the readings a transaction still relies on, and what stops it when they are
stale.  The models are therefore written at the grain of one database statement
or one transaction per step.

    Money                         arithmetic, no state
      InvoiceTables               the rows and the transactions that write them
        InvoiceDesk               abstract: a request decides and writes in one step
          InvoiceBooks            detailed: handlers that read, decide, then write
            MCInvoiceBooks
    Quotes                        a quote and the invoices it becomes
    Books                         money in and out, its journal, closed periods
    Reminders                     the letters of the hourly sweep
    PaymentWebhook                the endpoint a payment processor delivers to
    EventOutbox                   abstract: what an endpoint is promised of a change
      OutgoingWebhooks            detailed: the feed, the fan-out, the deliveries
    SecurityLog                   the hash chain and the sweep that prunes it
      SignIns                     the lockout that is read off that log
    People                        roles, groups, the last administrator, invitations
    MC<module>                    values for TLC
    <module>Proofs                theorems: of InvoiceBooks (with the parts under
                                  it), Quotes, Books, Reminders, PaymentWebhook,
                                  OutgoingWebhooks, SignIns (with SecurityLog), People

## The system

Paths are under `src/`, module paths under `packages/modules-free`.
`PROJECT.json` lists every component with its files, the ones that are not
modelled too.

**Invoices, payments and credit notes** (`packages/db/src/documents.ts`,
`invoicing/src`).  State: an invoice row (status, total, early saving taken,
late fee, `deletedAt`), its lines, its payments, credit notes that name it.
Operations: create, draft, duplicate, edit, issue, merge drafts, file away,
restore, record a payment, apply held credit, raise a credit note, void an
invoice or a note.  Money-moving transactions take the row with `SELECT ... FOR
UPDATE NOWAIT` (`holdInvoice`) and compare it with what was read (`unmoved`);
work on drafts is gated by the `WHERE` of its own `UPDATE`.  Correct when the
documents, the status column and the ledger always tell one story, whoever
writes and in whatever order.

**Customer credit** (`packages/db/src/customer-credit.ts`).  State: grants and
spends, one row each.  An overpayment grants; `apply-credit` spends, after a
second reading under the customer's advisory lock.  Correct when credit is spent
once and the ledger's liability is what customers hold.

**Quotes and instalments** (`invoicing/src/index.ts`, `documents.ts`).  State:
the quote's row, its lines and its tax bands, written together and read apart.
Written, sent (mail between the read and the write), edited under a version,
filed, restored, answered by the customer, converted by staff or by the
customer's acceptance into one invoice or a plan of instalments.  Correct when
it is billed once and for what it says.

**General ledger, accounting transactions, periods** (`packages/db/src/ledger.ts`,
`accounting/src/transactions.ts`, `period.ts`).  State: journal entries keyed by
a source (`invoice:<id>`, `late-fee:<id>`, `payment:<id>`, `transaction:<id>`),
the line the books are closed through.  A document's entry is posted in the
document's own commit; a transaction's row and its entry are two.  Correct when
the journal says what the rows say, on their day, and closed days keep their
figures.

**Reminder sweep** (`packages/jobs/src/reminders.ts`).  An hourly job that reads
every open invoice, charges one late fee and writes letters: one for each rule
of the business, or one a week where it has none.  It works from readings taken
at its start, beside every handler above and beside other sweeps.

**Payment webhook endpoint** (`settings/src/payment-webhook.ts`,
`packages/module-sdk/src/payments/webhooks.ts`).  State: one row per event,
unique by provider and event id; which module claimed it.  A delivery is
verified, recorded, settled, offered to the modules that listen, and answered.
Deliveries are repeated until answered 200 and may overlap.  Correct when a
module acts on an event at most once, a record means what it says, and the
processor gets an answer in the end.

**Outgoing webhooks** (`crm/src/webhooks.ts`, `packages/db/src/record-events.ts`).
State: the feed of changes, each endpoint's cursor into it, one delivery row per
endpoint and event with its next try and its attempts.  A job queues what is
fresh and sends what is due; it runs in several processes and may die anywhere.
Correct when no change an endpoint asked for is skipped or queued twice and each
ends delivered or given up on.

**Sign-in lockout and security log** (`packages/auth/src/sign-in-events.ts`,
`packages/db/src/lockout.ts`, `security-events.ts`, `retention.ts`).  State: the
log, each entry linked to the one before by a keyed hash, and the attempts let
in but not logged yet, in memory.  The lock is a count over the log.  Correct
when attempts that overlap stay within the limit, the chain does not fork, and
pruning changes no decision.

**People, roles and invitations** (`users/src`).  State: a member's roles in
effect, the role they were given, the groups they are in and what those grant,
who is suspended, pending invitations and their links.  Correct when an
administrator stands, roles come to what they should, and a link is lost only to
a newer one, a withdrawal, or with a sender who may no longer invite.

**Payment accounts** (`settings/src/payments.ts`, `packages/db/src/payments.ts`).
State: processor connections, their keys, the one that is enabled.
**First claim** (`packages/auth/src/bootstrap.ts`), **contacts, forms, merge**
(`crm/src`), **jobs, licence refresh, archive, mail, loader, dashboard, profile,
settings, web interface**: the remaining parts.

How they meet: the webhook endpoint hands events to modules that record
payments; payments, notes, voids and the sweep write the ledger and the status
column; held credit joins the invoices of one customer; a quote becomes
invoices; closing a period stands before every posting; sign-ins, invitations
and removals write the security log that the lockout and the retention sweep
read; every change of a contact feeds the outgoing webhooks.

## What each module models

`Money` is `money.ts` and `currency.ts` without the per-line tax split: whole
cents, rates in millionths, rounding half up, `clearedInBase` (a settlement
clears the step it adds to the conversion of everything settled so far),
`invoiceStatus`, balances, a fixed early-payment saving, a fixed late fee.

`InvoiceTables` holds the tables.  `paid`, `credit` and `receivable` are sums
over rows no handler modelled here takes away (the archive deletes payments,
notes and entries years later, `db/src/archive.ts`, and is not modelled), so a
sum and a flag say all the code asks of them.  `issued` and `charged` are the
debits standing under `invoice:<id>` and `late-fee:<id>`, which a void reverses.
`billed` is what the lines come to.  `mergedFrom` is the history of merges: the
drafts a merge claimed for this invoice.  It is not the `sourceNumber` of the
lines, which a duplicate of a merged invoice takes along (`documents.ts:524`)
without anything being claimed.  Each transaction of the code is one operator
that takes `read`, the figures its handler worked from.

`InvoiceBooks` is the handlers.  `req[r]` is what request `r` has read.  A
route begins with the read of the row and its early refusals (`BeginVoid`),
reads the payments, the notes, a customer's balance or the lines in steps of
their own (`ReadPayments`, `ReadCredited`, `ReadCreditBalance`, `ReadLines`),
and ends with its transaction (`VoidInvoice`) or without one (`GiveUp`: a
refusal, a lost race, a closed period, a rolled-back crash).  A transaction is
one step: it keeps its locks to the commit, and `NOWAIT` turns what would be a
wait into `GiveUp`.  `Unmoved` is the comparison under the lock.

`InvoiceDesk` is the promise: each request that touches issued money is decided
on the tables as they stand, in one step.  Work on drafts is left loose so long
as it never touches money, and the late fee may be any fee within the setting,
because the code charges it on an old reading.  `ServedOneAtATime` says that
`InvoiceBooks` implements it; the refinement mapping is the identity on the
tables, the handlers' readings being hidden.

`Quotes` is one quote as a record of three readings (`says[q].row`, `.lines`,
`.bands`) and the requests on it.  `StartSend` and `MarkSent` stand either side of
the mail; an edit reads, and saves under the status and the version it read
(`SaveEdit`; `moved` is the version having changed); a conversion reads the row
and the lines or the bands, then raises everything in one transaction that
claims the quote (`Raise`).  `Apportion` is the code's rounding of shares.

`Books` has a row, a journal that only grows, the request that holds the row's
lock, and the line (`closedThrough`).  Recording is two commits (`Record`, then
`Look` and `Post`), and a process may die between them; a correction and an
undo are one commit under `SELECT ... FOR UPDATE` (`Lock`).  `Look` is the
question whether a day is closed; `CloseThrough` moves the line with no lock, as
the code does.

`Reminders` is a sweep as it goes through its readings: the invoices, then the
log of letters, then for each the claim (a row of the log, or the stamp of the
weekly chase), the send, and what follows its answer.  `Sent` has the provider
take the letter, and its answer be heard or lost; `TakeBack` undoes the claim;
`Fall` is a sweep that dies.  A mail provider that keeps the key of a letter
sends it once (`sent` is a set).

`PaymentWebhook` is one request per `Deliveries` element, a step per statement:
`Deliver` (limiter, connection, raw body), `Refuse` or `Accept` (signature),
`WriteDown` or `Duplicate` (the insert under the unique index), `Settle`,
`Decline`/`Handle` for each module in registration order, `Claim`, `Answer`.
`Throw` and `SettleFails` take the record back (`forget`); `Fall` is a crash, or
a database call that throws where no `catch` takes it back, between any two
statements; `AnswerLost` is an answer the processor never hears.  The modules
that listen are outside this repository: each event has at most one that
recognises it, which acts whole or throws.

`OutgoingWebhooks` has a sweep of the job go through `fanOutDue` (read the feed
from the cursor, insert under the unique pair, move the cursor) and `deliverDue`
(list what is due, claim one by moving its next try away, send, write the
outcome).  A change is stamped and then committed, in any order (`late` has
those committed after one with a later stamp).  A lease counts from the sweep's
own `now`; an attempt that outlives it is in `overrun` while anybody has the
delivery in hand.  Times of deliveries are relative to the present, so the state
space stays finite without a bound on the clock.  `EventOutbox` is what an
endpoint is promised of one change: queued once it is owed, then delivered or
given up on, and so for ever, but that an outcome may be written again
(`Rewrite`) by an attempt that outlived its lease, and that a late change may be
queued without being promised.  `PromiseIsKept` is the refinement, with what is
queued and what has been answered mapped to the outbox's states; it carries its
fairness.

`SecurityLog` is a `record()` in the steps it takes: the time is chosen when it
begins, the last row is read under the lock (`Link`), the row is written
(`Write`).  The sweep picks a batch and deletes it in two statements.  A hash is
the entry it stands for.  `SignIns` extends it: the guard reads the last unlock
(`ReadClearing`), counts (`Count`), adds the reservations and reserves
(`Decide`), the password is checked, the failure logged, the reservation given
back (`Release`, which takes the oldest, as the code does).  An attempt whose
after-hook never runs (`Abandon`) has made its guess: it counts as one until its
reservation lapses.  `Restart` forgets what was in memory.  The attempts, the desk that unlocks and the sweep share one
log and one clock.

`People` has requests that check what they read and then write statement by
statement, the authentication library committing by itself: a role
(`UpdateMemberRole`, `RecordOwnRole`), a group joined, left, edited or deleted
(`ReadPeople`, `DeleteGroup`, `DeleteRows`), and `applyRoles` after each of them
(`ReadRole`, `ReadGroups`, `WriteRoles`).  Removal and suspension decide in one
step, under the lock on the member rows.  `Invite` takes the address's lock and
holds it to the commit.  A link is followed, and accepted, only while whoever
sent it may still invite (`StillMay`).

Left out of these modules, because no property tells it apart: tax bands beyond
one, percentage terms, wording, numbering, recurring templates, mail bodies,
permissions where a request that lacks one is one that never begins, the version
check on an edited invoice draft (it only refuses more), the ledger lines other
than those named, tags and accounts of a transaction, the hour at which a
business's letters go out, the editing of a role's policy, passwords and
sessions.  A credit note is one that names an invoice.

## Runs

| run | instance | question |
|---|---|---|
| `settling` | 1 invoice, 2 notes, 2 handlers, amounts 1 and 2, saving of 1, fee of 1, at most 1 of held credit | do pay, apply, credit, void and the sweep keep documents, status, ledger and credit in step, is the fee one and reversed with the void, and is each handler one step of the desk |
| `held_credit` | 3 invoices of one customer, one at rate 1.5 with receipts at 1 and 1.4, 2 handlers | with voids, filing and restoring between: is credit spent once; is the liability the customers' balance; do rounded parts add up |
| `drafts` | 4 invoices, 2 handlers | drafts written, copied, edited, merged, issued, filed, voided while others read them |
| `quotes` | 1 quote, 3 requests, 3 figures, 3 plans | converted once and as quoted; the answer stands; no save undone |
| `books` | 1 transaction, 3 requests, 2 days, 2 entries | rows, journal and the closed line together |
| `reminding` | 1 owed invoice, of a business with two rules or with none, 2 sweeps, 2 faults, a week of 3 hours | nobody chased twice; every rule followed in the end |
| `webhook` | 3 events (one owned, one nobody's, one without an id), 2 deliveries, 2 modules, 1 miss, 2 faults | at most once, honest records, an answer in the end |
| `telling` | 1 endpoint, 2 changes, 2 sweeps, a page of 1 event and of 2 deliveries, a lease and a sweep of 2 ticks, 1 retry | one sender within the lease, nothing skipped that was not late, the promise kept |
| `access` | 2 attempts, limit 1, window 2, retention 2, 3 entries, 4 moments, 1 sweep, 1 desk | the limit, the chain, pruning |
| `people` | 2 administrators and a third, 1 group, 3 invitations, 2 requests | the last administrator, roles worked out, links |
| `outlived` | as `telling` | the second disagreement under Findings |
| `silent_event` | as `webhook` | the first disagreement under Findings |

*Why these are enough.*  The races in this code are between two handlers and
one row, or two rows of one customer, so two handlers reach each of them (a
sweep is one: two sweeps, or a sweep and a void), and a third is a request that
edits what two others convert.  Held credit needs an overpaid invoice and two
others to spend it on.  Amounts 1 and 2, or 1 and 3, give part, full and over
payments of each other; with a saving of 1, payments that just miss or just meet
the discounted total, and with a fee of 1 the fee too.  A rate of 1.5 makes
every odd amount round, so parts converted alone drift at once.  `MaxCredit`
bounds what overpayments may grant and nothing else; every other quantity is
bounded by the ids an instance has.  Four invoices are two drafts, their merged
copy and one more.  The figures 100, 101 and 250 leave cents over in some plans and
none in others.  Two days are one to close and one to be on; `MaxEntries` is
the posting and its first correction.  Two faults are enough for a failure
during the recovery of another; one remembered miss is enough for the limiter to
close and open.  With a page of one event, two changes that share an instant are
more than a page.  A limit of 1 is the smallest a second attempt can pass;
`MaxRows` is two failures and an unlock or a prune.  `Mixes` has the requests on
people meet in pairs of kinds, in four of the six pairs: invitations meet
removals and suspensions, which take an inviter away, and not roles or groups,
which would change what one may do in ways a model of this size cannot hold (the
proofs have every mix).  In `people` nobody joins twice, in `reminding` one owed
invoice is chased at a time, so what one invoice's letter does to another's is
not exercised.  In `access` three entries leave a sweep little to take that the
chain still has something after, so the half of `UntouchedLogVerifies` about
pruning is barely met there; the theorem `TheLogVerifies` carries it.

Symmetry is over handlers, notes, attempts, people and, where no constant tells
them apart, invoices; it is used in no run with a liveness property.

`CHECK_DEADLOCK FALSE` is set where the system really may stop: a business with
every id used and nothing left to do, a feed with nothing fresh, a log at its
bound.  The webhook and the reminder sweep never do, and there deadlock is
checked.

*Fairness.*  None is assumed of invoicing, quotes, books, sign-ins or people,
whose properties are all safety.
- `PaymentWebhook!FairSpec`: a request once begun goes on (each `await` returns
  or throws), the processor goes on delivering each event it was not answered
  for, the limiter's window passes.  It does not assume that faults stop or that
  a request succeeds; `MaxFaults` bounds the faults.
- `OutgoingWebhooks!FairSpec`: the minute's job runs again, a sweep begun goes
  on, time passes, and processes do not die for ever.  Nothing is assumed of the
  receivers: each try may fail, which is why a delivery ends given up on.
- `Reminders!FairSpec`: the hourly job runs again and a sweep begun goes on.

The abstract modules and what shows them implemented: `InvoiceDesk` by
`InvoiceBooks` (`ServedOneAtATime`, checked in `settling` and proved for every
instance), `EventOutbox` by `OutgoingWebhooks` (`PromiseIsKept`, in `telling`,
with the liveness it promises).

Exceptions the properties name, each a thing the code does:
`NoCentLeftOver` (a note on a foreign invoice voided after a later payment
leaves a cent), `cut` in `PaymentWebhook` and `Reminders` (a process that died
holding a record or a letter), `disturbed` in `Books` (a row changed between the
two commits that record it), `overtaken` in `Books` (a posting that had looked before the line moved),
`undisturbed` in `Quotes`, `disordered` in `SecurityLog` (an entry dated before
the one it follows), `crossed` in `People` (two workings-out of one person's
roles), a link's sender who may no longer invite, `late` in `OutgoingWebhooks`
(a change committed after one with a later stamp) and `overrun` (an attempt that
outlived its lease).  `GuessesWithinTheLimit` does not count, so lets in over the
limit: a guess the guard could not read for (`unread`); one that fell between
the guard's two counts (`overtaken`); one whose failure the log did not take,
whose error is swallowed (`security-events.ts:363-367`); one abandoned a `Lapse`
ago; and those under way at a restart.  What a property says of everything else
is what it is for.

## Findings

With a run, whose one property TLC finds violated:

- `silent_event` (`NeverSilent`): a redelivery is answered 200 while the first
  delivery is in flight, and the first then fails and forgets the event.
- `outlived` (`OneSenderAtATime`): the lease of an outgoing delivery is counted
  from the `now` its sweep began with (`crm/src/webhooks.ts:193`), and a page of
  slow receivers outlasts it, so a second sweep takes a delivery the first is
  sending ("nobody else picks it up mid-send", and the comments at 46 and 180).

Differences found while modelling, without a run.  Reached with TLC on the
modules here:

- The sweep charges a fee worked out on an old balance, on an invoice paid or
  voided since (`reminders.ts:332`; the docs say "never more than the balance").
- The fee of a foreign invoice is posted at face value and cleared at the
  invoice's rate; cents stay behind (`reminders.ts:403`, `currency.ts:45-48`).
- An early-payment saving larger than what is left to pay takes the receivable
  below nothing (`invoicing/src/index.ts:828` and its comment at 838).
- File a credited invoice, void its note, and a standing invoice lies in the
  Deleted tab (`documents.ts:1649`, `lists.ts:601`).
- A draft is issued after it was merged away, and its lines are billed twice
  (`lifecycle.ts:230`, `consolidate.ts:242-245`).
- A duplicate asks for its source's late fee (`documents.ts:519` and 384).
- A merge reads its lines before it claims its drafts (`consolidate.ts:152`), so
  an edit in between is filed away unbilled.
- A cent stays on Accounts Receivable when a note on a foreign invoice is voided
  after a later payment (`documents.ts:1623`).
- A change whose statement commits late is dated behind a cursor that has
  moved on, and is passed over (`record-events.ts:148`): `NothingPassedOver`
  without its `late` fails.
- A fan-out that races the deletion of its endpoint leaves deliveries behind
  ("Its history goes with it", `crm/src/webhooks.ts:412`).
- An edit between the readings of a conversion and its transaction makes an
  invoice of the old row and the new lines (`documents.ts:198`); the last share
  of a plan may come to nothing or below (`apportion`, 37 cents in 24 parts).
- A transaction's row is committed before its entry (`transactions.ts:201-203`);
  an edit or an undo between the two doubles or strands the entry, and a posting
  that looked before the books were closed lands after.
- The guard counts logged failures and then reservations
  (`sign-in-events.ts:719`): a failure logged and released in between is in
  neither count.  The hash chain goes by the order of rows and the sweep by
  their times, so an entry dated before its predecessor can break the chain
  when a sweep stops between them.
- A person's role is changed by their route with no count of administrators
  (`people.ts`); `applyRoles` reads and writes under no lock, so of two that
  overlap the older may stay; a join that races a removal leaves a group row of
  a person who is gone; a suspended administrator cannot be removed while one
  other stands (`people.ts:130-133`).
- A rule whose letter failed may be followed after a later rule's letter; a
  sweep that dies between the claim and the send loses that letter.

Read and not modelled, because every property worth stating of it fails: two
overlapping connects leave two processors enabled (`settings/src/payments.ts:556`
against `packages/db/src/payments.ts:21`), and a connection is tested with keys
that a save replaces meanwhile (561).

## Proofs

TLAPS checks every theorem for any number of invoices, notes, quotes,
transactions, customers, handlers, sweeps, attempts, people, events and modules,
and any amounts, rates, plans, rules, limits and leases.  The assumptions are the
ones named beside the constants (`CustomersAssumption`, `InvoicesAssumption`,
`RatesAssumption`, `AmountsAssumption`, `RoutesAssumption` of invoicing;
`QuotesAssumption`, `PlansAssumption`; `BooksAssumption`; `RulesAssumption`,
`TimesAssumption` of `Reminders`; `EventsAssumption`, `ConsumersAssumption`,
`BoundsAssumption` of `PaymentWebhook`; `NamesAssumption`, `LimitsAssumption` of
`OutgoingWebhooks`; `SecurityLogAssumption`, `SignInsAssumption`;
`PolicyAssumption` of `People`), which TLC evaluates in every run.  One theorem
has a hypothesis besides: `LiabilityIsWhatIsHeld` asks that the customers be
finitely many.

Every invariant and every action property that a run checks is proved, except
the three properties named at the end of this section.  None of them is
inductive as it stands; each module of proofs begins with the invariant that is.

**Invoicing** (`InvoiceBooksProofs`), in two halves.

1. *The desk is sound* (`DeskIsSound`).  `TablesInv` is the type of the tables
   with what each property needs of the others, invoice by invoice.  That a void
   leaves nothing on the receivable needs the debits standing under the
   invoice's sources to be what it was issued for and charged (`StandingInv`)
   and nothing to have settled it; that the void of a note restores the
   receivable and the status needs the live notes to name standing invoices and
   to have cleared what they are for (`NotesInv`, `CreditedInv`); that an issued
   draft starts clean needs `UnissuedInv`; that a sum of credits is a number
   needs the cents of the notes to be finite (`CentsInv`).  One lemma per
   transaction shows `TablesInv` preserved when `read` is what the tables hold.
2. *The handlers are the desk* (`ServedLikeTheDesk`).  `BooksInv` adds what an
   open handler's readings still say when it commits: one that moves money read
   a standing invoice (`ReadStanding`), a swept invoice stays issued
   (`SweptIsIssued`), a void that saw no payment saw no saving
   (`VoidReadsNoSaving`).  Under it every step of `InvoiceBooks` is a step of
   `InvoiceDesk` or a stutter: `Unmoved` is exactly the fact that makes an old
   reading a present one (`UnmovedIsCurrent`).  So the desk's invariant carries
   over, and each property follows from it.

`LiabilityIsWhatIsHeld` is a sum over the customers, whatever they are, of which
it asks that they be finitely many.  A desk step moves one customer's balance and
the liability by the same cents (`DeskMovesCredit`), and a sum moves by what one
of its terms moves by (`SubledgerMoves`).

**Quotes** (`QuotesProofs`).  That a quote is billed for what it says needs what
a conversion has read to be what the quote says until the request is marked
(`ReadsInv`: every write of the quote tells the requests that are about it);
that it is billed once needs `converted` to be the `accepted` status
(`ConvertedInv`), on which the claim in `Raise` and the condition in `MarkSent`
turn.  The instalments come to the whole for every plan
(`InstalmentsComeToTheWhole`): each share but the last is rounded on its own, and
the last is what is left, in each band.

**Books** (`BooksProofs`).  `LookInv` says that who has looked at the line posts
behind it only if it moved since, which gives `FiledFiguresStay`.  For
`BooksSayWhatTheRowSays`, `RowsInv` says that a row has one holder and one
recorder, and `UndisturbedInv` that, of a transaction nobody changed before its
first entry was in, the last entry is the row's and stands while the row does,
every earlier one was taken back once, and a holder reverses exactly what stands
(`Posted`, `InOrder`).

**Reminders** (`RemindersProofs`).  `ClaimsInv`: a claimed letter is the only
claim of its kind, by the row of a rule or by the stamp of the week; `ToldInv`:
the row of a letter known to have gone is in the log for good; `WeeksInv`: what a
sweep read of an invoice is the stamp that is still in force, or one or the other
throttles it.  The week's letter needs overlapping sweeps to throttle each other,
which they do because a sweep is shorter than a week (`TimesAssumption`:
`SweepLimit < Week`), the one fact about time it rests on.

**Payment webhook** (`PaymentWebhookProofs`).  `WebhookInv` follows one event: at
most one delivery holds its record (`HeldByOne`, which the unique index in
`WriteDown` makes inductive), what that delivery has done is told by its stage
(`AsFarAsItsStage`), and nothing was done about an event that is not on record
(`NothingOffTheRecord`).  `HandledOnce` and `PromiseKept` are conjuncts of it.

**Outgoing webhooks** (`OutgoingWebhooksProofs`).  Nothing is assumed of the
lease or of the order changes commit in.  `LeaseInv`: a delivery being sent is,
until an attempt at it outlives its lease, pending and due when its sender's
lease is up (`Held`), so nobody else claims it; an attempt that does outlive it
is noted in `overrun` by the step that lets it (`OneSenderNoted`), which gives
`OneSender`.  `CursorInv` says that a cursor is a place in the feed with nothing
promised behind it, and so is whatever a sweep is about to move one to; a change
that commits behind one is late, and `NothingIsPassedOver` follows.
`PromiseIsKeptStepByStep` is the safety half of the refinement of `EventOutbox`:
a step under the lease settles a delivery, and one past it rewrites it.

**Sign-ins** (`SignInsProofs`).  For the log: `LockInv` (who has read the last
row holds the lock and nothing was written since), which with `RowsInv` makes
`NothingForks` inductive; `ChainInv` (while rows are in order, the sweep takes
everything before what it takes); `BatchInv` (a batch is past the retention, and
so past the window).  For the limit: `CountedAll`, that what an attempt counted,
with those it missed, is what there is now, and `Covered`, that there are as many
reservations remembered from any moment on as attempts that made one, whoever's
they were, since a release gives back the oldest; an abandoned attempt is one of
them until its own would have lapsed (`Outlasts`).

**People** (`PeopleProofs`).  `TakenAwayNotTheLast` follows from the guard under
the lock and `TablesInv`.  `RolesInv` says how far each request has come with
everyone it touches (`Progress`); for a person no two changes crossed on, either
their roles are worked out or one request is under way that will do it.
`LinkInv`: two requests under an address's lock are not about one person, and
what one found is still there or was withdrawn; so a link taken back, and not
withdrawn, has a newer one in its place (`CanceledForANewer`), and one not taken
back is refused only when it is used, expired or its sender may no longer invite.

**Sums and least numbers.**  Sums are recursive functions in the model
(`SharesOf`, `Apportion`, the fold under `LiabilityIsTheSubledger`).  A recursive
definition is a `CHOOSE`, so nothing follows from it until such a function is
shown to exist; the proofs show it, and that there is one only, and then what it
comes to.  The library's induction theorems cannot be instantiated here, so these
are arguments by the least counterexample, from `WFMin` and
`NatLessThanWellFounded` (the lemma `NatMin`).

Only model-checked: `EveryEventIsAnswered`, `EveryRuleIsFollowed` and the
liveness half of `PromiseIsKept`, which need fairness and `ENABLED` and are
beyond the prover.  What `ToBaseCents` and `ClearedInBase` come to is proved only
so far as the invariants need (`ToBaseCentsMonotone`, at par, of nothing).

## Plan

1. More that follows from the invariants above and is worth stating: that the
   instalments of a plan are none of them below nothing where the total is large
   enough for its shares (see the last share under Findings).
2. The first claim of an instance (`bootstrap.ts`) against an abstract lock, the
   licence refresh, the merge of two contacts, and archive runs.

## Not modelled, and why

Payment accounts, for the reason under Findings; `PaymentWebhook` takes the
connection as one that goes off, stale or good at any step.  First claim and
licence refresh: one row each, left in the plan.  The catalogue, tax tables,
reports, returns, e-invoices, mail, bank readers, telemetry, the loader, the
settings screens and the web interface stay out: they are look-ups, folds over
rows, formatting, start-up wiring or calls to other systems, and no interleaving
of theirs reaches the state modelled here.  They are most of the repository by
size (the browser interface alone is a third), so the modules cover the part
that decides and writes and not the part that shows.
