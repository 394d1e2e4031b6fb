------------------------------- MODULE Money -------------------------------
(***************************************************************************)
(* The arithmetic of a document: whole cents, and rates held as millionths *)
(* of the base currency (packages/db/src/money.ts and currency.ts).  No    *)
(* state: the modules that keep documents and a ledger extend this one.    *)
(***************************************************************************)
EXTENDS Integers

Lesser(a, b) == IF a <= b THEN a ELSE b

AtLeastZero(a) == IF a >= 0 THEN a ELSE 0

(* One unit of the base currency, as a rate. *)
RATE_SCALE == 1000000

(* Math.round(amount * rate / RATE_SCALE): the nearest cent, a half upwards.
   \div is the floor, so this is floor(x + 1/2) for negative amounts too. *)
ToBaseCents(amount, rate) ==
  (2 * amount * rate + RATE_SCALE) \div (2 * RATE_SCALE)

(* Mutant: each settlement is converted on its own. *)
ConvertedAlone(rate, settledBefore, settling) == ToBaseCents(settling, rate)

(* What one settlement clears: the step it adds to the conversion of
   everything settled so far, never its own conversion. *)
ClearedInBase(rate, settledBefore, settling) ==
  ToBaseCents(settledBefore + settling, rate) - ToBaseCents(settledBefore, rate)

(* The status a document reads once its payments and credits are counted. *)
InvoiceStatus(total, paid, credited) ==
  IF total - paid - credited <= 0
  THEN IF credited > 0 /\ paid <= 0 THEN "credited" ELSE "paid"
  ELSE IF paid + credited > 0 THEN "partial" ELSE "open"

(* What is left to pay; a draft and a void owe nothing whatever they add to. *)
BalanceDue(status, total, paid, credited) ==
  IF status \in {"draft", "void"} THEN 0 ELSE AtLeastZero(total - paid - credited)

(* The saving an early-payment offer of `value` cents makes on a total. *)
EarlySaving(value, total) == AtLeastZero(Lesser(value, total))

(* A fixed late fee, never more than the balance it is charged on. *)
LateFeeFor(value, balance) ==
  IF value <= 0 THEN 0 ELSE AtLeastZero(Lesser(value, balance))
=============================================================================
