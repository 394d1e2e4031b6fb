----------------------------- MODULE Reminders -----------------------------
(* The letters of packages/jobs/src/reminders.ts: an hourly sweep reads every
   invoice that is owed and late, and writes to the customer once for each
   rule of the business or, for a business without rules, once a week.  A
   letter is claimed before it is sent and the claim taken back when the send
   fails.  Sweeps overlap, die, and are told of a failure although the letter
   arrived.  The late fee of the same sweep is in InvoiceBooks.

   Every invoice falls due at 0, and a rule is the time after that at which it
   is due.  A letter carries a key: its rule, or the stamp of the chase before
   it, by which a mail provider knows a letter it has already taken. *)
EXTENDS Integers, FiniteSets

CONSTANTS
  Invoices,
  Owing,        \* the sets of invoices that may be owed at first
  Sweeps,       \* sweeps that may be under way at once
  RulesOf,      \* the rules of the business an invoice belongs to
  Week,         \* FALLBACK_INTERVAL_HOURS
  SweepLimit,   \* how long a sweep may last
  MaxClock,     \* bound on the clock
  MaxFaults     \* bound on sends that fail and sweeps that die

ASSUME RulesAssumption ==
  Owing \subseteq SUBSET Invoices /\ RulesOf \in [Invoices -> SUBSET Nat]

ASSUME TimesAssumption ==
  /\ Week \in Nat /\ SweepLimit \in Nat /\ SweepLimit < Week
  /\ MaxClock \in Nat /\ MaxFaults \in Nat

Never == -1
Weekly == -1

Times == 0..MaxClock
Stamps == Times \cup {Never}

\* A letter: the rule it is for, or Weekly with the stamp of the chase before.
Letters == [invoice : Invoices, rule : Nat \cup {Weekly}, since : Stamps]

NoLetter == [rule |-> Never]

Idle == [stage |-> "idle", now |-> 0, todo |-> {},
         last |-> [i \in Invoices |-> Never], done |-> {}, letter |-> NoLetter]

VARIABLES
  clock,
  owed,       \* the invoices that are open and have a balance
  last,       \* invoices.last_reminder_at
  log,        \* reminder_log, a row per letter of a rule
  sweep,      \* what each sweep has read, and where it is
  taken,      \* the letters the provider has, and the sweep's time it took them
  told,       \* the letters a sweep was told had gone
  cut,        \* the letters claimed by a sweep that died
  faults

rows == <<owed, last, log>>
post == <<taken, told>>
vars == <<clock, owed, last, log, sweep, taken, told, cut, faults>>

Init ==
  /\ clock = 0
  /\ owed \in Owing
  /\ last = [i \in Invoices |-> Never]
  /\ log = {}
  /\ sweep = [s \in Sweeps |-> Idle]
  /\ taken = {} /\ told = {} /\ cut = {}
  /\ faults = 0

-----------------------------------------------------------------------------
(* One invoice of one sweep. *)

InHand(s) == sweep[s].letter

\* The sweep is done with an invoice, whatever came of it.
MoveOn(s, i) ==
  sweep' = [sweep EXCEPT ![s].stage = "chasing", ![s].todo = @ \ {i},
                         ![s].letter = NoLetter]

\* The log is read after the invoices, once for the whole sweep.
ReadInvoices(s) ==
  /\ sweep[s].stage = "idle"
  /\ sweep' = [sweep EXCEPT ![s] =
       [Idle EXCEPT !.stage = "reading", !.now = clock, !.todo = owed,
                    !.last = last]]
  /\ UNCHANGED <<clock, rows, post, cut, faults>>

ReadLog(s) ==
  /\ sweep[s].stage = "reading"
  /\ sweep' = [sweep EXCEPT ![s].stage = "chasing", ![s].done = log]
  /\ UNCHANGED <<clock, rows, post, cut, faults>>

RuleLetter(i, rule) == [invoice |-> i, rule |-> rule, since |-> Never]

\* The rules that have come due and that the log, as read, has no letter for.
DueUnsent(s, i) ==
  {rule \in RulesOf[i] :
     sweep[s].now >= rule /\ RuleLetter(i, rule) \notin sweep[s].done}

\* The earliest of them, and no other in this sweep.
NextRule(s, i) ==
  CHOOSE rule \in DueUnsent(s, i) : \A r \in DueUnsent(s, i) : rule <= r

WeeklyLetter(s, i) ==
  [invoice |-> i, rule |-> Weekly, since |-> sweep[s].last[i]]

Throttled(stamp, now) == stamp # Never /\ stamp > now - Week

\* Nothing to say: no rule is due, or the chase of this week has gone.
PassOver(s, i) ==
  /\ sweep[s].stage = "chasing" /\ i \in sweep[s].todo
  /\ IF RulesOf[i] = {} THEN Throttled(sweep[s].last[i], sweep[s].now)
                        ELSE DueUnsent(s, i) = {}
  /\ MoveOn(s, i)
  /\ UNCHANGED <<clock, rows, post, cut, faults>>

Hold(s, letter) ==
  sweep' = [sweep EXCEPT ![s].stage = "sending", ![s].letter = letter]

(* Mutant: the log is looked at once, when the sweep begins. *)
ClaimRuleAsRead(s, i) ==
  /\ sweep[s].stage = "chasing" /\ i \in sweep[s].todo
  /\ DueUnsent(s, i) # {}
  /\ LET letter == RuleLetter(i, NextRule(s, i)) IN
       Hold(s, letter) /\ log' = log \cup {letter}
  /\ UNCHANGED <<clock, owed, last, post, cut, faults>>

\* The letter of a rule is claimed by its row in the log.
ClaimRule(s, i) ==
  /\ sweep[s].stage = "chasing" /\ i \in sweep[s].todo
  /\ DueUnsent(s, i) # {}
  /\ LET letter == RuleLetter(i, NextRule(s, i)) IN
       IF letter \in log THEN MoveOn(s, i) /\ UNCHANGED log
       ELSE Hold(s, letter) /\ log' = log \cup {letter}
  /\ UNCHANGED <<clock, owed, last, post, cut, faults>>

\* The letter of the week is claimed by the stamp, while it still allows it.
ClaimWeek(s, i) ==
  /\ sweep[s].stage = "chasing" /\ i \in sweep[s].todo
  /\ RulesOf[i] = {}
  /\ ~Throttled(sweep[s].last[i], sweep[s].now)
  /\ IF Throttled(last[i], sweep[s].now) THEN MoveOn(s, i) /\ UNCHANGED last
     ELSE /\ Hold(s, WeeklyLetter(s, i))
          /\ last' = [last EXCEPT ![i] = sweep[s].now]
  /\ UNCHANGED <<clock, owed, log, post, cut, faults>>

\* The provider takes a letter it does not know, and answers for one it does.
\* (A plain mail server has no such memory: there a lost answer is a second
\* letter, as the code says.)
Take(s) ==
  taken' = IF \E t \in taken : t.letter = InHand(s) THEN taken
           ELSE taken \cup {[letter |-> InHand(s), at |-> sweep[s].now]}

Sent(s) ==
  /\ sweep[s].stage = "sending"
  /\ Take(s)
  /\ told' = told \cup {InHand(s)}
  /\ IF InHand(s).rule = Weekly THEN MoveOn(s, InHand(s).invoice)
     ELSE sweep' = [sweep EXCEPT ![s].stage = "stamping"]
  /\ UNCHANGED <<clock, rows, cut, faults>>

\* The letter did not go, or it did and the answer was too slow.
SendFails(s) ==
  /\ sweep[s].stage = "sending"
  /\ faults < MaxFaults
  /\ Take(s) \/ UNCHANGED taken
  /\ sweep' = [sweep EXCEPT ![s].stage = "failed"]
  /\ faults' = faults + 1
  /\ UNCHANGED <<clock, rows, told, cut>>

Stamp(s) ==
  /\ sweep[s].stage = "stamping"
  /\ last' = [last EXCEPT ![InHand(s).invoice] = sweep[s].now]
  /\ MoveOn(s, InHand(s).invoice)
  /\ UNCHANGED <<clock, owed, log, post, cut, faults>>

(* Mutant: the row stays, as if a rule that was claimed had been followed. *)
TakeBackTheStamp(s) ==
  /\ sweep[s].stage = "failed"
  /\ LET i == InHand(s).invoice IN
       /\ last' = IF InHand(s).rule = Weekly /\ last[i] = sweep[s].now
                  THEN [last EXCEPT ![i] = sweep[s].last[i]] ELSE last
       /\ MoveOn(s, i)
  /\ UNCHANGED <<clock, owed, log, post, cut, faults>>

(* Mutant: the stamp is put a week back, not where it was. *)
TakeBackAWeek(s) ==
  /\ sweep[s].stage = "failed"
  /\ LET i == InHand(s).invoice IN
       /\ log' = log \ {InHand(s)}
       /\ last' = [last EXCEPT ![i] = sweep[s].now - Week]
       /\ MoveOn(s, i)
  /\ UNCHANGED <<clock, owed, post, cut, faults>>

\* The claim is taken back: the row, or the stamp if it is still this sweep's.
TakeBack(s) ==
  /\ sweep[s].stage = "failed"
  /\ LET i == InHand(s).invoice IN
       /\ log' = log \ {InHand(s)}
       /\ last' = IF InHand(s).rule = Weekly /\ last[i] = sweep[s].now
                  THEN [last EXCEPT ![i] = sweep[s].last[i]] ELSE last
       /\ MoveOn(s, i)
  /\ UNCHANGED <<clock, owed, post, cut, faults>>

Finish(s) ==
  /\ sweep[s].stage = "chasing" /\ sweep[s].todo = {}
  /\ sweep' = [sweep EXCEPT ![s] = Idle]
  /\ UNCHANGED <<clock, rows, post, cut, faults>>

\* The process dies between any two statements.
Fall(s) ==
  /\ sweep[s].stage # "idle"
  /\ faults < MaxFaults
  /\ faults' = faults + 1
  /\ cut' = IF sweep[s].stage \in {"sending", "failed"}
            THEN cut \cup {InHand(s)} ELSE cut
  /\ sweep' = [sweep EXCEPT ![s] = Idle]
  /\ UNCHANGED <<clock, rows, post>>

\* The customer pays, or the invoice is credited, voided or filed away.
Settle(i) ==
  /\ i \in owed
  /\ owed' = owed \ {i}
  /\ UNCHANGED <<clock, last, log, sweep, post, cut, faults>>

\* No sweep lasts longer than SweepLimit.
Tick ==
  /\ clock < MaxClock
  /\ \A s \in Sweeps :
       sweep[s].stage # "idle" => clock - sweep[s].now < SweepLimit
  /\ clock' = clock + 1
  /\ UNCHANGED <<rows, sweep, post, cut, faults>>

Chase(s) ==
  \/ ReadLog(s)
  \/ \E i \in Invoices : PassOver(s, i) \/ ClaimRule(s, i) \/ ClaimWeek(s, i)
  \/ Sent(s)
  \/ Stamp(s)
  \/ TakeBack(s)
  \/ Finish(s)

Next ==
  \/ \E s \in Sweeps :
       ReadInvoices(s) \/ Chase(s) \/ SendFails(s) \/ Fall(s)
  \/ \E i \in Invoices : Settle(i)
  \/ Tick

Spec == Init /\ [][Next]_vars

\* The schedule starts sweeps for ever, and one that has begun goes on.
Fairness ==
  /\ \A s \in Sweeps : WF_vars(ReadInvoices(s)) /\ WF_vars(Chase(s))
  /\ WF_vars(Tick)

FairSpec == Spec /\ Fairness

-----------------------------------------------------------------------------
TypeOK ==
  /\ clock \in Times
  /\ owed \subseteq Invoices
  /\ last \in [Invoices -> Stamps]
  /\ log \subseteq Letters
  /\ taken \subseteq [letter : Letters, at : Times]
  /\ told \subseteq Letters /\ cut \subseteq Letters
  /\ faults \in 0..MaxFaults
  /\ \A s \in Sweeps :
       /\ sweep[s].stage \in {"idle", "reading", "chasing", "sending",
                              "stamping", "failed"}
       /\ sweep[s].now \in Times
       /\ sweep[s].todo \subseteq Invoices
       /\ sweep[s].last \in [Invoices -> Stamps]
       /\ sweep[s].done \subseteq Letters
       /\ sweep[s].letter \in Letters \cup {NoLetter}
       /\ sweep[s].stage \in {"sending", "stamping", "failed"} =>
            InHand(s).invoice \in sweep[s].todo

Sending(s) == sweep[s].stage = "sending"

(* "Nobody is chased twice for the same thing": a letter being sent is in no
   other sweep's hands, and is not one that a sweep was told had gone. *)
SentOnce ==
  \A s \in Sweeps : Sending(s) =>
    /\ InHand(s) \notin told
    /\ \A t \in Sweeps \ {s} : Sending(t) => InHand(t) # InHand(s)

(* What a customer gets of a business without rules is a letter a week, but
   for how long a sweep may last: a letter whose answer was lost is sent again
   under the key it had, and is not a second letter. *)
LettersAWeekApart ==
  \A one, other \in taken :
    /\ one # other
    /\ one.letter.rule = Weekly /\ other.letter.rule = Weekly
    /\ one.letter.invoice = other.letter.invoice
    /\ one.at <= other.at
    => other.at - one.at >= Week - SweepLimit

(* Neither for one thing twice nor, without rules, twice in a week. *)
NobodyIsChasedTwice == SentOnce /\ LettersAWeekApart

(* A rule that has come due on an invoice still owed is written to the
   customer in the end, whatever sends failed before, unless a sweep died
   with the letter in its hands. *)
EveryRuleIsFollowed ==
  \A i \in Invoices : \A rule \in RulesOf[i] :
    clock >= rule ~>
      i \notin owed \/ RuleLetter(i, rule) \in told \cup cut
=============================================================================
