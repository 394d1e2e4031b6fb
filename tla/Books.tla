-------------------------------- MODULE Books --------------------------------
(***************************************************************************)
(* Money in and out (modules-free/accounting/src/transactions.ts), the     *)
(* journal it is posted to (db/src/ledger.ts) and the line the books are   *)
(* closed through (accounting/src/period.ts).  The journal only grows: a   *)
(* correction and an undo post the opposite of what stands.  Recording is  *)
(* two commits, the row and then its entry; a correction and an undo are   *)
(* one, under the row's lock.  The line is moved by one statement and read *)
(* by each posting before it commits, with no lock between the two.        *)
(*                                                                         *)
(* A figure is the amount and the day it is on; the accounts it moves      *)
(* between are left out, with the class and the location it is tagged by.  *)
(***************************************************************************)
EXTENDS Integers, Sequences

CONSTANTS
  Transactions,
  Requests,
  Amounts,        \* in cents
  Days,           \* the business's days are 1 .. Days
  MaxEntries,     \* bound on the entries of one transaction
  NoTransaction,
  NoRequest

ASSUME BooksAssumption ==
  /\ NoTransaction \notin Transactions
  /\ NoRequest \notin Requests
  /\ Amounts \subseteq Nat \ {0}
  /\ Days \in Nat \ {0} /\ MaxEntries \in Nat \ {0}

VARIABLES
  today,
  closedThrough,  \* ledgerSettings.closedThrough; 0 when nothing is closed
  row,            \* the transactions row
  entries,        \* its journal entries, each with its reversals
  lock,           \* the request that holds the row
  request,        \* where each request is
  posting,        \* how the posting of its first entry went
  disturbed       \* it was corrected or undone before that

vars == <<today, closedThrough, row, entries, lock, request, posting, disturbed>>

Row == [state : {"none", "live", "undone"}, amount : Amounts \cup {0},
        day : 0 .. Days]
NoRow == [state |-> "none", amount |-> 0, day |-> 0]

Entry == [amount : Amounts, on : 1 .. Days, undone : Seq(1 .. Days)]

(* sees: the entries a correction or an undo found standing; on: the day it
   reverses them on; overtaken: the books were closed over a day it posts to,
   after it had looked. *)
Idle == [stage |-> "idle", transaction |-> NoTransaction, amount |-> 0,
         day |-> 0, sees |-> {}, on |-> 0, overtaken |-> FALSE]

TypeOK ==
  /\ today \in 1 .. Days
  /\ closedThrough \in 0 .. today
  /\ row \in [Transactions -> Row]
  /\ entries \in [Transactions -> Seq(Entry)]
  /\ lock \in [Transactions -> Requests \cup {NoRequest}]
  /\ request \in [Requests ->
       [stage : {"idle", "recording", "posting", "correcting", "undoing",
                 "corrected", "undone"},
        transaction : Transactions \cup {NoTransaction},
        amount : Amounts \cup {0}, day : 0 .. Days,
        sees : SUBSET Nat, on : 0 .. Days,
        overtaken : BOOLEAN]]
  /\ posting \in [Transactions -> {"none", "open", "posted", "refused"}]
  /\ disturbed \in [Transactions -> BOOLEAN]

(* postJournalEntry's question of a day. *)
Closed(day) == day <= closedThrough

(* What the journal carries of a transaction, reversals taken off. *)
InTheBooks(t) ==
  LET upTo[k \in 0 .. Len(entries[t])] ==
        IF k = 0 THEN 0
        ELSE upTo[k - 1]
               + entries[t][k].amount * (1 - Len(entries[t][k].undone))
  IN  upTo[Len(entries[t])]

(* What it carries of it on one day: entries and reversals are both dated. *)
OnTheDay(t, day) ==
  [posted |-> {k \in 1 .. Len(entries[t]) : entries[t][k].on = day},
   undone |-> {k \in 1 .. Len(entries[t]) :
                 \E j \in 1 .. Len(entries[t][k].undone) :
                   entries[t][k].undone[j] = day}]

Standing(t) == {k \in 1 .. Len(entries[t]) : entries[t][k].undone = <<>>}

Stage(r, stage) == request' = [request EXCEPT ![r].stage = stage]
End(r) == request' = [request EXCEPT ![r] = Idle]

-----------------------------------------------------------------------------
(* createTransaction: the row, in a commit of its own... *)
Record(r, t, amount, day) ==
  /\ request[r] = Idle /\ row[t] = NoRow
  /\ row' = [row EXCEPT ![t] =
       [state |-> "live", amount |-> amount, day |-> day]]
  /\ posting' = [posting EXCEPT ![t] = "open"]
  /\ request' = [request EXCEPT ![r] =
       [Idle EXCEPT !.stage = "recording", !.transaction = t,
                    !.amount = amount, !.day = day]]
  /\ UNCHANGED <<today, closedThrough, entries, lock, disturbed>>

(* Mutant: only a correction asks whether the day is closed. *)
LookUnasked(r) ==
  /\ request[r].stage = "recording"
  /\ Stage(r, "posting")
  /\ UNCHANGED <<today, closedThrough, row, entries, lock, posting, disturbed>>

(* ... the question whether its day is closed, whose refusal leaves the row
   where it is... *)
Look(r) ==
  /\ request[r].stage = "recording"
  /\ IF Closed(request[r].day)
     THEN /\ posting' = [posting EXCEPT ![request[r].transaction] =
                           IF @ = "open" THEN "refused" ELSE @]
          /\ End(r)
     ELSE Stage(r, "posting") /\ UNCHANGED posting
  /\ UNCHANGED <<today, closedThrough, row, entries, lock, disturbed>>

(* ... and the entry. *)
Post(r) ==
  LET t == request[r].transaction
  IN  /\ request[r].stage = "posting"
      /\ entries' = [entries EXCEPT ![t] =
           Append(@, [amount |-> request[r].amount, on |-> request[r].day,
                      undone |-> <<>>])]
      /\ posting' = [posting EXCEPT ![t] = "posted"]
      /\ End(r)
      /\ UNCHANGED <<today, closedThrough, row, lock, disturbed>>

(* A request that dies, or whose database does, between its commits. *)
Die(r) ==
  /\ request[r].stage \in {"recording", "posting"}
  /\ posting' = [posting EXCEPT ![request[r].transaction] =
                   IF @ = "open" THEN "refused" ELSE @]
  /\ End(r)
  /\ UNCHANGED <<today, closedThrough, row, entries, lock, disturbed>>

-----------------------------------------------------------------------------
(* A correction says what it changes and leaves the rest: 0 is left alone.
   Both it and an undo look at the row before they lock it. *)
AskToCorrect(r, t, amount, day) ==
  /\ request[r] = Idle /\ row[t].state = "live"
  /\ Len(entries[t]) < MaxEntries
  /\ request' = [request EXCEPT ![r] =
       [Idle EXCEPT !.stage = "correcting", !.transaction = t,
                    !.amount = amount, !.day = day]]
  /\ UNCHANGED <<today, closedThrough, row, entries, lock, posting, disturbed>>

AskToUndo(r, t) ==
  /\ request[r] = Idle /\ row[t].state = "live"
  /\ request' = [request EXCEPT ![r] =
       [Idle EXCEPT !.stage = "undoing", !.transaction = t]]
  /\ UNCHANGED <<today, closedThrough, row, entries, lock, posting, disturbed>>

Asked(r) ==
  LET t == request[r].transaction
  IN  [amount |-> IF request[r].amount = 0 THEN row[t].amount
                  ELSE request[r].amount,
       day |-> IF request[r].day = 0 THEN row[t].day ELSE request[r].day]

(* The reversals are dated today, and a closed today refuses them. *)
CannotReverse(t) == Standing(t) # {} /\ Closed(today)

(* Mutant: neither a correction nor an undo waits for the row. *)
LockNothing(r) ==
  LET t == request[r].transaction
      undo == request[r].stage = "undoing"
      asked == Asked(r)
  IN  /\ request[r].stage \in {"correcting", "undoing"}
      /\ row[t].state = "live"
      /\ ~CannotReverse(t) /\ (undo \/ ~Closed(asked.day))
      /\ request' = [request EXCEPT ![r] =
           [stage |-> IF undo THEN "undone" ELSE "corrected",
            transaction |-> t,
            amount |-> asked.amount, day |-> asked.day,
            sees |-> Standing(t), on |-> today, overtaken |-> FALSE]]
      /\ disturbed' = [disturbed EXCEPT ![t] = @ \/ posting[t] = "open"]
      /\ UNCHANGED <<today, closedThrough, row, entries, lock, posting>>

(* Under the lock: what the row says now, which entries stand, and whether
   every day this posts to is open.  One that moves no figure posts nothing. *)
Lock(r) ==
  LET t == request[r].transaction
      undo == request[r].stage = "undoing"
      asked == Asked(r)
      same == asked = [amount |-> row[t].amount, day |-> row[t].day]
      refused == \/ CannotReverse(t)
                 \/ ~undo /\ Closed(asked.day)
  IN  /\ request[r].stage \in {"correcting", "undoing"}
      /\ lock[t] = NoRequest
      /\ IF row[t].state # "live" \/ refused \/ (~undo /\ same)
         THEN End(r) /\ UNCHANGED <<lock, disturbed>>
         ELSE /\ lock' = [lock EXCEPT ![t] = r]
              /\ request' = [request EXCEPT ![r] =
                   [stage |-> IF undo THEN "undone" ELSE "corrected",
                    transaction |-> t,
                    amount |-> asked.amount, day |-> asked.day,
                    sees |-> Standing(t), on |-> today, overtaken |-> FALSE]]
              /\ disturbed' = [disturbed EXCEPT ![t] = @ \/ posting[t] = "open"]
      /\ UNCHANGED <<today, closedThrough, row, entries, posting>>

Reversed(t, some, on) ==
  [k \in 1 .. Len(entries[t]) |->
     IF k \in some
     THEN [entries[t][k] EXCEPT !.undone = Append(@, on)]
     ELSE entries[t][k]]

(* The correction and the undo both commit whole. *)
Commit(r) ==
  LET t == request[r].transaction
      undo == request[r].stage = "undone"
      reversed == Reversed(t, request[r].sees, request[r].on)
  IN  /\ request[r].stage \in {"corrected", "undone"}
      /\ row' = [row EXCEPT ![t] =
           [state |-> IF undo THEN "undone" ELSE "live",
            amount |-> request[r].amount, day |-> request[r].day]]
      /\ entries' = [entries EXCEPT ![t] =
           IF undo THEN reversed
           ELSE Append(reversed,
                       [amount |-> request[r].amount, on |-> request[r].day,
                        undone |-> <<>>])]
      /\ lock' = [lock EXCEPT ![t] = NoRequest]
      /\ posting' = [posting EXCEPT ![t] = "posted"]
      /\ End(r)
      /\ UNCHANGED <<today, closedThrough, disturbed>>

-----------------------------------------------------------------------------
(* The days a request is about to post to, once it has looked. *)
About(r) ==
  CASE request[r].stage = "posting" -> {request[r].day}
    [] request[r].stage = "undone" -> {request[r].on}
    [] request[r].stage = "corrected" -> {request[r].day, request[r].on}
    [] OTHER -> {}

(* Mutant: the line is moved wherever it is asked to be. *)
CloseAnywhere(day) ==
  /\ closedThrough' = day
  /\ UNCHANGED <<today, row, entries, lock, request, posting, disturbed>>

(* Moving the line, either way, never past today. *)
CloseThrough(day) ==
  /\ day <= today
  /\ closedThrough' = day
  /\ request' = [r \in Requests |->
       [request[r] EXCEPT !.overtaken =
          @ \/ \E d \in About(r) : d <= day]]
  /\ UNCHANGED <<today, row, entries, lock, posting, disturbed>>

Dawn ==
  /\ today < Days
  /\ today' = today + 1
  /\ UNCHANGED <<closedThrough, row, entries, lock, request, posting, disturbed>>

Init ==
  /\ today = 1
  /\ closedThrough = 0
  /\ row = [t \in Transactions |-> NoRow]
  /\ entries = [t \in Transactions |-> <<>>]
  /\ lock = [t \in Transactions |-> NoRequest]
  /\ request = [r \in Requests |-> Idle]
  /\ posting = [t \in Transactions |-> "none"]
  /\ disturbed = [t \in Transactions |-> FALSE]

Next ==
  \/ \E r \in Requests, t \in Transactions :
       \/ \E amount \in Amounts, day \in 1 .. Days : Record(r, t, amount, day)
       \/ \E amount \in Amounts \cup {0}, day \in 0 .. Days :
            AskToCorrect(r, t, amount, day)
       \/ AskToUndo(r, t)
  \/ \E r \in Requests : Look(r) \/ Post(r) \/ Die(r) \/ Lock(r) \/ Commit(r)
  \/ \E day \in 0 .. Days : CloseThrough(day)
  \/ Dawn

Spec == Init /\ [][Next]_vars

-----------------------------------------------------------------------------
(* The books say what the screen says, however corrections and undos of a
   transaction overlap: its amount while it is live, and nothing once it is
   undone or while its own entry was refused; and what stands is dated as the
   row is, so a report counts it in the period the screen shows it in.  The
   exception is one that was changed between the two commits that record it. *)
BooksSayWhatTheRowSays ==
  \A t \in Transactions : ~disturbed[t] =>
    /\ InTheBooks(t) = IF posting[t] = "posted" /\ row[t].state = "live"
                       THEN row[t].amount ELSE 0
    /\ \A k \in Standing(t) : entries[t][k].on = row[t].day

(* The figures of a closed day stay what they were, but for what had looked
   at the line before it was moved over that day. *)
FiledFiguresStay ==
  [][\A t \in Transactions, day \in 1 .. Days :
       Closed(day) /\ OnTheDay(t, day)' # OnTheDay(t, day) =>
         \E r \in Requests : request[r].overtaken /\ request'[r] = Idle]_entries
=============================================================================
