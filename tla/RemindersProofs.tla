--------------------------- MODULE RemindersProofs ---------------------------
(***************************************************************************)
(* That no letter is sent twice, and that a customer of a business without *)
(* rules gets one a week at most: for every number of invoices, rules and  *)
(* sweeps, whatever fails, while no sweep outlasts SweepLimit.             *)
(***************************************************************************)
EXTENDS Reminders, WellFoundedInduction, TLAPS

Stages == {"idle", "reading", "chasing", "sending", "stamping", "failed"}

SweepRecord ==
  [stage : Stages, now : Times, todo : SUBSET Invoices,
   last : [Invoices -> Stamps], done : SUBSET Letters,
   letter : Letters \cup {NoLetter}]

(* A sweep has a letter in hand from its claim until it moves on. *)
LetterInHand(w) ==
  w.stage \in {"sending", "stamping", "failed"} =>
    w.letter \in Letters /\ w.letter.invoice \in w.todo

TypesInv ==
  /\ clock \in Times
  /\ owed \subseteq Invoices
  /\ last \in [Invoices -> Stamps]
  /\ log \subseteq Letters
  /\ taken \subseteq [letter : Letters, at : Times]
  /\ told \subseteq Letters /\ cut \subseteq Letters
  /\ faults \in 0..MaxFaults
  /\ sweep \in [Sweeps -> SweepRecord]
  /\ \A s \in Sweeps : LetterInHand(sweep[s])

OnTheWay(s) == sweep[s].stage # "idle"

(* The sweep has claimed the letter and not heard that it went. *)
Claimed(s) == sweep[s].stage \in {"sending", "failed"}

Ruleless(i) == RulesOf[i] = {}

ChasesWeekly(s, i) ==
  Claimed(s) /\ InHand(s).rule = Weekly /\ InHand(s).invoice = i

(* A sweep is of the last SweepLimit hours. *)
InTime(s) ==
  OnTheWay(s) => sweep[s].now <= clock /\ clock - sweep[s].now <= SweepLimit

(* A letter that is claimed is the only claim of its kind: a rule's has its
   row in the log, and a week's has stamped the invoice with its sweep. *)
RuleClaim(s) ==
  /\ RuleLetter(InHand(s).invoice, InHand(s).rule) = InHand(s)
  /\ ~Ruleless(InHand(s).invoice)
  /\ InHand(s) \in log

WeekClaim(s) ==
  /\ Ruleless(InHand(s).invoice)
  /\ InHand(s) = WeeklyLetter(s, InHand(s).invoice)
  /\ ~Throttled(InHand(s).since, sweep[s].now)
  /\ last[InHand(s).invoice] = sweep[s].now

ClaimHolds(s) ==
  /\ Claimed(s) => IF InHand(s).rule = Weekly THEN WeekClaim(s) ELSE RuleClaim(s)
  /\ sweep[s].stage = "stamping" => ~Ruleless(InHand(s).invoice)

ClaimsInv ==
  /\ \A s \in Sweeps : InTime(s) /\ ClaimHolds(s)
  /\ \A s, t \in Sweeps :
       /\ Claimed(s) /\ Claimed(t)
       /\ InHand(s).rule = InHand(t).rule
       /\ InHand(s).invoice = InHand(t).invoice
       => s = t

(* The letters of rules that a sweep was told had gone are in the log for
   good: no claim is left to take their rows out. *)
ToldInv ==
  \A letter \in told : letter.rule # Weekly =>
    /\ letter \in log
    /\ \A s \in Sweeps : Claimed(s) => InHand(s) # letter

(* The stamp of the last chase that is over; the claim of one that is not has
   put its own in its place. *)
Chased(i) ==
  IF \E s \in Sweeps : ChasesWeekly(s, i)
  THEN sweep[CHOOSE s \in Sweeps : ChasesWeekly(s, i)].last[i]
  ELSE last[i]

(* What a sweep read of an invoice is that stamp, or it has nothing to say of
   the invoice: by what it read, or by what has been written since. *)
ReadRight(s, i) ==
  \/ sweep[s].last[i] = Chased(i)
  \/ Throttled(sweep[s].last[i], sweep[s].now)
  \/ Throttled(Chased(i), sweep[s].now)

(* A letter of the week is the one the stamp still calls for, or the chase
   it was for is over. *)
Over(letter) ==
  letter.since < Chased(letter.invoice)

TakenRight(t) ==
  /\ t.at <= clock
  /\ t.letter.rule = Weekly =>
       /\ Ruleless(t.letter.invoice)
       /\ \/ t.letter.since = Chased(t.letter.invoice)
          \/ /\ Chased(t.letter.invoice) # Never
             /\ t.at - SweepLimit <= Chased(t.letter.invoice)

WeeksInv ==
  /\ \A s \in Sweeps, i \in Invoices :
       OnTheWay(s) /\ Ruleless(i) => ReadRight(s, i)
  /\ \A t \in taken : TakenRight(t)
  /\ \A t, u \in taken : t.letter = u.letter => t = u
  /\ \A letter \in told :
       letter.rule = Weekly => Ruleless(letter.invoice) /\ Over(letter)
  /\ LettersAWeekApart

RemindersInv == TypesInv /\ ClaimsInv /\ ToldInv /\ WeeksInv

-----------------------------------------------------------------------------
(* One sweep at a time moves, and only in its own record. *)
Only(s) ==
  /\ sweep' \in [Sweeps -> SweepRecord]
  /\ \A t \in Sweeps : LetterInHand(sweep'[t])
  /\ \A t \in Sweeps \ {s} : sweep'[t] = sweep[t]

(* It goes on from what it read. *)
Goes(s, stage) ==
  /\ Only(s)
  /\ sweep'[s].stage = stage
  /\ sweep'[s].now = sweep[s].now
  /\ sweep'[s].last = sweep[s].last

LEMMA OneSweep ==
  ASSUME TypesInv, NEW s \in Sweeps, NEW new \in SweepRecord, LetterInHand(new),
         sweep' = [sweep EXCEPT ![s] = new]
  PROVE  Only(s) /\ sweep'[s] = new
<1>1. /\ sweep' \in [Sweeps -> SweepRecord]
      /\ sweep'[s] = new
      /\ \A t \in Sweeps \ {s} : sweep'[t] = sweep[t]
  BY DEF TypesInv
<1>2. ASSUME NEW t \in Sweeps \ {s} PROVE LetterInHand(sweep'[t])
  BY <1>1 DEF TypesInv
<1>3. \A t \in Sweeps : LetterInHand(sweep'[t])
  BY <1>1, <1>2
<1> QED
  BY <1>1, <1>3 DEF Only

LEMMA Typed ==
  ASSUME TypesInv, NEW s \in Sweeps
  PROVE  sweep[s] \in SweepRecord /\ LetterInHand(sweep[s])
BY DEF TypesInv

LEMMA MovesOn ==
  ASSUME TypesInv, NEW s \in Sweeps, NEW i \in Invoices, MoveOn(s, i)
  PROVE  Goes(s, "chasing")
<1>1. sweep[s] \in SweepRecord
  BY Typed
<1> DEFINE new == [sweep[s] EXCEPT !.stage = "chasing", !.todo = @ \ {i},
                                   !.letter = NoLetter]
<1>2. new \in SweepRecord
  BY <1>1 DEF SweepRecord, Stages
<1>3. LetterInHand(new)
  BY <1>1 DEF SweepRecord, LetterInHand
<1>4. sweep' = [sweep EXCEPT ![s] = new]
  BY <1>1 DEF MoveOn, TypesInv, SweepRecord
<1>5. new.stage = "chasing" /\ new.now = sweep[s].now /\ new.last = sweep[s].last
  BY <1>1 DEF SweepRecord
<1> HIDE DEF new
<1>6. Only(s) /\ sweep'[s] = new
  BY <1>2, <1>3, <1>4, OneSweep
<1> QED
  BY <1>5, <1>6 DEF Goes

LEMMA HoldsLetter ==
  ASSUME TypesInv, NEW s \in Sweeps, NEW letter \in Letters,
         letter.invoice \in sweep[s].todo, Hold(s, letter)
  PROVE  Goes(s, "sending") /\ sweep'[s].letter = letter
<1>1. sweep[s] \in SweepRecord
  BY Typed
<1> DEFINE new == [sweep[s] EXCEPT !.stage = "sending", !.letter = letter]
<1>2. new \in SweepRecord
  BY <1>1 DEF SweepRecord, Stages
<1>3. LetterInHand(new)
  BY <1>1 DEF SweepRecord, LetterInHand
<1>4. sweep' = [sweep EXCEPT ![s] = new]
  BY <1>1 DEF Hold, TypesInv, SweepRecord
<1>5. /\ new.stage = "sending" /\ new.now = sweep[s].now
      /\ new.last = sweep[s].last /\ new.letter = letter
  BY <1>1 DEF SweepRecord
<1> HIDE DEF new
<1>6. Only(s) /\ sweep'[s] = new
  BY <1>2, <1>3, <1>4, OneSweep
<1> QED
  BY <1>5, <1>6 DEF Goes

LEMMA NewStage ==
  ASSUME TypesInv, NEW s \in Sweeps, NEW stage \in Stages,
         stage \in {"sending", "stamping", "failed"} =>
           sweep[s].stage \in {"sending", "stamping", "failed"},
         sweep' = [sweep EXCEPT ![s].stage = stage]
  PROVE  Goes(s, stage) /\ sweep'[s].letter = sweep[s].letter
<1>1. sweep[s] \in SweepRecord /\ LetterInHand(sweep[s])
  BY Typed
<1> DEFINE new == [sweep[s] EXCEPT !.stage = stage]
<1>2. new \in SweepRecord
  BY <1>1 DEF SweepRecord, Stages
<1>3. LetterInHand(new)
  BY <1>1 DEF SweepRecord, LetterInHand, Stages
<1>4. sweep' = [sweep EXCEPT ![s] = new]
  BY <1>1 DEF TypesInv, SweepRecord
<1>5. /\ new.stage = stage /\ new.now = sweep[s].now
      /\ new.last = sweep[s].last /\ new.letter = sweep[s].letter
  BY <1>1 DEF SweepRecord
<1> HIDE DEF new
<1>6. Only(s) /\ sweep'[s] = new
  BY <1>2, <1>3, <1>4, OneSweep
<1> QED
  BY <1>5, <1>6 DEF Goes

LEMMA IdleTyped == Idle \in SweepRecord /\ LetterInHand(Idle)
<1>1. 0 \in Times /\ Never \in Stamps
  BY TimesAssumption DEF Times, Stamps, Never
<1>2. Idle \in SweepRecord
  BY <1>1 DEF Idle, SweepRecord, Stages
<1>3. LetterInHand(Idle)
  BY DEF Idle, LetterInHand
<1> QED
  BY <1>2, <1>3

LEMMA Ends ==
  ASSUME TypesInv, NEW s \in Sweeps, sweep' = [sweep EXCEPT ![s] = Idle]
  PROVE  Only(s) /\ sweep'[s].stage = "idle"
<1>1. Only(s) /\ sweep'[s] = Idle
  BY IdleTyped, OneSweep
<1> QED
  BY <1>1 DEF Idle

LEMMA Begins ==
  ASSUME TypesInv, NEW s \in Sweeps, ReadInvoices(s)
  PROVE  /\ Only(s)
         /\ sweep'[s].stage = "reading"
         /\ sweep'[s].now = clock
         /\ sweep'[s].last = last
<1> DEFINE new == [Idle EXCEPT !.stage = "reading", !.now = clock,
                               !.todo = owed, !.last = last]
<1>1. new \in SweepRecord
  BY IdleTyped DEF SweepRecord, Stages, TypesInv
<1>2. new.stage = "reading" /\ new.now = clock /\ new.last = last
  BY IdleTyped DEF SweepRecord
<1>3. LetterInHand(new)
  BY <1>2 DEF LetterInHand
<1>4. sweep' = [sweep EXCEPT ![s] = new]
  BY DEF ReadInvoices
<1> HIDE DEF new
<1>5. Only(s) /\ sweep'[s] = new
  BY <1>1, <1>3, <1>4, OneSweep
<1> QED
  BY <1>2, <1>5

LEMMA ReadsLog ==
  ASSUME TypesInv, NEW s \in Sweeps, ReadLog(s)
  PROVE  Goes(s, "chasing")
<1>1. sweep[s] \in SweepRecord
  BY Typed
<1> DEFINE new == [sweep[s] EXCEPT !.stage = "chasing", !.done = log]
<1>2. new \in SweepRecord
  BY <1>1 DEF SweepRecord, Stages, TypesInv
<1>3. new.stage = "chasing" /\ new.now = sweep[s].now /\ new.last = sweep[s].last
  BY <1>1 DEF SweepRecord
<1>4. LetterInHand(new)
  BY <1>3 DEF LetterInHand
<1>5. sweep' = [sweep EXCEPT ![s] = new]
  BY <1>1 DEF ReadLog, TypesInv, SweepRecord
<1> HIDE DEF new
<1>6. Only(s) /\ sweep'[s] = new
  BY <1>2, <1>4, <1>5, OneSweep
<1> QED
  BY <1>3, <1>6 DEF Goes

LEMMA InHandTyped ==
  ASSUME TypesInv, NEW s \in Sweeps,
         sweep[s].stage \in {"sending", "stamping", "failed"}
  PROVE  /\ InHand(s) \in Letters
         /\ InHand(s).invoice \in sweep[s].todo
         /\ InHand(s).invoice \in Invoices
<1>1. sweep[s] \in SweepRecord /\ LetterInHand(sweep[s])
  BY Typed
<1>2. InHand(s) \in Letters
  BY <1>1 DEF LetterInHand, InHand
<1>3. InHand(s).invoice \in sweep[s].todo
  BY <1>1 DEF LetterInHand, InHand
<1>4. InHand(s).invoice \in Invoices
  BY <1>2 DEF Letters
<1> QED
  BY <1>2, <1>3, <1>4

LEMMA LettersTyped ==
  ASSUME TypesInv, NEW s \in Sweeps, NEW i \in Invoices
  PROVE  /\ \A rule \in RulesOf[i] : RuleLetter(i, rule) \in Letters
         /\ WeeklyLetter(s, i) \in Letters
<1>1. RulesOf[i] \subseteq Nat
  BY RulesAssumption
<1>2. Never \in Stamps
  BY DEF Stamps
<1>3. sweep[s].last[i] \in Stamps
  BY Typed DEF SweepRecord
<1>4. \A rule \in RulesOf[i] : RuleLetter(i, rule) \in Letters
  BY <1>1, <1>2 DEF RuleLetter, Letters
<1>5. WeeklyLetter(s, i) \in Letters
  BY <1>3 DEF WeeklyLetter, Letters
<1> QED
  BY <1>4, <1>5

(* There is an earliest rule where there is a rule that is due. *)
LEMMA NatMin ==
  ASSUME NEW S, S \subseteq Nat, S # {}
  PROVE  \E x \in S : \A y \in S : x <= y
<1> DEFINE R == OpToRel(<, Nat)
<1>1. IsWellFoundedOn(R, Nat)
  BY NatLessThanWellFounded
<1> HIDE DEF R
<1>2. PICK x \in S : \A y \in S : ~(<<y, x>> \in R)
  BY <1>1, WFMin, Zenon
<1>3. ASSUME NEW y \in S PROVE x <= y
  <2>1. <<y, x>> \notin R
    BY <1>2
  <2>2. ~(y < x)
    BY <2>1 DEF R, OpToRel
  <2> QED
    BY <2>2
<1> QED
  BY <1>3

LEMMA TheNextRule ==
  ASSUME NEW s \in Sweeps, NEW i \in Invoices, DueUnsent(s, i) # {}
  PROVE  NextRule(s, i) \in DueUnsent(s, i)
<1>1. DueUnsent(s, i) \subseteq Nat
  BY RulesAssumption DEF DueUnsent
<1>2. \E n \in DueUnsent(s, i) : \A r \in DueUnsent(s, i) : n <= r
  BY <1>1, NatMin
<1> QED
  BY <1>2 DEF NextRule

(* What a claim puts in hand. *)
LEMMA ClaimsRule ==
  ASSUME TypesInv, NEW s \in Sweeps, NEW i \in Invoices, ClaimRule(s, i)
  PROVE  \/ Goes(s, "chasing") /\ UNCHANGED log
         \/ \E rule \in RulesOf[i] :
              /\ RuleLetter(i, rule) \notin log
              /\ log' = log \cup {RuleLetter(i, rule)}
              /\ Goes(s, "sending")
              /\ sweep'[s].letter = RuleLetter(i, rule)
<1> DEFINE rule == NextRule(s, i)
           letter == RuleLetter(i, rule)
<1>1. rule \in RulesOf[i]
  BY TheNextRule DEF ClaimRule, DueUnsent
<1>2. letter \in Letters /\ letter.invoice \in sweep[s].todo
  BY <1>1, LettersTyped DEF ClaimRule, RuleLetter
<1>3. IF letter \in log THEN MoveOn(s, i) /\ UNCHANGED log
      ELSE Hold(s, letter) /\ log' = log \cup {letter}
  BY DEF ClaimRule
<1> HIDE DEF letter
<1>4. CASE letter \in log
  BY <1>3, <1>4, MovesOn
<1>5. CASE letter \notin log
  <2>1. Goes(s, "sending") /\ sweep'[s].letter = letter
    BY <1>2, <1>3, <1>5, HoldsLetter
  <2> QED
    BY <1>1, <1>3, <1>5, <2>1 DEF letter
<1> QED
  BY <1>4, <1>5

LEMMA ClaimsWeek ==
  ASSUME TypesInv, NEW s \in Sweeps, NEW i \in Invoices, ClaimWeek(s, i)
  PROVE  \/ Goes(s, "chasing") /\ UNCHANGED last
         \/ /\ ~Throttled(last[i], sweep[s].now)
            /\ last' = [last EXCEPT ![i] = sweep[s].now]
            /\ Goes(s, "sending")
            /\ sweep'[s].letter = WeeklyLetter(s, i)
<1>1. WeeklyLetter(s, i) \in Letters /\ WeeklyLetter(s, i).invoice = i
  BY LettersTyped DEF WeeklyLetter
<1>2. IF Throttled(last[i], sweep[s].now) THEN MoveOn(s, i) /\ UNCHANGED last
      ELSE /\ Hold(s, WeeklyLetter(s, i))
           /\ last' = [last EXCEPT ![i] = sweep[s].now]
  BY DEF ClaimWeek
<1>3. CASE Throttled(last[i], sweep[s].now)
  BY <1>2, <1>3, MovesOn
<1>4. CASE ~Throttled(last[i], sweep[s].now)
  <2>1. i \in sweep[s].todo
    BY DEF ClaimWeek
  <2>2. Goes(s, "sending") /\ sweep'[s].letter = WeeklyLetter(s, i)
    BY <1>1, <1>2, <1>4, <2>1, HoldsLetter
  <2> QED
    BY <1>2, <1>4, <2>2
<1> QED
  BY <1>3, <1>4

-----------------------------------------------------------------------------
(* The type invariant. *)
LEMMA TypesStart == ASSUME Init PROVE TypesInv
<1>1. 0 \in Times /\ Never \in Stamps /\ 0 \in 0..MaxFaults
  BY TimesAssumption DEF Times, Stamps, Never
<1>2. \A s \in Sweeps : sweep[s] = Idle
  BY DEF Init
<1>3. sweep \in [Sweeps -> SweepRecord]
  BY IdleTyped DEF Init
<1>4. owed \subseteq Invoices
  BY RulesAssumption DEF Init
<1>5. \A s \in Sweeps : LetterInHand(sweep[s])
  BY <1>2, IdleTyped
<1> QED
  BY <1>1, <1>3, <1>4, <1>5 DEF Init, TypesInv

(* A step of one sweep that leaves the tables typed. *)
LEMMA TypesKept ==
  ASSUME TypesInv, NEW s \in Sweeps, Only(s),
         clock' = clock, owed' = owed,
         last' \in [Invoices -> Stamps],
         log' \subseteq Letters,
         taken' \subseteq [letter : Letters, at : Times],
         told' \subseteq Letters, cut' \subseteq Letters,
         faults' \in 0..MaxFaults
  PROVE  TypesInv'
BY DEF TypesInv, Only

LEMMA TypesStep == ASSUME TypesInv, [Next]_vars PROVE TypesInv'
<1> USE DEF rows, post
<1>1. ASSUME NEW s \in Sweeps, ReadInvoices(s) PROVE TypesInv'
  <2>1. Only(s)
    BY <1>1, Begins
  <2>2. UNCHANGED <<clock, rows, post, cut, faults>>
    BY <1>1 DEF ReadInvoices
  <2> QED
    BY <2>1, <2>2, TypesKept DEF TypesInv
<1>2. ASSUME NEW s \in Sweeps, ReadLog(s) PROVE TypesInv'
  <2>1. Only(s)
    BY <1>2, ReadsLog DEF Goes
  <2>2. UNCHANGED <<clock, rows, post, cut, faults>>
    BY <1>2 DEF ReadLog
  <2> QED
    BY <2>1, <2>2, TypesKept DEF TypesInv
<1>3. ASSUME NEW s \in Sweeps, NEW i \in Invoices, PassOver(s, i) PROVE TypesInv'
  <2>1. Only(s)
    BY <1>3, MovesOn DEF PassOver, Goes
  <2>2. UNCHANGED <<clock, rows, post, cut, faults>>
    BY <1>3 DEF PassOver
  <2> QED
    BY <2>1, <2>2, TypesKept DEF TypesInv
<1>4. ASSUME NEW s \in Sweeps, NEW i \in Invoices, ClaimRule(s, i) PROVE TypesInv'
  <2>1. Only(s)
    BY <1>4, ClaimsRule DEF Goes
  <2>2. log' \subseteq Letters
    BY <1>4, ClaimsRule, LettersTyped DEF TypesInv
  <2>3. UNCHANGED <<clock, owed, last, post, cut, faults>>
    BY <1>4 DEF ClaimRule
  <2> QED
    BY <2>1, <2>2, <2>3, TypesKept DEF TypesInv
<1>5. ASSUME NEW s \in Sweeps, NEW i \in Invoices, ClaimWeek(s, i) PROVE TypesInv'
  <2>1. Only(s)
    BY <1>5, ClaimsWeek DEF Goes
  <2>2. last' \in [Invoices -> Stamps]
    <3>1. sweep[s].now \in Stamps
      BY Typed DEF SweepRecord, Stamps
    <3> QED
      BY <1>5, <3>1, ClaimsWeek DEF TypesInv
  <2>3. UNCHANGED <<clock, owed, log, post, cut, faults>>
    BY <1>5 DEF ClaimWeek
  <2> QED
    BY <2>1, <2>2, <2>3, TypesKept DEF TypesInv
<1>6. ASSUME NEW s \in Sweeps, sweep[s].stage = "sending", Take(s)
      PROVE  taken' \subseteq [letter : Letters, at : Times]
  <2>1. InHand(s) \in Letters /\ sweep[s].now \in Times
    BY <1>6, InHandTyped, Typed DEF SweepRecord
  <2> QED
    BY <1>6, <2>1 DEF Take, TypesInv
<1>7. ASSUME NEW s \in Sweeps, Sent(s) PROVE TypesInv'
  <2>1. sweep[s].stage = "sending" /\ InHand(s) \in Letters
        /\ InHand(s).invoice \in Invoices
    BY <1>7, InHandTyped DEF Sent
  <2>2. Only(s)
    <3>1. CASE InHand(s).rule = Weekly
      BY <1>7, <2>1, <3>1, MovesOn DEF Sent, Goes
    <3>2. CASE InHand(s).rule # Weekly
      <4>1. sweep' = [sweep EXCEPT ![s].stage = "stamping"]
        BY <1>7, <3>2 DEF Sent
      <4> QED
        BY <2>1, <4>1, NewStage DEF Stages, Goes
    <3> QED
      BY <3>1, <3>2
  <2>3. taken' \subseteq [letter : Letters, at : Times]
    BY <1>7, <1>6 DEF Sent
  <2>4. told' \subseteq Letters
    BY <1>7, <2>1 DEF Sent, TypesInv
  <2>5. UNCHANGED <<clock, rows, cut, faults>>
    BY <1>7 DEF Sent
  <2> QED
    BY <2>2, <2>3, <2>4, <2>5, TypesKept DEF TypesInv
<1>8. ASSUME faults < MaxFaults, faults' = faults + 1
      PROVE  faults' \in 0..MaxFaults
  BY <1>8, TimesAssumption DEF TypesInv
<1>9. ASSUME NEW s \in Sweeps, SendFails(s) PROVE TypesInv'
  <2>1. sweep[s].stage = "sending" /\ sweep' = [sweep EXCEPT ![s].stage = "failed"]
    BY <1>9 DEF SendFails
  <2>2. Only(s)
    BY <2>1, NewStage DEF Stages, Goes
  <2>3. taken' \subseteq [letter : Letters, at : Times]
    BY <1>9, <1>6 DEF SendFails, TypesInv
  <2>4. faults' \in 0..MaxFaults
    BY <1>9, <1>8 DEF SendFails
  <2>5. UNCHANGED <<clock, rows, told, cut>>
    BY <1>9 DEF SendFails
  <2> QED
    BY <2>2, <2>3, <2>4, <2>5, TypesKept DEF TypesInv
<1>10. ASSUME NEW s \in Sweeps, Stamp(s) PROVE TypesInv'
  <2>1. sweep[s].stage = "stamping" /\ InHand(s).invoice \in Invoices
        /\ sweep[s].now \in Stamps
    BY <1>10, InHandTyped, Typed DEF Stamp, SweepRecord, Stamps
  <2>2. Only(s)
    BY <1>10, <2>1, MovesOn DEF Stamp, Goes
  <2>3. last' \in [Invoices -> Stamps]
    BY <1>10, <2>1 DEF Stamp, TypesInv
  <2>4. UNCHANGED <<clock, owed, log, post, cut, faults>>
    BY <1>10 DEF Stamp
  <2> QED
    BY <2>2, <2>3, <2>4, TypesKept DEF TypesInv
<1>11. ASSUME NEW s \in Sweeps, TakeBack(s) PROVE TypesInv'
  <2>1. sweep[s].stage = "failed" /\ InHand(s).invoice \in Invoices
        /\ sweep[s].last \in [Invoices -> Stamps]
    BY <1>11, InHandTyped, Typed DEF TakeBack, SweepRecord
  <2>2. Only(s)
    BY <1>11, <2>1, MovesOn DEF TakeBack, Goes
  <2>3. last' \in [Invoices -> Stamps]
    BY <1>11, <2>1 DEF TakeBack, TypesInv
  <2>4. log' \subseteq Letters
    BY <1>11 DEF TakeBack, TypesInv
  <2>5. UNCHANGED <<clock, owed, post, cut, faults>>
    BY <1>11 DEF TakeBack
  <2> QED
    BY <2>2, <2>3, <2>4, <2>5, TypesKept DEF TypesInv
<1>12. ASSUME NEW s \in Sweeps, Finish(s) PROVE TypesInv'
  <2>1. Only(s)
    BY <1>12, Ends DEF Finish
  <2>2. UNCHANGED <<clock, rows, post, cut, faults>>
    BY <1>12 DEF Finish
  <2> QED
    BY <2>1, <2>2, TypesKept DEF TypesInv
<1>13. ASSUME NEW s \in Sweeps, Fall(s) PROVE TypesInv'
  <2>1. Only(s)
    BY <1>13, Ends DEF Fall
  <2>2. cut' \subseteq Letters
    BY <1>13, InHandTyped DEF Fall, TypesInv
  <2>3. faults' \in 0..MaxFaults
    BY <1>13, <1>8 DEF Fall
  <2>4. UNCHANGED <<clock, rows, post>>
    BY <1>13 DEF Fall
  <2> QED
    BY <2>1, <2>2, <2>3, <2>4, TypesKept DEF TypesInv
<1>14. ASSUME NEW i \in Invoices, Settle(i) PROVE TypesInv'
  BY <1>14 DEF Settle, TypesInv
<1>15. ASSUME Tick PROVE TypesInv'
  <2>1. clock' \in Times
    BY <1>15, TimesAssumption DEF Tick, TypesInv, Times
  <2>2. UNCHANGED <<rows, sweep, post, cut, faults>>
    BY <1>15 DEF Tick
  <2> QED
    BY <2>1, <2>2 DEF TypesInv
<1>16. ASSUME UNCHANGED vars PROVE TypesInv'
  BY <1>16 DEF vars, TypesInv
<1> QED
  BY <1>1, <1>2, <1>3, <1>4, <1>5, <1>7, <1>9, <1>10, <1>11, <1>12, <1>13, <1>14,
     <1>15, <1>16 DEF Next, Chase

(* Every table, claim and letter is what the code takes it for. *)
LEMMA TypesGiveTypeOK == ASSUME TypesInv PROVE TypeOK
<1>1. ASSUME NEW s \in Sweeps
      PROVE  /\ sweep[s].stage \in Stages
             /\ sweep[s].now \in Times
             /\ sweep[s].todo \subseteq Invoices
             /\ sweep[s].last \in [Invoices -> Stamps]
             /\ sweep[s].done \subseteq Letters
             /\ sweep[s].letter \in Letters \cup {NoLetter}
  BY Typed DEF SweepRecord
<1>2. ASSUME NEW s \in Sweeps, sweep[s].stage \in {"sending", "stamping", "failed"}
      PROVE  InHand(s).invoice \in sweep[s].todo
  BY <1>2, InHandTyped
<1> QED
  BY <1>1, <1>2 DEF TypesInv, TypeOK, Stages

THEOREM RemindersTypes == Spec => []TypeOK
<1>1. Init => TypesInv
  BY TypesStart
<1>2. TypesInv /\ [Next]_vars => TypesInv'
  BY TypesStep
<1>3. TypesInv => TypeOK
  BY TypesGiveTypeOK
<1> QED
  BY <1>1, <1>2, <1>3, PTL DEF Spec

-----------------------------------------------------------------------------
(* A letter that is claimed is claimed once. *)
LEMMA ClockTyped ==
  ASSUME TypesInv
  PROVE  /\ clock \in Nat
         /\ \A s \in Sweeps : sweep[s].now \in Nat
         /\ \A i \in Invoices : last[i] \in Nat \cup {Never}
         /\ \A s \in Sweeps, i \in Invoices : sweep[s].last[i] \in Nat \cup {Never}
<1>1. Times \subseteq Nat /\ Stamps \subseteq Nat \cup {Never}
  BY TimesAssumption DEF Times, Stamps
<1>2. clock \in Nat /\ \A i \in Invoices : last[i] \in Nat \cup {Never}
  BY <1>1 DEF TypesInv
<1>3. ASSUME NEW s \in Sweeps, NEW i \in Invoices
      PROVE  sweep[s].last[i] \in Nat \cup {Never}
  BY <1>1, Typed DEF SweepRecord
<1>4. ASSUME NEW s \in Sweeps PROVE sweep[s].now \in Nat
  BY <1>1, Typed DEF SweepRecord
<1> QED
  BY <1>2, <1>3, <1>4

LEMMA ClaimTyped ==
  ASSUME TypesInv, ClaimsInv, NEW s \in Sweeps, Claimed(s)
  PROVE  /\ InHand(s) \in Letters
         /\ InHand(s).invoice \in Invoices
         /\ IF InHand(s).rule = Weekly THEN WeekClaim(s) ELSE RuleClaim(s)
<1>1. InHand(s) \in Letters /\ InHand(s).invoice \in Invoices
  BY InHandTyped DEF Claimed
<1>2. IF InHand(s).rule = Weekly THEN WeekClaim(s) ELSE RuleClaim(s)
  BY DEF ClaimsInv, ClaimHolds
<1> QED
  BY <1>1, <1>2

(* Overlapping sweeps are all within a week of one another: what one has
   stamped, another finds stamped. *)
LEMMA StampsThrottle ==
  ASSUME TypesInv, ClaimsInv, NEW s \in Sweeps, OnTheWay(s),
         NEW stamp \in Nat, clock - stamp <= SweepLimit
  PROVE  Throttled(stamp, sweep[s].now)
<1>1. sweep[s].now <= clock
  BY DEF ClaimsInv, InTime
<1>2. stamp > sweep[s].now - Week
  BY <1>1, ClockTyped, TimesAssumption
<1>3. stamp # Never
  BY DEF Never
<1> QED
  BY <1>2, <1>3 DEF Throttled

LEMMA ClaimsThrottle ==
  ASSUME TypesInv, ClaimsInv, NEW s \in Sweeps, OnTheWay(s),
         NEW t \in Sweeps, NEW i \in Invoices, ChasesWeekly(t, i)
  PROVE  Throttled(last[i], sweep[s].now)
<1>1. last[i] = sweep[t].now
  BY ClaimTyped DEF ChasesWeekly, WeekClaim
<1>2. OnTheWay(t)
  BY DEF ChasesWeekly, Claimed, OnTheWay
<1>3. sweep[t].now \in Nat /\ clock - sweep[t].now <= SweepLimit
  BY <1>2, ClockTyped DEF ClaimsInv, InTime
<1> QED
  BY <1>1, <1>3, StampsThrottle

(* What a step of one sweep has to leave of the others' claims. *)
LEMMA ClaimsKept ==
  ASSUME TypesInv, ClaimsInv, NEW s \in Sweeps, Only(s), clock' = clock,
         InTime(s)', ClaimHolds(s)',
         \A t \in Sweeps \ {s} : Claimed(t) =>
           IF InHand(t).rule = Weekly
           THEN last'[InHand(t).invoice] = last[InHand(t).invoice]
           ELSE InHand(t) \in log',
         \A t \in Sweeps \ {s} : Claimed(t) /\ Claimed(s)' =>
           \/ InHand(t).rule # InHand(s)'.rule
           \/ InHand(t).invoice # InHand(s)'.invoice
  PROVE  ClaimsInv'
<1>1. \A t \in Sweeps \ {s} : sweep'[t] = sweep[t]
  BY DEF Only
<1>2. ASSUME NEW t \in Sweeps \ {s} PROVE InTime(t)' /\ ClaimHolds(t)'
  <2>1. InTime(t) /\ ClaimHolds(t)
    BY DEF ClaimsInv
  <2>2. InTime(t)'
    BY <1>1, <2>1 DEF InTime, OnTheWay
  <2>3. Claimed(t)' => IF InHand(t)'.rule = Weekly THEN WeekClaim(t)' ELSE RuleClaim(t)'
    <3>1. Claimed(t)' <=> Claimed(t)
      BY <1>1 DEF Claimed
    <3>2. InHand(t)' = InHand(t)
      BY <1>1 DEF InHand
    <3>3. ASSUME Claimed(t), InHand(t).rule = Weekly, WeekClaim(t) PROVE WeekClaim(t)'
      <4>1. last'[InHand(t).invoice] = last[InHand(t).invoice]
        BY <3>3
      <4> QED
        BY <1>1, <3>2, <3>3, <4>1 DEF WeekClaim, Ruleless, WeeklyLetter
    <3>4. ASSUME Claimed(t), InHand(t).rule # Weekly, RuleClaim(t) PROVE RuleClaim(t)'
      BY <3>2, <3>4 DEF RuleClaim, Ruleless, RuleLetter
    <3> QED
      BY <2>1, <3>1, <3>2, <3>3, <3>4 DEF ClaimHolds
  <2>4. sweep'[t].stage = "stamping" => ~Ruleless(InHand(t)'.invoice)
    BY <1>1, <2>1 DEF ClaimHolds, InHand, Ruleless
  <2> QED
    BY <2>2, <2>3, <2>4 DEF ClaimHolds, Ruleless
<1>3. \A t \in Sweeps : InTime(t)' /\ ClaimHolds(t)'
  BY <1>2
<1>4. ASSUME NEW t \in Sweeps, NEW u \in Sweeps, Claimed(t)', Claimed(u)',
             InHand(t)'.rule = InHand(u)'.rule,
             InHand(t)'.invoice = InHand(u)'.invoice
      PROVE  t = u
  <2>1. \A v \in Sweeps \ {s} : (Claimed(v)' <=> Claimed(v)) /\ InHand(v)' = InHand(v)
    BY <1>1 DEF Claimed, InHand
  <2>2. CASE t # s /\ u # s
    BY <1>4, <2>1, <2>2 DEF ClaimsInv
  <2>3. CASE t = s /\ u # s
    BY <1>4, <2>1, <2>3
  <2>4. CASE t # s /\ u = s
    BY <1>4, <2>1, <2>4
  <2> QED
    BY <2>2, <2>3, <2>4
<1> QED
  BY <1>3, <1>4 DEF ClaimsInv

(* A step that puts nothing in hand, and leaves the claims of others alone. *)
LEMMA QuietClaims ==
  ASSUME TypesInv, ClaimsInv, NEW s \in Sweeps, Only(s), clock' = clock,
         sweep'[s].stage \in {"idle", "reading", "chasing"},
         \/ sweep'[s].stage = "idle"
         \/ sweep'[s].now = clock
         \/ OnTheWay(s) /\ sweep'[s].now = sweep[s].now,
         \A t \in Sweeps \ {s} : Claimed(t) =>
           IF InHand(t).rule = Weekly
           THEN last'[InHand(t).invoice] = last[InHand(t).invoice]
           ELSE InHand(t) \in log'
  PROVE  ClaimsInv'
<1>1. InTime(s)'
  <2>1. InTime(s) /\ clock - clock <= SweepLimit
    BY ClockTyped, TimesAssumption DEF ClaimsInv
  <2> QED
    BY <2>1, ClockTyped DEF InTime, OnTheWay
<1>2. ~Claimed(s)' /\ ClaimHolds(s)'
  BY DEF Claimed, ClaimHolds
<1> QED
  BY <1>1, <1>2, ClaimsKept

LEMMA NothingTouched ==
  ASSUME TypesInv, ClaimsInv, NEW t \in Sweeps, UNCHANGED <<last, log>>
  PROVE  Claimed(t) =>
           IF InHand(t).rule = Weekly
           THEN last'[InHand(t).invoice] = last[InHand(t).invoice]
           ELSE InHand(t) \in log'
BY ClaimTyped DEF RuleClaim

LEMMA ClaimsStart == ASSUME Init PROVE ClaimsInv
<1>1. \A s \in Sweeps : sweep[s].stage = "idle"
  BY DEF Init, Idle
<1> QED
  BY <1>1 DEF ClaimsInv, InTime, ClaimHolds, OnTheWay, Claimed

LEMMA ClaimsStep == ASSUME TypesInv, ClaimsInv, [Next]_vars PROVE ClaimsInv'
<1> USE DEF rows, post
<1>1. ASSUME NEW s \in Sweeps, ReadInvoices(s) PROVE ClaimsInv'
  <2>1. Only(s) /\ sweep'[s].stage = "reading" /\ sweep'[s].now = clock
    BY <1>1, Begins
  <2>2. clock' = clock /\ UNCHANGED <<last, log>>
    BY <1>1 DEF ReadInvoices
  <2> QED
    BY <2>1, <2>2, NothingTouched, QuietClaims
<1>2. ASSUME NEW s \in Sweeps, OnTheWay(s), Goes(s, "chasing"), clock' = clock,
             UNCHANGED <<last, log>>
      PROVE  ClaimsInv'
  BY <1>2, NothingTouched, QuietClaims DEF Goes
<1>3. ASSUME NEW s \in Sweeps, ReadLog(s) PROVE ClaimsInv'
  <2>1. OnTheWay(s) /\ clock' = clock /\ UNCHANGED <<last, log>>
    BY <1>3 DEF ReadLog, OnTheWay
  <2> QED
    BY <1>3, <1>2, <2>1, ReadsLog
<1>4. ASSUME NEW s \in Sweeps, NEW i \in Invoices, PassOver(s, i) PROVE ClaimsInv'
  <2>1. OnTheWay(s) /\ clock' = clock /\ UNCHANGED <<last, log>> /\ MoveOn(s, i)
    BY <1>4 DEF PassOver, OnTheWay
  <2> QED
    BY <1>2, <2>1, MovesOn
<1>5. ASSUME NEW s \in Sweeps, NEW i \in Invoices, ClaimRule(s, i) PROVE ClaimsInv'
  <2>1. OnTheWay(s) /\ clock' = clock /\ UNCHANGED last
    BY <1>5 DEF ClaimRule, OnTheWay
  <2>2. CASE Goes(s, "chasing") /\ UNCHANGED log
    BY <1>2, <2>1, <2>2
  <2>3. ASSUME NEW rule \in RulesOf[i], RuleLetter(i, rule) \notin log,
               log' = log \cup {RuleLetter(i, rule)}, Goes(s, "sending"),
               sweep'[s].letter = RuleLetter(i, rule)
        PROVE  ClaimsInv'
    <3>1. Only(s) /\ sweep'[s].stage = "sending" /\ sweep'[s].now = sweep[s].now
      BY <2>3 DEF Goes
    <3>2. InTime(s)'
      BY <2>1, <3>1 DEF InTime, OnTheWay, ClaimsInv
    <3>3. /\ InHand(s)' = RuleLetter(i, rule)
          /\ InHand(s)'.rule = rule /\ InHand(s)'.invoice = i
      BY <2>3 DEF InHand, RuleLetter
    <3>4. rule # Weekly
      BY RulesAssumption DEF Weekly
    <3>5. RuleClaim(s)'
      BY <2>3, <3>3 DEF RuleClaim, Ruleless, RuleLetter
    <3>6. ClaimHolds(s)'
      BY <3>1, <3>3, <3>4, <3>5 DEF ClaimHolds
    <3>7. ASSUME NEW t \in Sweeps \ {s}, Claimed(t)
          PROVE  /\ IF InHand(t).rule = Weekly
                    THEN last'[InHand(t).invoice] = last[InHand(t).invoice]
                    ELSE InHand(t) \in log'
                 /\ InHand(t).rule # rule \/ InHand(t).invoice # i
      BY <2>1, <2>3, <3>4, <3>7, ClaimTyped DEF RuleClaim
    <3> QED
      BY <2>1, <3>1, <3>2, <3>3, <3>6, <3>7, ClaimsKept
  <2> QED
    BY <1>5, <2>2, <2>3, ClaimsRule
<1>6. ASSUME NEW s \in Sweeps, NEW i \in Invoices, ClaimWeek(s, i) PROVE ClaimsInv'
  <2>1. /\ OnTheWay(s) /\ clock' = clock /\ UNCHANGED log
        /\ Ruleless(i) /\ ~Throttled(sweep[s].last[i], sweep[s].now)
    BY <1>6 DEF ClaimWeek, OnTheWay, Ruleless
  <2>2. CASE Goes(s, "chasing") /\ UNCHANGED last
    BY <1>2, <2>1, <2>2
  <2>3. CASE /\ ~Throttled(last[i], sweep[s].now)
             /\ last' = [last EXCEPT ![i] = sweep[s].now]
             /\ Goes(s, "sending")
             /\ sweep'[s].letter = WeeklyLetter(s, i)
    <3>1. /\ Only(s) /\ sweep'[s].stage = "sending"
          /\ sweep'[s].now = sweep[s].now /\ sweep'[s].last = sweep[s].last
      BY <2>3 DEF Goes
    <3>2. InTime(s)'
      BY <2>1, <3>1 DEF InTime, OnTheWay, ClaimsInv
    <3>3. /\ InHand(s)' = WeeklyLetter(s, i)
          /\ InHand(s)'.rule = Weekly /\ InHand(s)'.invoice = i
          /\ InHand(s)'.since = sweep[s].last[i]
      BY <2>3 DEF InHand, WeeklyLetter
    <3>4. last'[i] = sweep[s].now /\ \A j \in Invoices \ {i} : last'[j] = last[j]
      BY <2>3 DEF TypesInv
    <3>5. WeekClaim(s)'
      BY <2>1, <3>1, <3>3, <3>4 DEF WeekClaim, Ruleless, WeeklyLetter, Throttled
    <3>6. ClaimHolds(s)'
      BY <3>1, <3>3, <3>5 DEF ClaimHolds
    <3>7. ASSUME NEW t \in Sweeps \ {s}, Claimed(t), InHand(t).rule = Weekly
          PROVE  InHand(t).invoice # i
      BY <2>1, <2>3, <3>7, ClaimsThrottle DEF ChasesWeekly
    <3>8. ASSUME NEW t \in Sweeps \ {s}, Claimed(t)
          PROVE  IF InHand(t).rule = Weekly
                 THEN last'[InHand(t).invoice] = last[InHand(t).invoice]
                 ELSE InHand(t) \in log'
      BY <2>1, <3>4, <3>7, <3>8, ClaimTyped DEF RuleClaim
    <3> QED
      BY <2>1, <3>1, <3>2, <3>3, <3>6, <3>7, <3>8, ClaimsKept
  <2> QED
    BY <1>6, <2>2, <2>3, ClaimsWeek
<1>7. ASSUME NEW s \in Sweeps, Sent(s) PROVE ClaimsInv'
  <2>1. /\ OnTheWay(s) /\ Claimed(s) /\ sweep[s].stage = "sending"
        /\ clock' = clock /\ UNCHANGED <<last, log>>
    BY <1>7 DEF Sent, OnTheWay, Claimed
  <2>2. InHand(s).invoice \in Invoices
    BY <2>1, ClaimTyped
  <2>3. CASE InHand(s).rule = Weekly
    BY <1>7, <1>2, <2>1, <2>2, <2>3, MovesOn DEF Sent
  <2>4. CASE InHand(s).rule # Weekly
    <3>1. Goes(s, "stamping") /\ sweep'[s].letter = sweep[s].letter
      <4>1. sweep' = [sweep EXCEPT ![s].stage = "stamping"]
        BY <1>7, <2>4 DEF Sent
      <4> QED
        BY <2>1, <4>1, NewStage DEF Stages
    <3>2. ~Ruleless(InHand(s).invoice)
      BY <2>1, <2>4, ClaimTyped DEF RuleClaim
    <3>3. ClaimHolds(s)' /\ ~Claimed(s)'
      BY <3>1, <3>2 DEF Goes, ClaimHolds, Claimed, InHand, Ruleless
    <3>4. InTime(s)'
      BY <2>1, <3>1 DEF Goes, InTime, OnTheWay, ClaimsInv
    <3> QED
      BY <2>1, <3>1, <3>3, <3>4, NothingTouched, ClaimsKept DEF Goes
  <2> QED
    BY <2>3, <2>4
<1>8. ASSUME NEW s \in Sweeps, SendFails(s) PROVE ClaimsInv'
  <2>1. /\ OnTheWay(s) /\ Claimed(s) /\ sweep[s].stage = "sending"
        /\ clock' = clock /\ UNCHANGED <<last, log>>
        /\ sweep' = [sweep EXCEPT ![s].stage = "failed"]
    BY <1>8 DEF SendFails, OnTheWay, Claimed
  <2>2. Goes(s, "failed") /\ sweep'[s].letter = sweep[s].letter
    BY <2>1, NewStage DEF Stages
  <2>3. /\ InHand(s)' = InHand(s) /\ Claimed(s)'
        /\ sweep'[s].now = sweep[s].now /\ sweep'[s].last = sweep[s].last
    BY <2>2 DEF InHand, Claimed, Goes
  <2>4. ClaimHolds(s)'
    <3>1. InHand(s).rule = Weekly => WeekClaim(s)'
      BY <2>1, <2>3, ClaimTyped DEF WeekClaim, Ruleless, WeeklyLetter, Throttled
    <3>2. InHand(s).rule # Weekly => RuleClaim(s)'
      BY <2>1, <2>3, ClaimTyped DEF RuleClaim, Ruleless, RuleLetter
    <3> QED
      BY <2>2, <2>3, <3>1, <3>2 DEF ClaimHolds, Goes
  <2>5. InTime(s)'
    BY <2>1, <2>3 DEF InTime, OnTheWay, ClaimsInv
  <2>6. \A t \in Sweeps \ {s} : Claimed(t) =>
          InHand(t).rule # InHand(s).rule \/ InHand(t).invoice # InHand(s).invoice
    BY <2>1 DEF ClaimsInv
  <2> QED
    BY <2>1, <2>2, <2>3, <2>4, <2>5, <2>6, NothingTouched, ClaimsKept DEF Goes
<1>9. ASSUME NEW s \in Sweeps, Stamp(s) PROVE ClaimsInv'
  <2>1. /\ OnTheWay(s) /\ clock' = clock /\ UNCHANGED log
        /\ sweep[s].stage = "stamping" /\ MoveOn(s, InHand(s).invoice)
        /\ last' = [last EXCEPT ![InHand(s).invoice] = sweep[s].now]
    BY <1>9 DEF Stamp, OnTheWay
  <2>2. InHand(s).invoice \in Invoices /\ ~Ruleless(InHand(s).invoice)
    BY <2>1, InHandTyped DEF ClaimsInv, ClaimHolds
  <2>3. ASSUME NEW t \in Sweeps \ {s}, Claimed(t)
        PROVE  IF InHand(t).rule = Weekly
               THEN last'[InHand(t).invoice] = last[InHand(t).invoice]
               ELSE InHand(t) \in log'
    <3>1. InHand(t).invoice \in Invoices
      BY <2>3, ClaimTyped
    <3>2. InHand(t).rule = Weekly => InHand(t).invoice # InHand(s).invoice
      BY <2>2, <2>3, ClaimTyped DEF WeekClaim
    <3> QED
      BY <2>1, <2>3, <3>1, <3>2, ClaimTyped DEF RuleClaim, TypesInv
  <2> QED
    BY <2>1, <2>2, <2>3, MovesOn, QuietClaims DEF Goes
<1>10. ASSUME NEW s \in Sweeps, TakeBack(s) PROVE ClaimsInv'
  <2>1. /\ OnTheWay(s) /\ clock' = clock /\ Claimed(s)
        /\ MoveOn(s, InHand(s).invoice)
        /\ log' = log \ {InHand(s)}
        /\ last' = IF InHand(s).rule = Weekly /\ last[InHand(s).invoice] = sweep[s].now
                   THEN [last EXCEPT ![InHand(s).invoice] =
                           sweep[s].last[InHand(s).invoice]]
                   ELSE last
    BY <1>10 DEF TakeBack, OnTheWay, Claimed
  <2>2. InHand(s).invoice \in Invoices
    BY <2>1, ClaimTyped
  <2>3. ASSUME NEW t \in Sweeps \ {s}, Claimed(t)
        PROVE  IF InHand(t).rule = Weekly
               THEN last'[InHand(t).invoice] = last[InHand(t).invoice]
               ELSE InHand(t) \in log'
    <3>1. InHand(t).invoice \in Invoices
      BY <2>3, ClaimTyped
    <3>2. InHand(t).rule # InHand(s).rule \/ InHand(t).invoice # InHand(s).invoice
      BY <2>1, <2>3 DEF ClaimsInv
    <3>3. CASE InHand(t).rule = Weekly
      BY <2>1, <2>2, <3>1, <3>2, <3>3 DEF TypesInv
    <3>4. CASE InHand(t).rule # Weekly
      BY <2>1, <2>3, <3>2, <3>4, ClaimTyped DEF RuleClaim
    <3> QED
      BY <3>3, <3>4
  <2> QED
    BY <2>1, <2>2, <2>3, MovesOn, QuietClaims DEF Goes
<1>11. ASSUME NEW s \in Sweeps, Finish(s) PROVE ClaimsInv'
  <2>1. Only(s) /\ sweep'[s].stage = "idle"
    BY <1>11, Ends DEF Finish
  <2>2. clock' = clock /\ UNCHANGED <<last, log>>
    BY <1>11 DEF Finish
  <2> QED
    BY <2>1, <2>2, NothingTouched, QuietClaims
<1>12. ASSUME NEW s \in Sweeps, Fall(s) PROVE ClaimsInv'
  <2>1. Only(s) /\ sweep'[s].stage = "idle"
    BY <1>12, Ends DEF Fall
  <2>2. clock' = clock /\ UNCHANGED <<last, log>>
    BY <1>12 DEF Fall
  <2> QED
    BY <2>1, <2>2, NothingTouched, QuietClaims
<1>13. ASSUME UNCHANGED <<sweep, last, log>>, \A s \in Sweeps : InTime(s)'
      PROVE  ClaimsInv'
  <2>1. \A s \in Sweeps : ClaimHolds(s)'
    BY <1>13 DEF ClaimsInv, ClaimHolds, Claimed, InHand, WeekClaim, RuleClaim,
                WeeklyLetter, RuleLetter, Ruleless, Throttled
  <2>2. \A s \in Sweeps : (Claimed(s)' <=> Claimed(s)) /\ InHand(s)' = InHand(s)
    BY <1>13 DEF Claimed, InHand
  <2> QED
    BY <1>13, <2>1, <2>2 DEF ClaimsInv
<1>14. ASSUME NEW i \in Invoices, Settle(i) PROVE ClaimsInv'
  <2>1. UNCHANGED <<clock, sweep, last, log>>
    BY <1>14 DEF Settle
  <2> QED
    BY <1>13, <2>1 DEF ClaimsInv, InTime, OnTheWay
<1>15. ASSUME Tick PROVE ClaimsInv'
  <2>1. UNCHANGED <<sweep, last, log>> /\ clock' = clock + 1
    BY <1>15 DEF Tick
  <2>2. ASSUME NEW s \in Sweeps PROVE InTime(s)'
    <3>1. OnTheWay(s) => clock - sweep[s].now < SweepLimit
      BY <1>15 DEF Tick, OnTheWay
    <3>2. clock \in Nat /\ sweep[s].now \in Nat /\ SweepLimit \in Nat
      BY ClockTyped, TimesAssumption
    <3> QED
      BY <2>1, <3>1, <3>2 DEF InTime, OnTheWay, ClaimsInv
  <2> QED
    BY <1>13, <2>1, <2>2
<1>16. ASSUME UNCHANGED vars PROVE ClaimsInv'
  <2>1. UNCHANGED <<clock, sweep, last, log>>
    BY <1>16 DEF vars
  <2> QED
    BY <1>13, <2>1 DEF ClaimsInv, InTime, OnTheWay
<1> QED
  BY <1>1, <1>3, <1>4, <1>5, <1>6, <1>7, <1>8, <1>9, <1>10, <1>11, <1>12, <1>14,
     <1>15, <1>16 DEF Next, Chase

-----------------------------------------------------------------------------
(* A letter that has gone is not claimed again: of a rule, because its row is
   in the log and nobody is left to take it out. *)
LEMMA ToldKept ==
  ASSUME ToldInv, NEW s \in Sweeps, Only(s), told' = told,
         \A letter \in told : letter.rule # Weekly => letter \in log',
         Claimed(s)' => \/ InHand(s)'.rule = Weekly
                        \/ InHand(s)' \notin told
  PROVE  ToldInv'
<1>1. ASSUME NEW letter \in told, letter.rule # Weekly, NEW t \in Sweeps, Claimed(t)'
      PROVE  InHand(t)' # letter
  <2>1. CASE t = s
    BY <1>1, <2>1
  <2>2. CASE t # s
    BY <1>1, <2>2 DEF Only, Claimed, InHand, ToldInv
  <2> QED
    BY <2>1, <2>2
<1> QED
  BY <1>1 DEF ToldInv

LEMMA ToldStays ==
  ASSUME ToldInv, NEW s \in Sweeps, Only(s), told' = told, log' = log,
         ~Claimed(s)'
  PROVE  ToldInv'
BY ToldKept DEF ToldInv

LEMMA ToldStep ==
  ASSUME TypesInv, ClaimsInv, ToldInv, [Next]_vars PROVE ToldInv'
<1> USE DEF rows, post
<1>1. ASSUME NEW s \in Sweeps, Goes(s, "chasing"), told' = told, log' = log
      PROVE  ToldInv'
  BY <1>1, ToldStays DEF Goes, Claimed
<1>2. ASSUME NEW s \in Sweeps, ReadInvoices(s) PROVE ToldInv'
  BY <1>2, Begins, ToldStays DEF ReadInvoices, Claimed
<1>3. ASSUME NEW s \in Sweeps, ReadLog(s) PROVE ToldInv'
  BY <1>3, <1>1, ReadsLog DEF ReadLog
<1>4. ASSUME NEW s \in Sweeps, NEW i \in Invoices, PassOver(s, i) PROVE ToldInv'
  BY <1>4, <1>1, MovesOn DEF PassOver
<1>5. ASSUME NEW s \in Sweeps, NEW i \in Invoices, ClaimRule(s, i) PROVE ToldInv'
  <2>1. told' = told
    BY <1>5 DEF ClaimRule
  <2>2. CASE Goes(s, "chasing") /\ UNCHANGED log
    BY <1>1, <2>1, <2>2
  <2>3. ASSUME NEW rule \in RulesOf[i], RuleLetter(i, rule) \notin log,
               log' = log \cup {RuleLetter(i, rule)}, Goes(s, "sending"),
               sweep'[s].letter = RuleLetter(i, rule)
        PROVE  ToldInv'
    <3>1. RuleLetter(i, rule).rule # Weekly
      BY RulesAssumption DEF RuleLetter, Weekly
    <3>2. InHand(s)' \notin told
      BY <2>3, <3>1 DEF ToldInv, InHand
    <3> QED
      BY <2>1, <2>3, <3>2, ToldKept DEF Goes, ToldInv
  <2> QED
    BY <1>5, <2>2, <2>3, ClaimsRule
<1>6. ASSUME NEW s \in Sweeps, NEW i \in Invoices, ClaimWeek(s, i) PROVE ToldInv'
  <2>1. told' = told /\ log' = log
    BY <1>6 DEF ClaimWeek
  <2>2. CASE Goes(s, "chasing")
    BY <1>1, <2>1, <2>2
  <2>3. CASE Goes(s, "sending") /\ sweep'[s].letter = WeeklyLetter(s, i)
    BY <2>1, <2>3, ToldKept DEF Goes, ToldInv, InHand, WeeklyLetter
  <2> QED
    BY <1>6, <2>2, <2>3, ClaimsWeek
<1>7. ASSUME NEW s \in Sweeps, Sent(s) PROVE ToldInv'
  <2>1. /\ Claimed(s) /\ sweep[s].stage = "sending" /\ log' = log
        /\ told' = told \cup {InHand(s)}
    BY <1>7 DEF Sent, Claimed
  <2>2. InHand(s).invoice \in Invoices
    BY <2>1, ClaimTyped
  <2>3. Only(s) /\ ~Claimed(s)'
    <3>1. CASE InHand(s).rule = Weekly
      BY <1>7, <2>2, <3>1, MovesOn DEF Sent, Goes, Claimed
    <3>2. CASE InHand(s).rule # Weekly
      <4>1. sweep' = [sweep EXCEPT ![s].stage = "stamping"]
        BY <1>7, <3>2 DEF Sent
      <4> QED
        BY <2>1, <4>1, NewStage DEF Stages, Goes, Claimed
    <3> QED
      BY <3>1, <3>2
  <2>4. \A t \in Sweeps \ {s} :
          (Claimed(t)' <=> Claimed(t)) /\ InHand(t)' = InHand(t)
    BY <2>3 DEF Only, Claimed, InHand
  <2>5. \A t \in Sweeps \ {s} : Claimed(t) => InHand(t) # InHand(s)
    BY <2>1 DEF ClaimsInv
  <2>6. InHand(s).rule # Weekly => InHand(s) \in log
    BY <2>1, ClaimTyped DEF RuleClaim
  <2>7. ASSUME NEW letter \in told', letter.rule # Weekly
        PROVE  /\ letter \in log'
               /\ \A t \in Sweeps : Claimed(t)' => InHand(t)' # letter
    <3>1. CASE letter \in told
      BY <2>1, <2>3, <2>4, <2>7, <3>1 DEF ToldInv
    <3>2. CASE letter = InHand(s)
      BY <2>1, <2>3, <2>4, <2>5, <2>6, <2>7, <3>2
    <3> QED
      BY <2>1, <2>7, <3>1, <3>2
  <2> QED
    BY <2>7 DEF ToldInv
<1>8. ASSUME NEW s \in Sweeps, SendFails(s) PROVE ToldInv'
  <2>1. /\ Claimed(s) /\ sweep[s].stage = "sending" /\ log' = log /\ told' = told
        /\ sweep' = [sweep EXCEPT ![s].stage = "failed"]
    BY <1>8 DEF SendFails, Claimed
  <2>2. Goes(s, "failed") /\ InHand(s)' = InHand(s)
    BY <2>1, NewStage DEF Stages, InHand
  <2>3. InHand(s).rule = Weekly \/ InHand(s) \notin told
    BY <2>1 DEF ToldInv
  <2> QED
    BY <2>1, <2>2, <2>3, ToldKept DEF Goes, ToldInv
<1>9. ASSUME NEW s \in Sweeps, Stamp(s) PROVE ToldInv'
  <2>1. InHand(s).invoice \in Invoices
    BY <1>9, InHandTyped DEF Stamp
  <2> QED
    BY <1>9, <1>1, <2>1, MovesOn DEF Stamp
<1>10. ASSUME NEW s \in Sweeps, TakeBack(s) PROVE ToldInv'
  <2>1. Claimed(s) /\ log' = log \ {InHand(s)} /\ told' = told
        /\ MoveOn(s, InHand(s).invoice)
    BY <1>10 DEF TakeBack, Claimed
  <2>2. Goes(s, "chasing")
    BY <2>1, ClaimTyped, MovesOn
  <2>3. \A letter \in told : letter.rule # Weekly => letter \in log'
    BY <2>1 DEF ToldInv
  <2> QED
    BY <2>1, <2>2, <2>3, ToldKept DEF Goes, Claimed
<1>11. ASSUME NEW s \in Sweeps, Finish(s) PROVE ToldInv'
  BY <1>11, Ends, ToldStays DEF Finish, Claimed
<1>12. ASSUME NEW s \in Sweeps, Fall(s) PROVE ToldInv'
  BY <1>12, Ends, ToldStays DEF Fall, Claimed
<1>13. ASSUME UNCHANGED <<sweep, log, told>> PROVE ToldInv'
  BY <1>13 DEF ToldInv, Claimed, InHand
<1>14. ASSUME \/ \E i \in Invoices : Settle(i)
              \/ Tick
              \/ UNCHANGED vars
       PROVE  ToldInv'
  BY <1>13, <1>14 DEF Settle, Tick, vars
<1> QED
  BY <1>2, <1>3, <1>4, <1>5, <1>6, <1>7, <1>8, <1>9, <1>10, <1>11, <1>12,
     <1>14 DEF Next, Chase

-----------------------------------------------------------------------------
(* The stamp of the last chase that is over. *)
ClaimsChase ==
  \A s \in Sweeps, i \in Invoices :
    ChasesWeekly(s, i) => Chased(i) = sweep[s].last[i]

OthersAreOver ==
  \A i \in Invoices :
    (\A s \in Sweeps : ~ChasesWeekly(s, i)) => Chased(i) = last[i]

LEMMA ChasedIs == ASSUME ClaimsInv PROVE ClaimsChase /\ OthersAreOver
<1>1. ASSUME NEW s \in Sweeps, NEW i \in Invoices, ChasesWeekly(s, i)
      PROVE  Chased(i) = sweep[s].last[i]
  <2>1. PICK t : t = CHOOSE u \in Sweeps : ChasesWeekly(u, i)
    OBVIOUS
  <2>2. t \in Sweeps /\ ChasesWeekly(t, i)
    BY <1>1, <2>1
  <2>3. t = s
    BY <1>1, <2>2 DEF ClaimsInv, ChasesWeekly
  <2> QED
    BY <1>1, <2>1, <2>3 DEF Chased
<1>2. OthersAreOver
  BY DEF OthersAreOver, Chased
<1> QED
  BY <1>1, <1>2 DEF ClaimsChase

LEMMA ChasedWillBe == ClaimsInv' => ClaimsChase' /\ OthersAreOver'
BY ChasedIs, PTL

LEMMA SameChase ==
  ASSUME ClaimsInv, ClaimsInv', NEW i \in Invoices, last'[i] = last[i],
         \A t \in Sweeps :
           /\ ChasesWeekly(t, i)' <=> ChasesWeekly(t, i)
           /\ ChasesWeekly(t, i) => sweep'[t].last = sweep[t].last
  PROVE  Chased(i)' = Chased(i)
<1>1. CASE \E t \in Sweeps : ChasesWeekly(t, i)
  <2>1. PICK t \in Sweeps : ChasesWeekly(t, i)
    BY <1>1
  <2>2. Chased(i) = sweep[t].last[i]
    BY <2>1, ChasedIs DEF ClaimsChase
  <2>3. Chased(i)' = sweep'[t].last[i]
    BY <2>1, ChasedWillBe DEF ClaimsChase
  <2> QED
    BY <2>1, <2>2, <2>3
<1>2. CASE \A t \in Sweeps : ~ChasesWeekly(t, i)
  <2>1. Chased(i) = last[i]
    BY <1>2, ChasedIs DEF OthersAreOver
  <2>2. Chased(i)' = last'[i]
    BY <1>2, ChasedWillBe DEF OthersAreOver
  <2> QED
    BY <2>1, <2>2
<1> QED
  BY <1>1, <1>2

LEMMA QuietChase ==
  ASSUME ClaimsInv, ClaimsInv', NEW s \in Sweeps, Only(s), ~Claimed(s), ~Claimed(s)',
         NEW i \in Invoices, last'[i] = last[i]
  PROVE  Chased(i)' = Chased(i)
<1>1. ASSUME NEW t \in Sweeps
      PROVE  /\ ChasesWeekly(t, i)' <=> ChasesWeekly(t, i)
             /\ ChasesWeekly(t, i) => sweep'[t].last = sweep[t].last
  <2>1. CASE t = s
    BY <2>1 DEF ChasesWeekly
  <2>2. CASE t # s
    BY <2>2 DEF Only, ChasesWeekly, Claimed, InHand
  <2> QED
    BY <2>1, <2>2
<1> QED
  BY <1>1, SameChase

(* A chase is over when its sweep hears that the letter went, or dies: its
   own stamp is then the last.  A letter that did not go leaves the stamp it
   found. *)
GoesOver(s, i) ==
  /\ ChasesWeekly(s, i)
  /\ Chased(i)' = sweep[s].now
  /\ Only(s) /\ clock' = clock

LEMMA ChaseGoesOver ==
  ASSUME TypesInv, ClaimsInv, ClaimsInv', NEW s \in Sweeps, NEW i \in Invoices,
         ChasesWeekly(s, i), Only(s), ~Claimed(s)', clock' = clock
  PROVE  /\ last' = last => GoesOver(s, i)
         /\ last'[i] = sweep[s].last[i] => Chased(i)' = Chased(i)
<1>1. ASSUME NEW t \in Sweeps PROVE ~ChasesWeekly(t, i)'
  <2>1. CASE t = s
    BY <2>1 DEF ChasesWeekly
  <2>2. CASE t # s
    <3>1. ~ChasesWeekly(t, i)
      BY <2>2 DEF ClaimsInv, ChasesWeekly
    <3> QED
      BY <2>2, <3>1 DEF Only, ChasesWeekly, Claimed, InHand
  <2> QED
    BY <2>1, <2>2
<1>2. Chased(i)' = last'[i]
  BY <1>1, ChasedWillBe DEF OthersAreOver
<1>3. last[i] = sweep[s].now
  BY ClaimTyped DEF ChasesWeekly, WeekClaim
<1>4. Chased(i) = sweep[s].last[i]
  BY ChasedIs DEF ClaimsChase
<1> QED
  BY <1>2, <1>3, <1>4 DEF GoesOver

(* A claim finds the stamp as its sweep had read it, or refuses itself. *)
LEMMA ClaimsWhatItRead ==
  ASSUME TypesInv, ClaimsInv, WeeksInv, NEW s \in Sweeps, NEW i \in Invoices,
         OnTheWay(s), Ruleless(i),
         ~Throttled(sweep[s].last[i], sweep[s].now),
         ~Throttled(last[i], sweep[s].now)
  PROVE  /\ \A t \in Sweeps : ~ChasesWeekly(t, i)
         /\ sweep[s].last[i] = Chased(i)
<1>1. \A t \in Sweeps : ~ChasesWeekly(t, i)
  BY ClaimsThrottle
<1>2. Chased(i) = last[i]
  BY <1>1, ChasedIs DEF OthersAreOver
<1>3. ReadRight(s, i)
  BY DEF WeeksInv
<1> QED
  BY <1>1, <1>2, <1>3 DEF ReadRight

(* What becomes of the stamp of the last chase. *)
LEMMA ChaseStep ==
  ASSUME TypesInv, ClaimsInv, WeeksInv, ClaimsInv', [Next]_vars,
         NEW i \in Invoices, Ruleless(i)
  PROVE  \/ Chased(i)' = Chased(i)
         \/ \E s \in Sweeps : GoesOver(s, i)
<1> USE DEF rows, post
<1>1. ASSUME NEW s \in Sweeps, ~Claimed(s), Goes(s, "chasing"), last' = last
      PROVE  Chased(i)' = Chased(i)
  BY <1>1, QuietChase DEF Goes, Claimed
<1>2. ASSUME NEW s \in Sweeps, ReadInvoices(s) PROVE Chased(i)' = Chased(i)
  <2>1. Only(s) /\ ~Claimed(s)'
    BY <1>2, Begins DEF Claimed
  <2>2. ~Claimed(s) /\ last' = last
    BY <1>2 DEF ReadInvoices, Claimed
  <2> QED
    BY <2>1, <2>2, QuietChase
<1>3. ASSUME NEW s \in Sweeps, ReadLog(s) PROVE Chased(i)' = Chased(i)
  BY <1>3, <1>1, ReadsLog DEF ReadLog, Claimed
<1>4. ASSUME NEW s \in Sweeps, NEW j \in Invoices, PassOver(s, j)
      PROVE  Chased(i)' = Chased(i)
  BY <1>4, <1>1, MovesOn DEF PassOver, Claimed
<1>5. ASSUME NEW s \in Sweeps, NEW j \in Invoices, ClaimRule(s, j)
      PROVE  Chased(i)' = Chased(i)
  <2>1. ~Claimed(s) /\ last' = last
    BY <1>5 DEF ClaimRule, Claimed
  <2>2. CASE Goes(s, "chasing")
    BY <1>1, <2>1, <2>2
  <2>3. ASSUME NEW rule \in RulesOf[j], Goes(s, "sending"),
               sweep'[s].letter = RuleLetter(j, rule)
        PROVE  Chased(i)' = Chased(i)
    <3>1. ~ChasesWeekly(s, i)' /\ ~ChasesWeekly(s, i)
      BY <2>1, <2>3, RulesAssumption DEF ChasesWeekly, InHand, RuleLetter, Weekly
    <3>2. \A t \in Sweeps \ {s} :
            /\ ChasesWeekly(t, i)' <=> ChasesWeekly(t, i)
            /\ sweep'[t].last = sweep[t].last
      BY <2>3 DEF Goes, Only, ChasesWeekly, Claimed, InHand
    <3> QED
      BY <2>1, <3>1, <3>2, SameChase
  <2> QED
    BY <1>5, <2>2, <2>3, ClaimsRule
<1>6. ASSUME NEW s \in Sweeps, NEW j \in Invoices, ClaimWeek(s, j)
      PROVE  Chased(i)' = Chased(i)
  <2>1. /\ ~Claimed(s) /\ OnTheWay(s) /\ Ruleless(j)
        /\ ~Throttled(sweep[s].last[j], sweep[s].now)
    BY <1>6 DEF ClaimWeek, Claimed, OnTheWay, Ruleless
  <2>2. CASE Goes(s, "chasing") /\ UNCHANGED last
    BY <1>1, <2>1, <2>2
  <2>3. CASE /\ ~Throttled(last[j], sweep[s].now)
             /\ last' = [last EXCEPT ![j] = sweep[s].now]
             /\ Goes(s, "sending")
             /\ sweep'[s].letter = WeeklyLetter(s, j)
    <3>1. InHand(s)'.rule = Weekly /\ InHand(s)'.invoice = j /\ Claimed(s)'
      BY <2>3 DEF InHand, WeeklyLetter, Goes, Claimed
    <3>2. CASE j = i
      <4>1. Chased(i)' = sweep'[s].last[i]
        BY <3>1, <3>2, ChasedWillBe DEF ClaimsChase, ChasesWeekly
      <4>2. sweep[s].last[i] = Chased(i)
        BY <2>1, <2>3, <3>2, ClaimsWhatItRead
      <4> QED
        BY <2>3, <4>1, <4>2 DEF Goes
    <3>3. CASE j # i
      <4>1. ~ChasesWeekly(s, i)' /\ ~ChasesWeekly(s, i)
        BY <2>1, <3>1, <3>3 DEF ChasesWeekly
      <4>2. \A t \in Sweeps \ {s} :
              /\ ChasesWeekly(t, i)' <=> ChasesWeekly(t, i)
              /\ sweep'[t].last = sweep[t].last
        BY <2>3 DEF Goes, Only, ChasesWeekly, Claimed, InHand
      <4>3. last'[i] = last[i]
        BY <2>3, <3>3 DEF TypesInv
      <4> QED
        BY <4>1, <4>2, <4>3, SameChase
    <3> QED
      BY <3>2, <3>3
  <2> QED
    BY <1>6, <2>2, <2>3, ClaimsWeek
<1>7. ASSUME NEW s \in Sweeps, ~ChasesWeekly(s, i), ~ChasesWeekly(s, i)', Only(s),
             last'[i] = last[i]
      PROVE  Chased(i)' = Chased(i)
  <2>1. \A t \in Sweeps \ {s} :
          /\ ChasesWeekly(t, i)' <=> ChasesWeekly(t, i)
          /\ sweep'[t].last = sweep[t].last
    BY <1>7 DEF Only, ChasesWeekly, Claimed, InHand
  <2> QED
    BY <1>7, <2>1, SameChase
<1>8. ASSUME NEW s \in Sweeps, Sent(s)
      PROVE  Chased(i)' = Chased(i) \/ GoesOver(s, i)
  <2>1. /\ Claimed(s) /\ sweep[s].stage = "sending"
        /\ clock' = clock /\ last' = last
    BY <1>8 DEF Sent, Claimed
  <2>2. Only(s) /\ ~Claimed(s)'
    <3>1. CASE InHand(s).rule = Weekly
      BY <1>8, <2>1, <3>1, InHandTyped, MovesOn DEF Sent, Goes, Claimed
    <3>2. CASE InHand(s).rule # Weekly
      <4>1. sweep' = [sweep EXCEPT ![s].stage = "stamping"]
        BY <1>8, <3>2 DEF Sent
      <4> QED
        BY <2>1, <4>1, NewStage DEF Stages, Goes, Claimed
    <3> QED
      BY <3>1, <3>2
  <2>3. CASE ChasesWeekly(s, i)
    BY <2>1, <2>2, <2>3, ChaseGoesOver
  <2>4. CASE ~ChasesWeekly(s, i)
    BY <2>1, <2>2, <2>4, <1>7 DEF ChasesWeekly
  <2> QED
    BY <2>3, <2>4
<1>9. ASSUME NEW s \in Sweeps, SendFails(s) PROVE Chased(i)' = Chased(i)
  <2>1. /\ Claimed(s) /\ sweep[s].stage = "sending" /\ last' = last
        /\ sweep' = [sweep EXCEPT ![s].stage = "failed"]
    BY <1>9 DEF SendFails, Claimed
  <2>2. Goes(s, "failed") /\ InHand(s)' = InHand(s)
    BY <2>1, NewStage DEF Stages, InHand
  <2>3. \A t \in Sweeps :
          /\ ChasesWeekly(t, i)' <=> ChasesWeekly(t, i)
          /\ sweep'[t].last = sweep[t].last
    BY <2>1, <2>2 DEF Goes, Only, ChasesWeekly, Claimed, InHand
  <2> QED
    BY <2>1, <2>3, SameChase
<1>10. ASSUME NEW s \in Sweeps, Stamp(s) PROVE Chased(i)' = Chased(i)
  <2>1. /\ ~Claimed(s) /\ sweep[s].stage = "stamping"
        /\ MoveOn(s, InHand(s).invoice)
        /\ last' = [last EXCEPT ![InHand(s).invoice] = sweep[s].now]
    BY <1>10 DEF Stamp, Claimed
  <2>2. InHand(s).invoice \in Invoices /\ InHand(s).invoice # i
    BY <2>1, InHandTyped DEF ClaimsInv, ClaimHolds
  <2>3. last'[i] = last[i]
    BY <2>1, <2>2 DEF TypesInv
  <2> QED
    BY <2>1, <2>2, <2>3, MovesOn, QuietChase DEF Goes, Claimed
<1>11. ASSUME NEW s \in Sweeps, TakeBack(s) PROVE Chased(i)' = Chased(i)
  <2>1. /\ Claimed(s) /\ clock' = clock /\ MoveOn(s, InHand(s).invoice)
        /\ last' = IF InHand(s).rule = Weekly /\ last[InHand(s).invoice] = sweep[s].now
                   THEN [last EXCEPT ![InHand(s).invoice] =
                           sweep[s].last[InHand(s).invoice]]
                   ELSE last
    BY <1>11 DEF TakeBack, Claimed
  <2>2. Only(s) /\ ~Claimed(s)' /\ InHand(s).invoice \in Invoices
    BY <2>1, ClaimTyped, MovesOn DEF Goes, Claimed
  <2>3. CASE ChasesWeekly(s, i)
    <3>1. last[i] = sweep[s].now
      BY <2>3, ClaimTyped DEF ChasesWeekly, WeekClaim
    <3>2. last'[i] = sweep[s].last[i]
      BY <2>1, <2>3, <3>1 DEF ChasesWeekly, TypesInv
    <3> QED
      BY <2>1, <2>2, <2>3, <3>2, ChaseGoesOver
  <2>4. CASE ~ChasesWeekly(s, i)
    <3>1. last'[i] = last[i]
      BY <2>1, <2>2, <2>4 DEF ChasesWeekly, TypesInv
    <3> QED
      BY <2>2, <2>4, <3>1, <1>7 DEF ChasesWeekly
  <2> QED
    BY <2>3, <2>4
<1>12. ASSUME NEW s \in Sweeps, Finish(s) PROVE Chased(i)' = Chased(i)
  <2>1. Only(s) /\ ~Claimed(s)'
    BY <1>12, Ends DEF Finish, Claimed
  <2>2. ~Claimed(s) /\ last' = last
    BY <1>12 DEF Finish, Claimed
  <2> QED
    BY <2>1, <2>2, QuietChase
<1>13. ASSUME NEW s \in Sweeps, Fall(s)
       PROVE  Chased(i)' = Chased(i) \/ GoesOver(s, i)
  <2>1. Only(s) /\ ~Claimed(s)'
    BY <1>13, Ends DEF Fall, Claimed
  <2>2. clock' = clock /\ last' = last
    BY <1>13 DEF Fall
  <2>3. CASE ChasesWeekly(s, i)
    BY <2>1, <2>2, <2>3, ChaseGoesOver
  <2>4. CASE ~ChasesWeekly(s, i)
    BY <2>1, <2>2, <2>4, <1>7 DEF ChasesWeekly
  <2> QED
    BY <2>3, <2>4
<1>14. ASSUME UNCHANGED <<sweep, last>> PROVE Chased(i)' = Chased(i)
  BY <1>14, SameChase DEF ChasesWeekly, Claimed, InHand
<1>15. ASSUME \/ \E j \in Invoices : Settle(j)
              \/ Tick
              \/ UNCHANGED vars
       PROVE  Chased(i)' = Chased(i)
  BY <1>14, <1>15 DEF Settle, Tick, vars
<1> QED
  BY <1>2, <1>3, <1>4, <1>5, <1>6, <1>8, <1>9, <1>10, <1>11, <1>12, <1>13,
     <1>15 DEF Next, Chase

(* What a chase that is over has to do with the clock, and with the stamp it
   found. *)
LEMMA ChaseTimes ==
  ASSUME TypesInv, ClaimsInv, NEW s \in Sweeps, NEW i \in Invoices,
         ChasesWeekly(s, i)
  PROVE  /\ sweep[s].now \in Nat
         /\ sweep[s].now <= clock /\ clock - sweep[s].now <= SweepLimit
         /\ OnTheWay(s)
         /\ Chased(i) \in Nat \cup {Never}
         /\ Chased(i) # Never => Chased(i) <= sweep[s].now - Week
         /\ InHand(s).since = Chased(i) /\ Ruleless(i)
<1>1. OnTheWay(s) /\ sweep[s].now \in Nat
  BY ClockTyped DEF ChasesWeekly, Claimed, OnTheWay
<1>2. sweep[s].now <= clock /\ clock - sweep[s].now <= SweepLimit
  BY <1>1 DEF ClaimsInv, InTime
<1>3. WeekClaim(s) /\ InHand(s).invoice = i
  BY ClaimTyped DEF ChasesWeekly
<1>4. Chased(i) = sweep[s].last[i]
  BY ChasedIs DEF ClaimsChase
<1>5. InHand(s).since = sweep[s].last[i]
  BY <1>3 DEF WeekClaim, WeeklyLetter
<1>6. Chased(i) \in Nat \cup {Never}
  BY <1>4, ClockTyped
<1>7. Chased(i) # Never => Chased(i) <= sweep[s].now - Week
  <2>1. ~Throttled(Chased(i), sweep[s].now)
    BY <1>3, <1>4, <1>5 DEF WeekClaim
  <2>2. Chased(i) # Never => ~(Chased(i) > sweep[s].now - Week)
    BY <2>1 DEF Throttled
  <2>3. sweep[s].now - Week \in Int
    BY <1>1, TimesAssumption
  <2> QED
    BY <1>6, <2>2, <2>3 DEF Never
<1>8. Ruleless(i)
  BY <1>3 DEF WeekClaim
<1> QED
  BY <1>1, <1>2, <1>4, <1>5, <1>6, <1>7, <1>8

(* What a sweep has read stays, until it ends. *)
LEMMA ReadingStays ==
  ASSUME TypesInv, [Next]_vars, NEW t \in Sweeps, OnTheWay(t)'
  PROVE  \/ /\ OnTheWay(t)
            /\ sweep'[t].now = sweep[t].now /\ sweep'[t].last = sweep[t].last
         \/ ReadInvoices(t)
<1> DEFINE Same(s) == sweep'[s].now = sweep[s].now /\ sweep'[s].last = sweep[s].last
<1>1. ASSUME NEW s \in Sweeps, Only(s), ~OnTheWay(s)' \/ (OnTheWay(s) /\ Same(s))
      PROVE  OnTheWay(t) /\ Same(t)
  <2>1. CASE t = s
    BY <1>1, <2>1
  <2>2. CASE t # s
    BY <1>1, <2>2 DEF Only, OnTheWay
  <2> QED
    BY <2>1, <2>2
<1>2. ASSUME NEW s \in Sweeps, OnTheWay(s), NEW stage, Goes(s, stage)
      PROVE  OnTheWay(t) /\ Same(t)
  BY <1>1, <1>2 DEF Goes
<1>3. ASSUME NEW s \in Sweeps, ReadInvoices(s)
      PROVE  (OnTheWay(t) /\ Same(t)) \/ ReadInvoices(t)
  <2>1. CASE t = s
    BY <1>3, <2>1
  <2>2. CASE t # s
    BY <1>3, <2>2, Begins DEF Only, OnTheWay
  <2> QED
    BY <2>1, <2>2
<1>4. ASSUME NEW s \in Sweeps, ReadLog(s) PROVE OnTheWay(t) /\ Same(t)
  BY <1>4, <1>2, ReadsLog DEF ReadLog, OnTheWay
<1>5. ASSUME NEW s \in Sweeps, NEW j \in Invoices, PassOver(s, j)
      PROVE  OnTheWay(t) /\ Same(t)
  BY <1>5, <1>2, MovesOn DEF PassOver, OnTheWay
<1>6. ASSUME NEW s \in Sweeps, NEW j \in Invoices, ClaimRule(s, j)
      PROVE  OnTheWay(t) /\ Same(t)
  BY <1>6, <1>2, ClaimsRule DEF ClaimRule, OnTheWay
<1>7. ASSUME NEW s \in Sweeps, NEW j \in Invoices, ClaimWeek(s, j)
      PROVE  OnTheWay(t) /\ Same(t)
  BY <1>7, <1>2, ClaimsWeek DEF ClaimWeek, OnTheWay
<1>8. ASSUME NEW s \in Sweeps, Sent(s) PROVE OnTheWay(t) /\ Same(t)
  <2>1. OnTheWay(s) /\ sweep[s].stage = "sending" /\ InHand(s).invoice \in Invoices
    BY <1>8, InHandTyped DEF Sent, OnTheWay
  <2>2. CASE InHand(s).rule = Weekly
    BY <1>8, <1>2, <2>1, <2>2, MovesOn DEF Sent
  <2>3. CASE InHand(s).rule # Weekly
    <3>1. sweep' = [sweep EXCEPT ![s].stage = "stamping"]
      BY <1>8, <2>3 DEF Sent
    <3> QED
      BY <1>2, <2>1, <3>1, NewStage DEF Stages
  <2> QED
    BY <2>2, <2>3
<1>9. ASSUME NEW s \in Sweeps, SendFails(s) PROVE OnTheWay(t) /\ Same(t)
  <2>1. /\ OnTheWay(s) /\ sweep[s].stage = "sending"
        /\ sweep' = [sweep EXCEPT ![s].stage = "failed"]
    BY <1>9 DEF SendFails, OnTheWay
  <2> QED
    BY <1>2, <2>1, NewStage DEF Stages
<1>10. ASSUME NEW s \in Sweeps, Stamp(s) PROVE OnTheWay(t) /\ Same(t)
  <2>1. InHand(s).invoice \in Invoices
    BY <1>10, InHandTyped DEF Stamp
  <2> QED
    BY <1>10, <1>2, <2>1, MovesOn DEF Stamp, OnTheWay
<1>11. ASSUME NEW s \in Sweeps, TakeBack(s) PROVE OnTheWay(t) /\ Same(t)
  <2>1. InHand(s).invoice \in Invoices
    BY <1>11, InHandTyped DEF TakeBack
  <2> QED
    BY <1>11, <1>2, <2>1, MovesOn DEF TakeBack, OnTheWay
<1>12. ASSUME NEW s \in Sweeps, Finish(s) \/ Fall(s) PROVE OnTheWay(t) /\ Same(t)
  BY <1>12, <1>1, Ends DEF Finish, Fall, OnTheWay
<1>13. ASSUME \/ \E j \in Invoices : Settle(j)
              \/ Tick
              \/ UNCHANGED vars
       PROVE  OnTheWay(t) /\ Same(t)
  BY <1>13 DEF Settle, Tick, vars, OnTheWay
<1> QED
  BY <1>3, <1>4, <1>5, <1>6, <1>7, <1>8, <1>9, <1>10, <1>11, <1>12, <1>13
     DEF Next, Chase

LEMMA ReadRightStep ==
  ASSUME TypesInv, ClaimsInv, WeeksInv, ClaimsInv', [Next]_vars,
         NEW t \in Sweeps, OnTheWay(t)', NEW i \in Invoices, Ruleless(i)
  PROVE  ReadRight(t, i)'
<1>1. CASE Chased(i)' = Chased(i)
  <2>1. CASE /\ OnTheWay(t)
             /\ sweep'[t].now = sweep[t].now /\ sweep'[t].last = sweep[t].last
    BY <1>1, <2>1 DEF WeeksInv, ReadRight, Throttled
  <2>2. CASE ReadInvoices(t)
    <3>1. sweep'[t].now = clock /\ sweep'[t].last = last
      BY <2>2, Begins
    <3>2. ASSUME NEW s \in Sweeps, ChasesWeekly(s, i)
          PROVE  Throttled(last[i], clock)
      <4>1. last[i] = sweep[s].now
        BY <3>2, ClaimTyped DEF ChasesWeekly, WeekClaim
      <4>2. sweep[s].now \in Nat /\ clock - sweep[s].now <= SweepLimit
        BY <3>2, ChaseTimes
      <4>3. sweep[s].now > clock - Week /\ sweep[s].now # Never
        BY <4>2, ClockTyped, TimesAssumption DEF Never
      <4> QED
        BY <4>1, <4>3 DEF Throttled
    <3>3. CASE \A s \in Sweeps : ~ChasesWeekly(s, i)
      <4>1. Chased(i) = last[i]
        BY <3>3, ChasedIs DEF OthersAreOver
      <4> QED
        BY <1>1, <3>1, <4>1 DEF ReadRight
    <3>4. CASE \E s \in Sweeps : ChasesWeekly(s, i)
      BY <3>1, <3>2, <3>4 DEF ReadRight, Throttled
    <3> QED
      BY <3>3, <3>4
  <2> QED
    BY <2>1, <2>2, ReadingStays
<1>2. ASSUME NEW s \in Sweeps, GoesOver(s, i) PROVE ReadRight(t, i)'
  <2>1. ChasesWeekly(s, i) /\ Chased(i)' = sweep[s].now /\ Only(s) /\ Claimed(s)
    BY <1>2 DEF GoesOver, ChasesWeekly
  <2>2. ~ReadInvoices(t)
    <3>1. SUFFICES ASSUME ReadInvoices(t) PROVE FALSE
      OBVIOUS
    <3>2. sweep[t].stage = "idle" /\ sweep'[t].stage = "reading"
      BY <3>1, Begins DEF ReadInvoices
    <3>3. t # s
      BY <2>1, <3>2 DEF Claimed
    <3>4. sweep'[t] = sweep[t]
      BY <2>1, <3>3 DEF Only
    <3> QED
      BY <3>2, <3>4
  <2>3. OnTheWay(t) /\ sweep'[t].now = sweep[t].now
    BY <2>2, ReadingStays
  <2>4. Throttled(sweep[s].now, sweep[t].now)
    BY <2>1, <2>3, ChaseTimes, StampsThrottle
  <2> QED
    BY <2>1, <2>3, <2>4 DEF ReadRight, Throttled
<1> QED
  BY <1>1, <1>2, ChaseStep

(* The letters the provider has taken. *)
LEMMA TakenTyped ==
  ASSUME TypesInv, NEW t \in taken
  PROVE  t.letter \in Letters /\ t.letter.invoice \in Invoices /\ t.at \in Nat
<1>1. t.letter \in Letters /\ t.at \in Times
  BY DEF TypesInv
<1> QED
  BY <1>1, TimesAssumption DEF Letters, Times

LEMMA TakenRightStays ==
  ASSUME TypesInv, ClaimsInv, WeeksInv, ClaimsInv', [Next]_vars, clock <= clock',
         NEW t, t.letter \in Letters, t.at \in Nat, TakenRight(t)
  PROVE  TakenRight(t)'
<1> DEFINE i == t.letter.invoice
<1>1. i \in Invoices
  BY DEF Letters
<1>2. t.at <= clock'
  <2>1. clock \in Nat /\ clock' \in Nat
    <3>1. TypesInv'
      BY TypesStep
    <3>2. clock' \in Times
      BY <3>1 DEF TypesInv
    <3> QED
      BY <3>2, ClockTyped, TimesAssumption DEF Times
  <2> QED
    BY <2>1 DEF TakenRight
<1>3. CASE t.letter.rule # Weekly
  BY <1>2, <1>3 DEF TakenRight
<1>4. CASE t.letter.rule = Weekly
  <2>1. /\ Ruleless(i)
        /\ \/ t.letter.since = Chased(i)
           \/ Chased(i) # Never /\ t.at - SweepLimit <= Chased(i)
    BY <1>4 DEF TakenRight
  <2>2. CASE Chased(i)' = Chased(i)
    BY <1>2, <2>1, <2>2 DEF TakenRight, Ruleless
  <2>3. ASSUME NEW s \in Sweeps, GoesOver(s, i) PROVE TakenRight(t)'
    <3>1. ChasesWeekly(s, i) /\ Chased(i)' = sweep[s].now
      BY <2>3 DEF GoesOver
    <3>2. sweep[s].now \in Nat /\ clock - sweep[s].now <= SweepLimit
      BY <1>1, <3>1, ChaseTimes
    <3>3. t.at <= clock
      BY DEF TakenRight
    <3>4. sweep[s].now # Never /\ t.at - SweepLimit <= sweep[s].now
      BY <3>2, <3>3, ClockTyped, TimesAssumption DEF Never
    <3> QED
      BY <1>2, <2>1, <3>1, <3>4 DEF TakenRight, Ruleless
  <2> QED
    BY <1>1, <2>1, <2>2, <2>3, ChaseStep
<1> QED
  BY <1>3, <1>4

(* A sweep hands the provider the letter the stamp calls for. *)
LEMMA TakesRight ==
  ASSUME TypesInv, ClaimsInv, NEW s \in Sweeps, Claimed(s),
         NEW t, t = [letter |-> InHand(s), at |-> sweep[s].now]
  PROVE  t.letter \in Letters /\ t.at \in Nat /\ TakenRight(t)
<1>1. t.letter = InHand(s) /\ t.at = sweep[s].now
  OBVIOUS
<1>2. InHand(s) \in Letters /\ InHand(s).invoice \in Invoices /\ sweep[s].now \in Nat
  BY ClaimTyped, ClockTyped
<1>3. sweep[s].now <= clock
  BY DEF ClaimsInv, InTime, Claimed, OnTheWay
<1>4. InHand(s).rule = Weekly =>
        /\ Ruleless(InHand(s).invoice)
        /\ InHand(s).since = Chased(InHand(s).invoice)
  BY <1>2, ChaseTimes DEF ChasesWeekly
<1> QED
  BY <1>1, <1>2, <1>3, <1>4 DEF TakenRight

LEMMA TakeStep ==
  ASSUME TypesInv, [Next]_vars
  PROVE  \/ taken' = taken
         \/ \E s \in Sweeps : Claimed(s) /\ Take(s)
BY DEF Next, Chase, ReadInvoices, ReadLog, PassOver, ClaimRule, ClaimWeek, Sent,
       SendFails, Stamp, TakeBack, Finish, Fall, Settle, Tick, vars, rows, post,
       Claimed

LEMMA ClockStep ==
  ASSUME TypesInv, [Next]_vars PROVE clock <= clock'
<1>1. clock' = clock \/ clock' = clock + 1
  BY DEF Next, Chase, ReadInvoices, ReadLog, PassOver, ClaimRule, ClaimWeek, Sent,
         SendFails, Stamp, TakeBack, Finish, Fall, Settle, Tick, vars
<1> QED
  BY <1>1, ClockTyped

LEMMA TakenStep ==
  ASSUME TypesInv, ClaimsInv, WeeksInv, ClaimsInv', [Next]_vars
  PROVE  /\ \A t \in taken' : TakenRight(t)'
         /\ \A t, u \in taken' : t.letter = u.letter => t = u
<1>1. clock <= clock'
  BY ClockStep
<1>2. ASSUME NEW t \in taken PROVE TakenRight(t)'
  BY <1>1, TakenTyped, TakenRightStays DEF WeeksInv
<1>3. CASE taken' = taken
  BY <1>2, <1>3 DEF WeeksInv
<1>4. ASSUME NEW s \in Sweeps, Claimed(s), Take(s)
      PROVE  /\ \A t \in taken' : TakenRight(t)'
             /\ \A t, u \in taken' : t.letter = u.letter => t = u
  <2>1. PICK new : new = [letter |-> InHand(s), at |-> sweep[s].now]
    OBVIOUS
  <2>2. TakenRight(new)'
    BY <1>1, <1>4, <2>1, TakesRight, TakenRightStays
  <2>3. \/ taken' = taken
        \/ /\ \A t \in taken : t.letter # InHand(s)
           /\ taken' = taken \cup {new}
    BY <1>4, <2>1 DEF Take
  <2>4. \A t \in taken' : TakenRight(t)'
    BY <1>2, <2>2, <2>3
  <2>5. \A t, u \in taken' : t.letter = u.letter => t = u
    BY <2>1, <2>3 DEF WeeksInv
  <2> QED
    BY <2>4, <2>5
<1> QED
  BY <1>3, <1>4, TakeStep

(* A letter of one week against those of the weeks before it. *)
LEMMA AWeekAfter ==
  ASSUME TypesInv, ClaimsInv, WeeksInv, NEW s \in Sweeps, Claimed(s),
         InHand(s).rule = Weekly,
         NEW t \in taken, t.letter # InHand(s), t.letter.rule = Weekly,
         t.letter.invoice = InHand(s).invoice
  PROVE  /\ sweep[s].now - t.at >= Week - SweepLimit
         /\ t.at < sweep[s].now
<1> DEFINE i == InHand(s).invoice
<1>1. i \in Invoices /\ InHand(s) \in Letters /\ ChasesWeekly(s, i)
  BY ClaimTyped DEF ChasesWeekly
<1>2. t.letter \in Letters /\ t.at \in Nat
  BY TakenTyped
<1>3. t.letter.since # InHand(s).since
  BY <1>1, <1>2 DEF Letters
<1>4. InHand(s).since = Chased(i)
  BY <1>1, ChaseTimes
<1>5. Chased(i) # Never /\ t.at - SweepLimit <= Chased(i)
  BY <1>3, <1>4 DEF WeeksInv, TakenRight
<1>6. /\ Chased(i) <= sweep[s].now - Week /\ Chased(i) \in Nat
      /\ sweep[s].now \in Nat
  <2>1. Chased(i) \in Nat \cup {Never} /\ sweep[s].now \in Nat
    BY <1>1, ChaseTimes
  <2>2. Chased(i) <= sweep[s].now - Week
    BY <1>1, <1>5, ChaseTimes
  <2> QED
    BY <1>5, <2>1, <2>2
<1> HIDE DEF i
<1> QED
  BY <1>2, <1>5, <1>6, TimesAssumption

LEMMA ApartStep ==
  ASSUME TypesInv, ClaimsInv, WeeksInv, [Next]_vars
  PROVE  LettersAWeekApart'
<1>1. CASE taken' = taken
  BY <1>1 DEF WeeksInv, LettersAWeekApart
<1>2. ASSUME NEW s \in Sweeps, Claimed(s), Take(s) PROVE LettersAWeekApart'
  <2>1. PICK new : new = [letter |-> InHand(s), at |-> sweep[s].now]
    OBVIOUS
  <2>2. \/ taken' = taken
        \/ /\ \A t \in taken : t.letter # InHand(s)
           /\ taken' = taken \cup {new}
    BY <1>2, <2>1 DEF Take
  <2>3. ASSUME NEW one \in taken', NEW other \in taken', one # other,
               one.letter.rule = Weekly, other.letter.rule = Weekly,
               one.letter.invoice = other.letter.invoice,
               one.at <= other.at,
               \A t \in taken : t.letter # InHand(s),
               taken' = taken \cup {new}
        PROVE  other.at - one.at >= Week - SweepLimit
    <3>1. new.letter = InHand(s) /\ new.at = sweep[s].now
      BY <2>1
    <3>2. CASE one \in taken /\ other \in taken
      BY <2>3, <3>2 DEF WeeksInv, LettersAWeekApart
    <3>3. CASE one \in taken /\ other = new
      BY <1>2, <2>3, <3>1, <3>3, AWeekAfter
    <3>4. CASE one = new /\ other \in taken
      <4>1. other.at < sweep[s].now
        BY <1>2, <2>3, <3>1, <3>4, AWeekAfter
      <4>2. other.at \in Nat /\ sweep[s].now \in Nat
        BY <3>4, TakenTyped, ClockTyped
      <4> QED
        BY <2>3, <3>1, <3>4, <4>1, <4>2
    <3> QED
      BY <2>3, <3>2, <3>3, <3>4
  <2>4. CASE taken' = taken
    BY <1>1, <2>4
  <2>5. CASE /\ \A t \in taken : t.letter # InHand(s)
             /\ taken' = taken \cup {new}
    BY <2>3, <2>5 DEF LettersAWeekApart
  <2> QED
    BY <2>2, <2>4, <2>5
<1> QED
  BY <1>1, <1>2, TakeStep

(* The letters of a week that a sweep was told had gone. *)
LEMMA OverStays ==
  ASSUME TypesInv, ClaimsInv, WeeksInv, ClaimsInv', [Next]_vars,
         NEW letter \in told, letter.rule = Weekly
  PROVE  Ruleless(letter.invoice)' /\ Over(letter)'
<1> DEFINE i == letter.invoice
<1>1. i \in Invoices /\ Ruleless(i) /\ Over(letter)
  BY DEF TypesInv, Letters, WeeksInv
<1>2. letter.since \in Nat \cup {Never}
  BY TimesAssumption DEF TypesInv, Letters, Stamps, Times
<1>3. CASE Chased(i)' = Chased(i)
  BY <1>1, <1>3 DEF Over, Ruleless
<1>4. ASSUME NEW s \in Sweeps, GoesOver(s, i)
      PROVE  Ruleless(letter.invoice)' /\ Over(letter)'
  <2>1. ChasesWeekly(s, i) /\ Chased(i)' = sweep[s].now
    BY <1>4 DEF GoesOver
  <2>2. /\ sweep[s].now \in Nat /\ Chased(i) \in Nat \cup {Never}
        /\ Chased(i) # Never => Chased(i) <= sweep[s].now - Week
    BY <1>1, <2>1, ChaseTimes
  <2>3. letter.since < Chased(i)
    BY <1>1 DEF Over
  <2>4. letter.since < sweep[s].now
    <3>1. CASE Chased(i) = Never
      BY <1>2, <2>2, <2>3, <3>1 DEF Never
    <3>2. CASE Chased(i) # Never
      <4>1. Chased(i) \in Nat /\ Chased(i) <= sweep[s].now - Week
        BY <2>2, <3>2
      <4>2. letter.since \in Int /\ sweep[s].now \in Nat /\ Week \in Nat
        BY <1>2, <2>2, TimesAssumption DEF Never
      <4> HIDE DEF i
      <4> QED
        BY <2>3, <4>1, <4>2
    <3> QED
      BY <3>1, <3>2
  <2> QED
    BY <1>1, <2>1, <2>4 DEF Over, Ruleless
<1> QED
  BY <1>1, <1>3, <1>4, ChaseStep

LEMMA ToldOver ==
  ASSUME TypesInv, ClaimsInv, WeeksInv, ClaimsInv', [Next]_vars
  PROVE  \A letter \in told' : letter.rule = Weekly =>
           Ruleless(letter.invoice)' /\ Over(letter)'
<1>1. CASE told' = told
  BY <1>1, OverStays
<1>2. ASSUME NEW s \in Sweeps, Sent(s), InHand(s).rule = Weekly,
             NEW i, i = InHand(s).invoice
      PROVE  Ruleless(i) /\ InHand(s).since < Chased(i)'
  <2>1. /\ Claimed(s) /\ sweep[s].stage = "sending" /\ clock' = clock /\ last' = last
        /\ MoveOn(s, i)
    BY <1>2 DEF Sent, Claimed, rows
  <2>2. i \in Invoices
    BY <1>2, <2>1, ClaimTyped
  <2>3. ChasesWeekly(s, i)
    BY <1>2, <2>1 DEF ChasesWeekly
  <2>4. Only(s) /\ ~Claimed(s)'
    BY <2>1, <2>2, MovesOn DEF Goes, Claimed
  <2>5. Chased(i)' = sweep[s].now
    BY <2>1, <2>2, <2>3, <2>4, ChaseGoesOver DEF GoesOver
  <2>6. /\ sweep[s].now \in Nat /\ Chased(i) \in Nat \cup {Never}
        /\ Chased(i) # Never => Chased(i) <= sweep[s].now - Week
        /\ InHand(s).since = Chased(i) /\ Ruleless(i)
    BY <2>2, <2>3, ChaseTimes
  <2>7. Chased(i) < sweep[s].now
    <3>1. CASE Chased(i) = Never
      BY <2>6, <3>1 DEF Never
    <3>2. CASE Chased(i) # Never
      <4>1. Chased(i) \in Nat /\ Chased(i) <= sweep[s].now - Week
        BY <2>6, <3>2
      <4>2. Week \in Nat /\ Week > 0
        BY TimesAssumption
      <4> QED
        BY <2>6, <4>1, <4>2
    <3> QED
      BY <3>1, <3>2
  <2> QED
    BY <2>5, <2>6, <2>7
<1>3. ASSUME NEW s \in Sweeps, Sent(s)
      PROVE  \A letter \in told' : letter.rule = Weekly =>
               Ruleless(letter.invoice)' /\ Over(letter)'
  <2>1. told' = told \cup {InHand(s)}
    BY <1>3 DEF Sent
  <2>2. PICK new : new = InHand(s)
    OBVIOUS
  <2>3. PICK i : i = new.invoice
    OBVIOUS
  <2>4. new.rule = Weekly => Ruleless(i) /\ new.since < Chased(i)'
    BY <1>2, <1>3, <2>2, <2>3
  <2>5. new.rule = Weekly => Ruleless(new.invoice)' /\ Over(new)'
    BY <2>3, <2>4 DEF Over, Ruleless
  <2> QED
    BY <2>1, <2>2, <2>5, OverStays
<1>4. told' = told \/ \E s \in Sweeps : Sent(s)
  BY DEF Next, Chase, ReadInvoices, ReadLog, PassOver, ClaimRule, ClaimWeek,
         SendFails, Stamp, TakeBack, Finish, Fall, Settle, Tick, vars, rows, post
<1> QED
  BY <1>1, <1>3, <1>4

LEMMA WeeksStart == ASSUME Init PROVE WeeksInv
<1>1. \A s \in Sweeps : sweep[s].stage = "idle"
  BY DEF Init, Idle
<1> QED
  BY <1>1 DEF Init, WeeksInv, OnTheWay, LettersAWeekApart

LEMMA WeeksStep ==
  ASSUME TypesInv, ClaimsInv, WeeksInv, [Next]_vars PROVE WeeksInv'
<1>1. ClaimsInv'
  BY ClaimsStep
<1>2. \A s \in Sweeps, i \in Invoices :
        OnTheWay(s)' /\ Ruleless(i)' => ReadRight(s, i)'
  BY <1>1, ReadRightStep DEF Ruleless
<1>3. /\ \A t \in taken' : TakenRight(t)'
      /\ \A t, u \in taken' : t.letter = u.letter => t = u
  BY <1>1, TakenStep
<1>4. \A letter \in told' : letter.rule = Weekly =>
        Ruleless(letter.invoice)' /\ Over(letter)'
  BY <1>1, ToldOver
<1>5. LettersAWeekApart'
  BY ApartStep
<1> QED
  BY <1>2, <1>3, <1>4, <1>5 DEF WeeksInv

(* What is proved of the letters follows from the invariant. *)
LEMMA EachOnce == ASSUME RemindersInv PROVE SentOnce
<1>1. TypesInv /\ ClaimsInv /\ ToldInv /\ WeeksInv
  BY DEF RemindersInv
<1>2. ASSUME NEW s \in Sweeps, Sending(s) PROVE InHand(s) \notin told
  <2>1. Claimed(s)
    BY <1>2 DEF Sending, Claimed
  <2>2. CASE InHand(s).rule # Weekly
    BY <1>1, <2>1, <2>2 DEF ToldInv
  <2>3. CASE InHand(s).rule = Weekly
    <3> DEFINE i == InHand(s).invoice
    <3>1. i \in Invoices /\ ChasesWeekly(s, i)
      BY <1>1, <2>1, <2>3, ClaimTyped DEF ChasesWeekly
    <3>2. InHand(s).since = Chased(i) /\ Chased(i) \in Nat \cup {Never}
      BY <1>1, <3>1, ChaseTimes
    <3>3. ~(Chased(i) < Chased(i))
      <4> HIDE DEF i
      <4> QED BY <3>2 DEF Never
    <3> QED
      BY <1>1, <2>3, <3>2, <3>3 DEF WeeksInv, Over
  <2> QED
    BY <2>2, <2>3
<1>3. ASSUME NEW s \in Sweeps, NEW t \in Sweeps \ {s}, Sending(s), Sending(t)
      PROVE  InHand(t) # InHand(s)
  BY <1>1, <1>3 DEF ClaimsInv, Sending, Claimed
<1> QED
  BY <1>2, <1>3 DEF SentOnce

(* "Nobody is chased twice for the same thing" (reminders.ts): whatever sends
   fail and sweeps die, a letter that is being sent is in no other sweep's
   hands and is not one that went; and a business without rules writes to a
   customer no oftener than once a week, less what a sweep may last. *)
THEOREM EachLetterOnce == Spec => []NobodyIsChasedTwice
<1>1. Init => RemindersInv
  <2>1. ASSUME Init PROVE ToldInv
    BY <2>1 DEF Init, ToldInv
  <2> QED
    BY <2>1, TypesStart, ClaimsStart, WeeksStart DEF RemindersInv
<1>2. RemindersInv /\ [Next]_vars => RemindersInv'
  BY TypesStep, ClaimsStep, ToldStep, WeeksStep DEF RemindersInv
<1>3. RemindersInv => NobodyIsChasedTwice
  BY EachOnce DEF RemindersInv, WeeksInv, NobodyIsChasedTwice
<1> QED
  BY <1>1, <1>2, <1>3, PTL DEF Spec
=============================================================================
