----------------------------- MODULE BooksProofs -----------------------------
(***************************************************************************)
(* That the books carry of a transaction what its row says, however its    *)
(* corrections and undos overlap, and that a closed day keeps its figures: *)
(* for every number of transactions and requests, any amounts and days.    *)
(***************************************************************************)
EXTENDS Books, SequenceTheorems, WellFoundedInduction, TLAPS

RequestRecord ==
  [stage : {"idle", "recording", "posting", "correcting", "undoing",
            "corrected", "undone"},
   transaction : Transactions \cup {NoTransaction},
   amount : Amounts \cup {0}, day : 0 .. Days,
   sees : SUBSET Nat, on : 0 .. Days,
   overtaken : BOOLEAN]

(* A figure is asked for in part, and once looked at it is whole. *)
RequestOK(w) ==
  /\ w.stage # "idle" => w.transaction \in Transactions
  /\ w.stage \in {"recording", "posting", "corrected", "undone"} =>
       w.amount \in Amounts /\ w.day \in 1 .. Days
  /\ w.stage \in {"corrected", "undone"} => w.on \in 1 .. Days

RowOK(w) ==
  IF w.state = "none" THEN w = NoRow
  ELSE w.amount \in Amounts /\ w.day \in 1 .. Days

TypesInv ==
  /\ TypeOK
  /\ \A r \in Requests : RequestOK(request[r])
  /\ \A t \in Transactions : RowOK(row[t])

(* What has looked at the line posts behind it only if it was moved since. *)
LookedRight(w) ==
  /\ w.stage \in {"posting", "corrected"} => ~Closed(w.day)
  /\ w.stage \in {"corrected", "undone"} /\ w.sees # {} => ~Closed(w.on)

LookInv == \A r \in Requests : ~request[r].overtaken => LookedRight(request[r])

Recording(r, t) ==
  request[r].stage \in {"recording", "posting"} /\ request[r].transaction = t

Holding(r, t) ==
  request[r].stage \in {"corrected", "undone"} /\ request[r].transaction = t

(* A row is held by one request, recorded by one, and touched by none before
   it is there. *)
RowsInv ==
  /\ \A r \in Requests, t \in Transactions : Holding(r, t) <=> lock[t] = r
  /\ \A r, s \in Requests, t \in Transactions :
       Recording(r, t) /\ Recording(s, t) => r = s
  /\ \A t \in Transactions :
       /\ row[t].state = "none" => posting[t] = "none" /\ entries[t] = <<>>
       /\ posting[t] = "none" => row[t].state = "none"
  /\ \A r \in Requests, t \in Transactions :
       row[t].state = "none" =>
         request[r].stage = "idle" \/ request[r].transaction # t

(* The entries up to one were each taken back once. *)
TakenBack(t, n) == \A k \in 1 .. n : Len(entries[t][k].undone) = 1

(* Of what is posted, the last entry is the row's, and stands while it does. *)
Posted(t) ==
  LET n == Len(entries[t])
  IN  CASE posting[t] # "posted" -> n = 0
        [] posting[t] = "posted" /\ row[t].state = "live" ->
             /\ n > 0 /\ TakenBack(t, n - 1)
             /\ entries[t][n] = [amount |-> row[t].amount, on |-> row[t].day,
                                 undone |-> <<>>]
        [] OTHER -> TakenBack(t, n)

(* The first entry is posted before anything is corrected, and each holder of
   the row reverses what stands. *)
InOrder(r, t) ==
  /\ Recording(r, t) =>
       /\ posting[t] = "open"
       /\ row[t] = [state |-> "live", amount |-> request[r].amount,
                    day |-> request[r].day]
  /\ Holding(r, t) =>
       /\ posting[t] \in {"posted", "refused"}
       /\ row[t].state = "live"
       /\ request[r].sees = Standing(t)

Undisturbed(t) ==
  /\ \A r \in Requests : InOrder(r, t)
  /\ row[t].state = "undone" => posting[t] = "posted"
  /\ Posted(t)

UndisturbedInv == \A t \in Transactions : ~disturbed[t] => Undisturbed(t)

BooksInv == TypesInv /\ RowsInv /\ UndisturbedInv

-----------------------------------------------------------------------------
(* One request moves at a time, and only in its own record. *)
Only(r) ==
  /\ request' \in [Requests -> RequestRecord]
  /\ \A s \in Requests \ {r} : request'[s] = request[s]

LEMMA Typed ==
  ASSUME TypesInv
  PROVE  /\ today \in 1 .. Days /\ closedThrough \in 0 .. today
         /\ row \in [Transactions -> Row]
         /\ entries \in [Transactions -> Seq(Entry)]
         /\ lock \in [Transactions -> Requests \cup {NoRequest}]
         /\ request \in [Requests -> RequestRecord]
         /\ posting \in [Transactions -> {"none", "open", "posted", "refused"}]
         /\ disturbed \in [Transactions -> BOOLEAN]
BY DEF TypesInv, TypeOK, RequestRecord

LEMMA OneRequest ==
  ASSUME TypesInv, NEW r \in Requests, NEW new \in RequestRecord,
         request' = [request EXCEPT ![r] = new]
  PROVE  Only(r) /\ request'[r] = new
BY Typed DEF Only

LEMMA IdleTyped ==
  /\ Idle \in RequestRecord /\ RequestOK(Idle)
  /\ Idle.stage = "idle" /\ ~Idle.overtaken
BY BooksAssumption DEF Idle, RequestRecord, RequestOK

LEMMA Ends ==
  ASSUME TypesInv, NEW r \in Requests, End(r)
  PROVE  Only(r) /\ request'[r] = Idle
BY IdleTyped, OneRequest DEF End

LEMMA NewStage ==
  ASSUME TypesInv, NEW r \in Requests, Stage(r, "posting")
  PROVE  /\ Only(r)
         /\ request'[r] = [request[r] EXCEPT !.stage = "posting"]
<1> DEFINE new == [request[r] EXCEPT !.stage = "posting"]
<1>1. new \in RequestRecord
  BY Typed DEF RequestRecord
<1>2. request' = [request EXCEPT ![r] = new]
  BY DEF Stage
<1> HIDE DEF new
<1>3. Only(r) /\ request'[r] = new
  BY <1>1, <1>2, OneRequest
<1> QED
  BY <1>3 DEF new

(* The entries of one transaction are a sequence of entries, and so are they
   with some of them taken back. *)
LEMMA EntriesTyped ==
  ASSUME TypesInv, NEW t \in Transactions
  PROVE  /\ entries[t] \in Seq(Entry)
         /\ Len(entries[t]) \in Nat
         /\ \A k \in 1 .. Len(entries[t]) :
              /\ entries[t][k] \in Entry
              /\ entries[t][k].undone \in Seq(1 .. Days)
              /\ Len(entries[t][k].undone) \in Nat
<1>1. entries[t] \in Seq(Entry)
  BY Typed
<1>2. Len(entries[t]) \in Nat
  BY <1>1
<1>3. ASSUME NEW k \in 1 .. Len(entries[t])
      PROVE  /\ entries[t][k] \in Entry
             /\ entries[t][k].undone \in Seq(1 .. Days)
             /\ Len(entries[t][k].undone) \in Nat
  <2>1. entries[t][k] \in Entry
    BY <1>1, ElementOfSeq
  <2>2. entries[t][k].undone \in Seq(1 .. Days)
    BY <2>1 DEF Entry
  <2> QED
    BY <2>1, <2>2
<1> QED
  BY <1>1, <1>2, <1>3

LEMMA ReversedIs ==
  ASSUME TypesInv, NEW t \in Transactions, NEW some, NEW on \in 1 .. Days,
         NEW a, a = Reversed(t, some, on)
  PROVE  /\ a \in Seq(Entry)
         /\ Len(a) = Len(entries[t])
         /\ \A k \in 1 .. Len(entries[t]) :
              /\ a[k].amount = entries[t][k].amount
              /\ a[k].on = entries[t][k].on
              /\ a[k].undone = IF k \in some THEN Append(entries[t][k].undone, on)
                              ELSE entries[t][k].undone
<1>1. PICK n \in Nat : n = Len(entries[t])
  BY EntriesTyped
<1> DEFINE e(k) == IF k \in some
                   THEN [entries[t][k] EXCEPT !.undone = Append(@, on)]
                   ELSE entries[t][k]
<1>2. a = [k \in 1 .. n |-> e(k)]
  BY <1>1 DEF Reversed
<1>3. ASSUME NEW k \in 1 .. n
      PROVE  /\ e(k) \in Entry
             /\ e(k).amount = entries[t][k].amount
             /\ e(k).on = entries[t][k].on
             /\ e(k).undone = IF k \in some THEN Append(entries[t][k].undone, on)
                             ELSE entries[t][k].undone
  <2>1. entries[t][k] \in Entry /\ entries[t][k].undone \in Seq(1 .. Days)
    BY <1>1, EntriesTyped
  <2>2. Append(entries[t][k].undone, on) \in Seq(1 .. Days)
    BY <2>1
  <2> QED
    BY <2>1, <2>2 DEF Entry
<1> HIDE DEF e
<1>4. a \in [1 .. n -> Entry]
  BY <1>2, <1>3
<1>5. a \in Seq(Entry)
  BY <1>4, SeqDef
<1>6. Len(a) = n
  BY <1>4, <1>5, LenProperties
<1> QED
  BY <1>1, <1>2, <1>3, <1>5, <1>6

-----------------------------------------------------------------------------
(* The type invariant. *)
LEMMA TypesStart == ASSUME Init PROVE TypesInv
<1>1. today \in 1 .. Days /\ closedThrough \in 0 .. today
  BY BooksAssumption DEF Init
<1>2. row \in [Transactions -> Row] /\ \A t \in Transactions : RowOK(row[t])
  <2>1. NoRow \in Row /\ RowOK(NoRow)
    BY BooksAssumption DEF NoRow, Row, RowOK
  <2> QED
    BY <2>1 DEF Init
<1>3. request \in [Requests -> RequestRecord] /\ \A r \in Requests : RequestOK(request[r])
  BY IdleTyped DEF Init
<1>4. entries \in [Transactions -> Seq(Entry)]
  BY DEF Init
<1> QED
  BY <1>1, <1>2, <1>3, <1>4 DEF Init, TypesInv, TypeOK, RequestRecord

(* A step of one request, with the line where it was. *)
LEMMA TypesKept ==
  ASSUME TypesInv, NEW r \in Requests, Only(r), RequestOK(request'[r]),
         UNCHANGED <<today, closedThrough>>,
         row' \in [Transactions -> Row], \A t \in Transactions : RowOK(row'[t]),
         entries' \in [Transactions -> Seq(Entry)],
         lock' \in [Transactions -> Requests \cup {NoRequest}],
         posting' \in [Transactions -> {"none", "open", "posted", "refused"}],
         disturbed' \in [Transactions -> BOOLEAN]
  PROVE  TypesInv'
<1>1. \A s \in Requests : RequestOK(request'[s])
  BY DEF TypesInv, Only
<1>2. request' \in [Requests -> RequestRecord]
  BY DEF Only
<1> QED
  BY <1>1, <1>2, Typed DEF TypesInv, TypeOK, RequestRecord

LEMMA RequestTyped ==
  ASSUME TypesInv, NEW r \in Requests
  PROVE  request[r] \in RequestRecord /\ RequestOK(request[r])
BY Typed DEF TypesInv

(* A day and an amount that are not given are the row's. *)
LEMMA AskedTyped ==
  ASSUME TypesInv, NEW r \in Requests,
         request[r].stage \in {"correcting", "undoing"},
         row[request[r].transaction].state = "live"
  PROVE  /\ request[r].transaction \in Transactions
         /\ Asked(r).amount \in Amounts
         /\ Asked(r).day \in 1 .. Days
<1>1. request[r].transaction \in Transactions
  BY RequestTyped DEF RequestOK
<1>2. /\ row[request[r].transaction].amount \in Amounts
      /\ row[request[r].transaction].day \in 1 .. Days
  BY <1>1 DEF TypesInv, RowOK
<1>3. request[r].amount \in Amounts \cup {0} /\ request[r].day \in 0 .. Days
  BY RequestTyped DEF RequestRecord
<1> QED
  BY <1>1, <1>2, <1>3 DEF Asked

(* What locking and looking leave in the record. *)
Locked(r) ==
  [stage |-> IF request[r].stage = "undoing" THEN "undone" ELSE "corrected",
   transaction |-> request[r].transaction,
   amount |-> Asked(r).amount, day |-> Asked(r).day,
   sees |-> Standing(request[r].transaction), on |-> today, overtaken |-> FALSE]

LEMMA Locks ==
  ASSUME TypesInv, NEW r \in Requests, Lock(r)
  PROVE  LET t == request[r].transaction IN
         /\ t \in Transactions
         /\ lock[t] = NoRequest
         /\ UNCHANGED <<today, closedThrough, row, entries, posting>>
         /\ \/ /\ Only(r) /\ request'[r] = Idle
               /\ UNCHANGED <<lock, disturbed>>
            \/ /\ Only(r) /\ request'[r] = Locked(r) /\ RequestOK(request'[r])
               /\ row[t].state = "live"
               /\ Standing(t) # {} => ~Closed(today)
               /\ request[r].stage # "undoing" => ~Closed(Asked(r).day)
               /\ lock' = [lock EXCEPT ![t] = r]
               /\ disturbed' = [disturbed EXCEPT ![t] = @ \/ posting[t] = "open"]
<1> DEFINE t == request[r].transaction
           refused == \/ CannotReverse(t)
                      \/ request[r].stage # "undoing" /\ Closed(Asked(r).day)
           same == Asked(r) = [amount |-> row[t].amount, day |-> row[t].day]
           stops == \/ row[t].state # "live" \/ refused
                    \/ request[r].stage # "undoing" /\ same
<1>1. /\ request[r].stage \in {"correcting", "undoing"} /\ lock[t] = NoRequest
      /\ UNCHANGED <<today, closedThrough, row, entries, posting>>
      /\ IF stops
         THEN End(r) /\ UNCHANGED <<lock, disturbed>>
         ELSE /\ lock' = [lock EXCEPT ![t] = r]
              /\ request' = [request EXCEPT ![r] = Locked(r)]
              /\ disturbed' = [disturbed EXCEPT ![t] = @ \/ posting[t] = "open"]
  BY Zenon DEF Lock, Locked
<1>2. t \in Transactions
  BY <1>1, RequestTyped DEF RequestOK
<1>3. CASE stops
  BY <1>1, <1>2, <1>3, Ends
<1>4. CASE ~stops
  <2>1. row[t].state = "live"
    BY <1>4
  <2>2. Asked(r).amount \in Amounts /\ Asked(r).day \in 1 .. Days
    BY <1>1, <2>1, AskedTyped
  <2>3. Standing(t) \subseteq Nat
    BY <1>2, EntriesTyped DEF Standing
  <2>4. today \in 1 .. Days
    BY Typed
  <2>5. Locked(r) \in RequestRecord
    BY <1>2, <2>2, <2>3, <2>4 DEF Locked, RequestRecord
  <2>6. RequestOK(Locked(r))
    BY <1>2, <2>2, <2>4 DEF Locked, RequestOK
  <2>7. Only(r) /\ request'[r] = Locked(r)
    BY <1>1, <1>4, <2>5, OneRequest
  <2>8. /\ Standing(t) # {} => ~Closed(today)
        /\ request[r].stage # "undoing" => ~Closed(Asked(r).day)
    BY <1>4 DEF CannotReverse
  <2> QED
    BY <1>1, <1>2, <1>4, <2>1, <2>6, <2>7, <2>8
<1> QED
  BY <1>3, <1>4

(* What a commit writes. *)
LEMMA Commits ==
  ASSUME TypesInv, NEW r \in Requests, Commit(r),
         NEW t, t = request[r].transaction,
         NEW new, new = [amount |-> request[r].amount, on |-> request[r].day,
                         undone |-> <<>>],
         NEW reversed, reversed = Reversed(t, request[r].sees, request[r].on)
  PROVE  /\ t \in Transactions
         /\ request[r].stage \in {"corrected", "undone"}
         /\ request[r].amount \in Amounts /\ request[r].day \in 1 .. Days
         /\ request[r].on \in 1 .. Days
         /\ new \in Entry
         /\ reversed \in Seq(Entry) /\ Len(reversed) = Len(entries[t])
         /\ entries' \in [Transactions -> Seq(Entry)]
         /\ entries'[t] = IF request[r].stage = "undone" THEN reversed
                          ELSE Append(reversed, new)
         /\ \A u \in Transactions \ {t} : entries'[u] = entries[u]
<1>1. /\ request[r].stage \in {"corrected", "undone"}
      /\ entries' = [entries EXCEPT ![t] =
           IF request[r].stage = "undone" THEN reversed ELSE Append(reversed, new)]
  BY DEF Commit
<1>2. /\ t \in Transactions
      /\ request[r].amount \in Amounts /\ request[r].day \in 1 .. Days
      /\ request[r].on \in 1 .. Days
  BY <1>1, RequestTyped DEF RequestOK
<1>3. new \in Entry
  BY <1>2 DEF Entry
<1>4. reversed \in Seq(Entry) /\ Len(reversed) = Len(entries[t])
  BY <1>2, ReversedIs
<1>5. PICK written : written = IF request[r].stage = "undone" THEN reversed
                               ELSE Append(reversed, new)
  OBVIOUS
<1>6. written \in Seq(Entry)
  BY <1>3, <1>4, <1>5
<1>7. entries' = [entries EXCEPT ![t] = written]
  BY <1>1, <1>5
<1>8. /\ entries' \in [Transactions -> Seq(Entry)]
      /\ entries'[t] = written
      /\ \A u \in Transactions \ {t} : entries'[u] = entries[u]
  BY <1>2, <1>6, <1>7, Typed
<1> QED
  BY <1>1, <1>2, <1>3, <1>4, <1>5, <1>8

LEMMA Posts ==
  ASSUME TypesInv, NEW r \in Requests, Post(r),
         NEW t, t = request[r].transaction,
         NEW new, new = [amount |-> request[r].amount, on |-> request[r].day,
                         undone |-> <<>>]
  PROVE  /\ t \in Transactions /\ request[r].stage = "posting"
         /\ new \in Entry
         /\ entries' \in [Transactions -> Seq(Entry)]
         /\ entries'[t] = Append(entries[t], new)
         /\ \A u \in Transactions \ {t} : entries'[u] = entries[u]
<1>1. /\ request[r].stage = "posting"
      /\ entries' = [entries EXCEPT ![t] = Append(entries[t], new)]
  BY DEF Post
<1>2. /\ t \in Transactions
      /\ request[r].amount \in Amounts /\ request[r].day \in 1 .. Days
  BY <1>1, RequestTyped DEF RequestOK
<1>3. new \in Entry
  BY <1>2 DEF Entry
<1>4. PICK written : written = Append(entries[t], new)
  OBVIOUS
<1>5. written \in Seq(Entry)
  BY <1>2, <1>3, <1>4, EntriesTyped
<1>6. entries' = [entries EXCEPT ![t] = written]
  BY <1>1, <1>4
<1> QED
  BY <1>1, <1>2, <1>3, <1>4, <1>5, <1>6, Typed

(* Recording puts the row where there was none. *)
LEMMA Records ==
  ASSUME TypesInv, NEW r \in Requests, NEW t \in Transactions,
         NEW amount \in Amounts, NEW day \in 1 .. Days, Record(r, t, amount, day)
  PROVE  /\ Only(r) /\ RequestOK(request'[r])
         /\ request'[r].stage = "recording" /\ request'[r].transaction = t
         /\ request'[r].amount = amount /\ request'[r].day = day
         /\ ~request'[r].overtaken
         /\ row' \in [Transactions -> Row]
         /\ row'[t] = [state |-> "live", amount |-> amount, day |-> day]
         /\ \A u \in Transactions \ {t} : row'[u] = row[u]
<1>1. PICK new : new = [Idle EXCEPT !.stage = "recording", !.transaction = t,
                                    !.amount = amount, !.day = day]
  OBVIOUS
<1>2. /\ new \in RequestRecord /\ RequestOK(new)
      /\ new.stage = "recording" /\ new.transaction = t
      /\ new.amount = amount /\ new.day = day /\ ~new.overtaken
  <2>1. /\ new.stage = "recording" /\ new.transaction = t
        /\ new.amount = amount /\ new.day = day
    BY <1>1, IdleTyped DEF RequestRecord
  <2>2. new \in RequestRecord
    <3>1. amount \in Amounts \cup {0} /\ day \in 0 .. Days
      BY BooksAssumption
    <3> QED
      BY <1>1, <3>1, IdleTyped DEF RequestRecord
  <2>3. RequestOK(new)
    BY <2>1 DEF RequestOK
  <2>4. ~new.overtaken
    BY <1>1, IdleTyped DEF RequestRecord
  <2> QED
    BY <2>1, <2>2, <2>3, <2>4
<1>3. Only(r) /\ request'[r] = new
  BY <1>1, <1>2, OneRequest DEF Record
<1>4. PICK live : live = [state |-> "live", amount |-> amount, day |-> day]
  OBVIOUS
<1>5. live \in Row
  BY <1>4, BooksAssumption DEF Row
<1>6. row' = [row EXCEPT ![t] = live]
  BY <1>4 DEF Record
<1>7. /\ row' \in [Transactions -> Row] /\ row'[t] = live
      /\ \A u \in Transactions \ {t} : row'[u] = row[u]
  BY <1>5, <1>6, Typed
<1> QED
  BY <1>2, <1>3, <1>4, <1>7

LEMMA Asks ==
  ASSUME TypesInv, NEW r \in Requests, NEW t \in Transactions,
         \/ \E amount \in Amounts \cup {0}, day \in 0 .. Days :
              AskToCorrect(r, t, amount, day)
         \/ AskToUndo(r, t)
  PROVE  /\ Only(r) /\ RequestOK(request'[r])
         /\ request'[r].stage \in {"correcting", "undoing"}
         /\ request'[r].transaction = t
         /\ row[t].state = "live"
         /\ UNCHANGED <<today, closedThrough, row, entries, lock, posting, disturbed>>
<1>1. ASSUME NEW amount \in Amounts \cup {0}, NEW day \in 0 .. Days,
             AskToCorrect(r, t, amount, day)
      PROVE  /\ Only(r) /\ RequestOK(request'[r])
             /\ request'[r].stage \in {"correcting", "undoing"}
             /\ request'[r].transaction = t
  <2>1. PICK new : new = [Idle EXCEPT !.stage = "correcting", !.transaction = t,
                                      !.amount = amount, !.day = day]
    OBVIOUS
  <2>2. /\ new \in RequestRecord /\ RequestOK(new)
        /\ new.stage = "correcting" /\ new.transaction = t
    BY <2>1, IdleTyped DEF RequestRecord, RequestOK
  <2>3. Only(r) /\ request'[r] = new
    BY <1>1, <2>1, <2>2, OneRequest DEF AskToCorrect
  <2> QED
    BY <2>2, <2>3
<1>2. ASSUME AskToUndo(r, t)
      PROVE  /\ Only(r) /\ RequestOK(request'[r])
             /\ request'[r].stage \in {"correcting", "undoing"}
             /\ request'[r].transaction = t
  <2>1. PICK new : new = [Idle EXCEPT !.stage = "undoing", !.transaction = t]
    OBVIOUS
  <2>2. /\ new \in RequestRecord /\ RequestOK(new)
        /\ new.stage = "undoing" /\ new.transaction = t
    BY <2>1, IdleTyped DEF RequestRecord, RequestOK
  <2>3. Only(r) /\ request'[r] = new
    BY <1>2, <2>1, <2>2, OneRequest DEF AskToUndo
  <2> QED
    BY <2>2, <2>3
<1>3. /\ row[t].state = "live"
      /\ UNCHANGED <<today, closedThrough, row, entries, lock, posting, disturbed>>
  BY DEF AskToCorrect, AskToUndo
<1> QED
  BY <1>1, <1>2, <1>3

(* A refusal, or a death, of the one that records. *)
LEMMA Refuses ==
  ASSUME TypesInv, NEW r \in Requests,
         request[r].stage \in {"recording", "posting"},
         NEW t, t = request[r].transaction,
         posting' = [posting EXCEPT ![t] = IF @ = "open" THEN "refused" ELSE @]
  PROVE  /\ t \in Transactions
         /\ posting' \in [Transactions -> {"none", "open", "posted", "refused"}]
         /\ posting'[t] = IF posting[t] = "open" THEN "refused" ELSE posting[t]
         /\ \A u \in Transactions \ {t} : posting'[u] = posting[u]
<1>1. t \in Transactions
  BY RequestTyped DEF RequestOK
<1> QED
  BY <1>1, Typed

LEMMA TypesStep == ASSUME TypesInv, [Next]_vars PROVE TypesInv'
<1>1. \A t \in Transactions : RowOK(row[t])
  BY DEF TypesInv
<1>2. ASSUME NEW r \in Requests, NEW t \in Transactions,
             NEW amount \in Amounts, NEW day \in 1 .. Days, Record(r, t, amount, day)
      PROVE  TypesInv'
  <2>1. /\ Only(r) /\ RequestOK(request'[r])
        /\ row' \in [Transactions -> Row]
        /\ row'[t] = [state |-> "live", amount |-> amount, day |-> day]
        /\ \A u \in Transactions \ {t} : row'[u] = row[u]
    BY <1>2, Records
  <2>2. \A u \in Transactions : RowOK(row'[u])
    BY <1>1, <2>1 DEF RowOK
  <2>3. posting' \in [Transactions -> {"none", "open", "posted", "refused"}]
    BY <1>2, Typed DEF Record
  <2>4. UNCHANGED <<today, closedThrough, entries, lock, disturbed>>
    BY <1>2 DEF Record
  <2> QED
    BY <2>1, <2>2, <2>3, <2>4, Typed, TypesKept
<1>3. ASSUME NEW r \in Requests, NEW t \in Transactions,
             \/ \E amount \in Amounts \cup {0}, day \in 0 .. Days :
                  AskToCorrect(r, t, amount, day)
             \/ AskToUndo(r, t)
      PROVE  TypesInv'
  BY <1>1, <1>3, Asks, Typed, TypesKept
<1>4. RequestOK(Idle)
  BY IdleTyped
<1>5. ASSUME NEW r \in Requests, Look(r) PROVE TypesInv'
  <2>1. /\ request[r].stage = "recording"
        /\ UNCHANGED <<today, closedThrough, row, entries, lock, disturbed>>
    BY <1>5 DEF Look
  <2>2. CASE Closed(request[r].day)
    <3>1. /\ posting' = [posting EXCEPT ![request[r].transaction] =
                           IF @ = "open" THEN "refused" ELSE @]
          /\ End(r)
      BY <1>5, <2>2 DEF Look
    <3>2. posting' \in [Transactions -> {"none", "open", "posted", "refused"}]
      BY <2>1, <3>1, Refuses
    <3> QED
      BY <1>1, <1>4, <2>1, <3>1, <3>2, Ends, Typed, TypesKept
  <2>3. CASE ~Closed(request[r].day)
    <3>1. Stage(r, "posting") /\ UNCHANGED posting
      BY <1>5, <2>3 DEF Look
    <3>2. RequestOK(request'[r])
      BY <2>1, <3>1, NewStage, RequestTyped DEF RequestOK, RequestRecord
    <3> QED
      BY <1>1, <2>1, <3>1, <3>2, NewStage, Typed, TypesKept
  <2> QED
    BY <2>2, <2>3
<1>6. ASSUME NEW r \in Requests, Post(r) PROVE TypesInv'
  <2>1. entries' \in [Transactions -> Seq(Entry)]
    BY <1>6, Posts
  <2>2. posting' \in [Transactions -> {"none", "open", "posted", "refused"}]
    BY <1>6, Typed DEF Post
  <2>3. End(r) /\ UNCHANGED <<today, closedThrough, row, lock, disturbed>>
    BY <1>6 DEF Post
  <2> QED
    BY <1>1, <1>4, <2>1, <2>2, <2>3, Ends, Typed, TypesKept
<1>7. ASSUME NEW r \in Requests, Die(r) PROVE TypesInv'
  <2>1. posting' \in [Transactions -> {"none", "open", "posted", "refused"}]
    BY <1>7, Refuses DEF Die
  <2>2. End(r) /\ UNCHANGED <<today, closedThrough, row, entries, lock, disturbed>>
    BY <1>7 DEF Die
  <2> QED
    BY <1>1, <1>4, <2>1, <2>2, Ends, Typed, TypesKept
<1>8. ASSUME NEW r \in Requests, Lock(r) PROVE TypesInv'
  <2>1. UNCHANGED <<today, closedThrough, row, entries, posting>>
    BY <1>8 DEF Lock
  <2>2. Only(r) /\ RequestOK(request'[r])
    BY <1>8, <1>4, Locks
  <2>3. lock' \in [Transactions -> Requests \cup {NoRequest}]
    <3>1. \/ UNCHANGED lock
          \/ lock' = [lock EXCEPT ![request[r].transaction] = r]
      BY <1>8, Locks
    <3> QED
      BY <3>1, Typed
  <2>4. disturbed' \in [Transactions -> BOOLEAN]
    BY <1>8, Locks, Typed
  <2> QED
    BY <1>1, <2>1, <2>2, <2>3, <2>4, Typed, TypesKept
<1>9. ASSUME NEW r \in Requests, Commit(r) PROVE TypesInv'
  <2>1. PICK t : t = request[r].transaction
    OBVIOUS
  <2>2. /\ t \in Transactions
        /\ request[r].amount \in Amounts /\ request[r].day \in 1 .. Days
        /\ entries' \in [Transactions -> Seq(Entry)]
    BY <1>9, <2>1, Commits
  <2>3. PICK now : now = [state |-> IF request[r].stage = "undone" THEN "undone"
                                    ELSE "live",
                          amount |-> request[r].amount, day |-> request[r].day]
    OBVIOUS
  <2>4. now \in Row /\ RowOK(now)
    BY <2>2, <2>3 DEF Row, RowOK
  <2>5. row' = [row EXCEPT ![t] = now]
    BY <1>9, <2>1, <2>3 DEF Commit
  <2>6. row' \in [Transactions -> Row] /\ \A u \in Transactions : RowOK(row'[u])
    BY <1>1, <2>2, <2>4, <2>5, Typed
  <2>7. /\ lock' \in [Transactions -> Requests \cup {NoRequest}]
        /\ posting' \in [Transactions -> {"none", "open", "posted", "refused"}]
    BY <1>9, Typed DEF Commit
  <2>8. End(r) /\ UNCHANGED <<today, closedThrough, disturbed>>
    BY <1>9 DEF Commit
  <2> QED
    BY <1>4, <2>2, <2>6, <2>7, <2>8, Ends, Typed, TypesKept
<1>10. ASSUME NEW day \in 0 .. Days, CloseThrough(day) PROVE TypesInv'
  <2>1. /\ closedThrough' \in 0 .. today
        /\ UNCHANGED <<today, row, entries, lock, posting, disturbed>>
    BY <1>10, Typed DEF CloseThrough
  <2>2. ASSUME NEW r \in Requests
        PROVE  request'[r] \in RequestRecord /\ RequestOK(request'[r])
    <3>1. request'[r] = [request[r] EXCEPT !.overtaken =
                           @ \/ \E d \in About(r) : d <= day]
      BY <1>10 DEF CloseThrough
    <3>2. PICK b \in BOOLEAN : b = (request[r].overtaken \/ \E d \in About(r) : d <= day)
      OBVIOUS
    <3>3. request'[r] = [request[r] EXCEPT !.overtaken = b]
      BY <3>1, <3>2, RequestTyped DEF RequestRecord
    <3> QED
      BY <3>3, RequestTyped DEF RequestRecord, RequestOK
  <2>3. request' \in [Requests -> RequestRecord]
    BY <1>10, <2>2 DEF CloseThrough
  <2> QED
    BY <1>1, <2>1, <2>2, <2>3, Typed DEF TypesInv, TypeOK, RequestRecord
<1>11. ASSUME Dawn PROVE TypesInv'
  <2>1. today' \in 1 .. Days /\ closedThrough' \in 0 .. today'
    BY <1>11, BooksAssumption, Typed DEF Dawn
  <2>2. UNCHANGED <<row, entries, lock, request, posting, disturbed>>
    BY <1>11 DEF Dawn
  <2> QED
    BY <2>1, <2>2 DEF TypesInv, TypeOK
<1>12. ASSUME UNCHANGED vars PROVE TypesInv'
  BY <1>12 DEF vars, TypesInv, TypeOK
<1> QED
  BY <1>2, <1>3, <1>5, <1>6, <1>7, <1>8, <1>9, <1>10, <1>11, <1>12 DEF Next

(* Rows, entries, locks and what each request has looked at stay what the
   tables and the routes of transactions.ts and ledger.ts hold. *)
THEOREM BooksTypes == Spec => []TypeOK
<1>1. Init => TypesInv
  BY TypesStart
<1>2. TypesInv /\ [Next]_vars => TypesInv'
  BY TypesStep
<1>3. TypesInv => TypeOK
  BY DEF TypesInv
<1> QED
  BY <1>1, <1>2, <1>3, PTL DEF Spec

-----------------------------------------------------------------------------
(* What a request found of the line holds until the line is moved. *)
LEMMA LookKept ==
  ASSUME TypesInv, LookInv, NEW r \in Requests, Only(r),
         closedThrough' = closedThrough,
         ~request'[r].overtaken => LookedRight(request'[r])
  PROVE  LookInv'
<1>1. ASSUME NEW s \in Requests, ~request'[s].overtaken
      PROVE  LookedRight(request'[s])
  BY <1>1 DEF Only, LookInv
<1>2. \A w : LookedRight(w)' <=> LookedRight(w)
  BY DEF LookedRight, Closed
<1> QED
  BY <1>1 DEF LookInv, LookedRight, Closed

LEMMA LookStep == ASSUME TypesInv, LookInv, [Next]_vars PROVE LookInv'
<1>1. LookedRight(Idle)
  BY DEF Idle, LookedRight
<1>2. ASSUME NEW r \in Requests, End(r), closedThrough' = closedThrough
      PROVE  LookInv'
  BY <1>1, <1>2, Ends, LookKept
<1>3. ASSUME NEW r \in Requests, NEW t \in Transactions,
             NEW amount \in Amounts, NEW day \in 1 .. Days, Record(r, t, amount, day)
      PROVE  LookInv'
  <2>1. Only(r) /\ request'[r].stage = "recording"
    BY <1>3, Records
  <2>2. LookedRight(request'[r])
    BY <2>1 DEF LookedRight
  <2>3. closedThrough' = closedThrough
    BY <1>3 DEF Record
  <2> QED
    BY <2>1, <2>2, <2>3, LookKept
<1>4. ASSUME NEW r \in Requests, NEW t \in Transactions,
             \/ \E amount \in Amounts \cup {0}, day \in 0 .. Days :
                  AskToCorrect(r, t, amount, day)
             \/ AskToUndo(r, t)
      PROVE  LookInv'
  <2>1. Only(r) /\ request'[r].stage \in {"correcting", "undoing"}
        /\ closedThrough' = closedThrough
    BY <1>4, Asks
  <2>2. LookedRight(request'[r])
    BY <2>1 DEF LookedRight
  <2> QED
    BY <2>1, <2>2, LookKept
<1>5. ASSUME NEW r \in Requests, Look(r) PROVE LookInv'
  <2>1. closedThrough' = closedThrough /\ request[r].stage = "recording"
    BY <1>5 DEF Look
  <2>2. CASE Closed(request[r].day)
    BY <1>5, <1>2, <2>1, <2>2 DEF Look
  <2>3. CASE ~Closed(request[r].day)
    <3>1. Stage(r, "posting")
      BY <1>5, <2>3 DEF Look
    <3>2. Only(r) /\ request'[r].stage = "posting" /\ request'[r].day = request[r].day
      BY <3>1, NewStage, RequestTyped DEF RequestRecord
    <3>3. LookedRight(request'[r])
      BY <2>3, <3>2 DEF LookedRight
    <3> QED
      BY <2>1, <3>2, <3>3, LookKept
  <2> QED
    BY <2>2, <2>3
<1>6. ASSUME NEW r \in Requests, Post(r) \/ Die(r) \/ Commit(r) PROVE LookInv'
  BY <1>6, <1>2 DEF Post, Die, Commit
<1>7. ASSUME NEW r \in Requests, Lock(r) PROVE LookInv'
  <2>1. closedThrough' = closedThrough
    BY <1>7 DEF Lock
  <2>2. \/ Only(r) /\ request'[r] = Idle
        \/ /\ Only(r) /\ request'[r] = Locked(r)
           /\ Standing(request[r].transaction) # {} => ~Closed(today)
           /\ request[r].stage # "undoing" => ~Closed(Asked(r).day)
    BY <1>7, Locks
  <2>3. CASE request'[r] = Idle
    BY <1>1, <2>1, <2>2, <2>3, LookKept
  <2>4. CASE /\ request'[r] = Locked(r)
             /\ Standing(request[r].transaction) # {} => ~Closed(today)
             /\ request[r].stage # "undoing" => ~Closed(Asked(r).day)
    <3>1. /\ Locked(r).sees = Standing(request[r].transaction)
          /\ Locked(r).on = today /\ Locked(r).day = Asked(r).day
          /\ Locked(r).stage \in {"corrected", "undone"}
          /\ Locked(r).stage = "corrected" => request[r].stage # "undoing"
      BY DEF Locked
    <3>2. LookedRight(request'[r])
      BY <2>4, <3>1 DEF LookedRight
    <3> QED
      BY <2>1, <2>2, <3>2, LookKept
  <2> QED
    BY <2>2, <2>3, <2>4
<1>8. ASSUME NEW day \in 0 .. Days, CloseThrough(day) PROVE LookInv'
  <2>1. ASSUME NEW r \in Requests, ~request'[r].overtaken
        PROVE  LookedRight(request[r])' /\ request'[r].stage = request[r].stage
    <3>1. request'[r] = [request[r] EXCEPT !.overtaken =
                           @ \/ \E d \in About(r) : d <= day]
      BY <1>8 DEF CloseThrough
    <3>2. PICK b \in BOOLEAN : b = (request[r].overtaken \/ \E d \in About(r) : d <= day)
      OBVIOUS
    <3>3. request'[r] = [request[r] EXCEPT !.overtaken = b]
      BY <3>1, <3>2, RequestTyped DEF RequestRecord
    <3>4. /\ request'[r].stage = request[r].stage /\ request'[r].day = request[r].day
          /\ request'[r].on = request[r].on /\ request'[r].sees = request[r].sees
          /\ request'[r].overtaken = b
      BY <3>3, RequestTyped DEF RequestRecord
    <3>5. \A d \in About(r) : ~(d <= day)
      BY <2>1, <3>2, <3>4
    <3>6. /\ request[r].stage \in {"posting", "corrected"} => request[r].day \in About(r)
          /\ request[r].stage \in {"corrected", "undone"} => request[r].on \in About(r)
      BY DEF About
    <3>7. closedThrough' = day
      BY <1>8 DEF CloseThrough
    <3> QED
      BY <3>4, <3>5, <3>6, <3>7 DEF LookedRight, Closed
  <2> QED
    BY <2>1 DEF LookInv
<1>9. ASSUME UNCHANGED <<closedThrough, request>> PROVE LookInv'
  BY <1>9 DEF LookInv, LookedRight, Closed
<1>10. ASSUME Dawn \/ UNCHANGED vars PROVE LookInv'
  BY <1>9, <1>10 DEF Dawn, vars
<1> QED
  BY <1>3, <1>4, <1>5, <1>6, <1>7, <1>8, <1>10 DEF Next

-----------------------------------------------------------------------------
(* The figures of a day. *)
DayOf(s, day) ==
  [posted |-> {k \in 1 .. Len(s) : s[k].on = day},
   undone |-> {k \in 1 .. Len(s) :
                 \E j \in 1 .. Len(s[k].undone) : s[k].undone[j] = day}]

LEMMA AppendedDay ==
  ASSUME NEW s \in Seq(Entry), NEW e \in Entry, NEW day,
         e.undone = <<>>, e.on # day
  PROVE  DayOf(Append(s, e), day) = DayOf(s, day)
<1>1. PICK n \in Nat : n = Len(s)
  OBVIOUS
<1>2. PICK a : a = Append(s, e)
  OBVIOUS
<1>3. Len(a) = n + 1 /\ a[n + 1] = e /\ \A k \in 1 .. n : a[k] = s[k]
  BY <1>1, <1>2
<1>4. {k \in 1 .. Len(a) : a[k].on = day} = {k \in 1 .. n : s[k].on = day}
  BY <1>3
<1>5. {k \in 1 .. Len(a) : \E j \in 1 .. Len(a[k].undone) : a[k].undone[j] = day}
        = {k \in 1 .. n : \E j \in 1 .. Len(s[k].undone) : s[k].undone[j] = day}
  <2>1. ~\E j \in 1 .. Len(e.undone) : e.undone[j] = day
    OBVIOUS
  <2> QED
    BY <1>3, <2>1
<1> QED
  BY <1>1, <1>2, <1>4, <1>5 DEF DayOf

LEMMA ReversedDay ==
  ASSUME TypesInv, NEW t \in Transactions, NEW some, NEW on \in 1 .. Days, NEW day,
         on # day \/ some = {}
  PROVE  DayOf(Reversed(t, some, on), day) = DayOf(entries[t], day)
<1>1. PICK n \in Nat : n = Len(entries[t])
  BY EntriesTyped
<1>2. PICK a : a = Reversed(t, some, on)
  OBVIOUS
<1>3. /\ Len(a) = n
      /\ \A k \in 1 .. n :
           /\ a[k].on = entries[t][k].on
           /\ a[k].undone = IF k \in some THEN Append(entries[t][k].undone, on)
                           ELSE entries[t][k].undone
  BY <1>1, <1>2, ReversedIs
<1>4. {k \in 1 .. Len(a) : a[k].on = day} = {k \in 1 .. n : entries[t][k].on = day}
  BY <1>3
<1>5. ASSUME NEW k \in 1 .. n
      PROVE  (\E j \in 1 .. Len(a[k].undone) : a[k].undone[j] = day)
               <=> (\E j \in 1 .. Len(entries[t][k].undone) : entries[t][k].undone[j] = day)
  <2>1. CASE k \notin some
    BY <1>3, <2>1
  <2>2. CASE k \in some
    <3>1. PICK u : u = entries[t][k].undone
      OBVIOUS
    <3>2. u \in Seq(1 .. Days)
      BY <1>1, <3>1, EntriesTyped
    <3>3. PICK m \in Nat : m = Len(u)
      BY <3>2
    <3>4. PICK v : v = Append(u, on)
      OBVIOUS
    <3>5. Len(v) = m + 1 /\ v[m + 1] = on /\ \A j \in 1 .. m : v[j] = u[j]
      BY <3>2, <3>3, <3>4
    <3>6. on # day
      BY <2>2
    <3>7. (\E j \in 1 .. Len(v) : v[j] = day) <=> (\E j \in 1 .. m : u[j] = day)
      BY <3>5, <3>6
    <3> QED
      BY <1>3, <2>2, <3>1, <3>3, <3>4, <3>7
  <2> QED
    BY <2>1, <2>2
<1>6. {k \in 1 .. Len(a) : \E j \in 1 .. Len(a[k].undone) : a[k].undone[j] = day}
        = {k \in 1 .. n : \E j \in 1 .. Len(entries[t][k].undone) :
                            entries[t][k].undone[j] = day}
  BY <1>3, <1>5
<1> QED
  BY <1>1, <1>2, <1>4, <1>6 DEF DayOf

(* An entry, or a correction, that had not been overtaken changes no figure
   of a day that is closed. *)
LEMMA PostsOnOpenDays ==
  ASSUME TypesInv, LookInv, NEW r \in Requests, Post(r), ~request[r].overtaken,
         NEW t \in Transactions, NEW day \in 1 .. Days, Closed(day)
  PROVE  DayOf(entries'[t], day) = DayOf(entries[t], day)
<1>1. PICK u : u = request[r].transaction
  OBVIOUS
<1>2. PICK new : new = [amount |-> request[r].amount, on |-> request[r].day,
                        undone |-> <<>>]
  OBVIOUS
<1>3. /\ request[r].stage = "posting" /\ new \in Entry
      /\ entries'[u] = Append(entries[u], new)
      /\ \A v \in Transactions \ {u} : entries'[v] = entries[v]
  BY <1>1, <1>2, Posts
<1>4. ~Closed(request[r].day)
  BY <1>3 DEF LookInv, LookedRight
<1>5. new.on # day /\ new.undone = <<>>
  BY <1>2, <1>4
<1>6. CASE t = u
  BY <1>3, <1>5, <1>6, EntriesTyped, AppendedDay
<1>7. CASE t # u
  BY <1>3, <1>7
<1> QED
  BY <1>6, <1>7

LEMMA CommitsOnOpenDays ==
  ASSUME TypesInv, LookInv, NEW r \in Requests, Commit(r), ~request[r].overtaken,
         NEW t \in Transactions, NEW day \in 1 .. Days, Closed(day)
  PROVE  DayOf(entries'[t], day) = DayOf(entries[t], day)
<1>1. PICK u : u = request[r].transaction
  OBVIOUS
<1>2. PICK new : new = [amount |-> request[r].amount, on |-> request[r].day,
                        undone |-> <<>>]
  OBVIOUS
<1>3. PICK reversed : reversed = Reversed(u, request[r].sees, request[r].on)
  OBVIOUS
<1>4. /\ u \in Transactions /\ request[r].stage \in {"corrected", "undone"}
      /\ request[r].on \in 1 .. Days
      /\ new \in Entry /\ reversed \in Seq(Entry)
      /\ entries'[u] = IF request[r].stage = "undone" THEN reversed
                       ELSE Append(reversed, new)
      /\ \A v \in Transactions \ {u} : entries'[v] = entries[v]
  BY <1>1, <1>2, <1>3, Commits
<1>5. LookedRight(request[r])
  BY DEF LookInv
<1>6. request[r].on # day \/ request[r].sees = {}
  BY <1>4, <1>5 DEF LookedRight
<1>7. DayOf(reversed, day) = DayOf(entries[u], day)
  BY <1>3, <1>4, <1>6, ReversedDay
<1>8. CASE t # u
  BY <1>4, <1>8
<1>9. CASE t = u /\ request[r].stage = "undone"
  BY <1>4, <1>7, <1>9
<1>10. CASE t = u /\ request[r].stage = "corrected"
  <2>1. new.on # day /\ new.undone = <<>>
    BY <1>2, <1>5, <1>10 DEF LookedRight
  <2>2. DayOf(Append(reversed, new), day) = DayOf(reversed, day)
    BY <1>4, <2>1, AppendedDay
  <2> QED
    BY <1>4, <1>7, <1>10, <2>2
<1> QED
  BY <1>4, <1>8, <1>9, <1>10

LEMMA FiguresStep ==
  ASSUME TypesInv, LookInv, [Next]_vars,
         NEW t \in Transactions, NEW day \in 1 .. Days, Closed(day),
         OnTheDay(t, day)' # OnTheDay(t, day)
  PROVE  \E r \in Requests : request[r].overtaken /\ request'[r] = Idle
<1>1. /\ OnTheDay(t, day) = DayOf(entries[t], day)
      /\ OnTheDay(t, day)' = DayOf(entries'[t], day)
  BY DEF OnTheDay, DayOf
<1>2. entries' # entries
  BY <1>1
<1>3. PICK r \in Requests : Post(r) \/ Commit(r)
  BY <1>2 DEF Next, Record, AskToCorrect, AskToUndo, Look, Die, Lock, CloseThrough,
              Dawn, vars
<1>4. request'[r] = Idle
  BY <1>3, Ends DEF Post, Commit
<1>5. request[r].overtaken
  BY <1>1, <1>3, PostsOnOpenDays, CommitsOnOpenDays
<1> QED
  BY <1>4, <1>5

(* What a closed period reported stays what it was, whatever is recorded,
   corrected or undone afterwards: only a posting that had asked whether its
   days were open before the line was moved over one of them comes in behind
   it (period.ts moves the line under no lock that a posting takes). *)
THEOREM ClosedDaysKeepTheirFigures == Spec => FiledFiguresStay
<1>1. Init => TypesInv /\ LookInv
  <2>1. ASSUME Init PROVE LookInv
    <3>1. \A r \in Requests : request[r] = Idle
      BY <2>1 DEF Init
    <3> QED
      BY <3>1 DEF LookInv, LookedRight, Idle
  <2> QED
    BY <2>1, TypesStart
<1>2. TypesInv /\ LookInv /\ [Next]_vars => (TypesInv /\ LookInv)'
  BY TypesStep, LookStep
<1>3. TypesInv /\ LookInv /\ [Next]_vars =>
        [\A t \in Transactions, day \in 1 .. Days :
           Closed(day) /\ OnTheDay(t, day)' # OnTheDay(t, day) =>
             \E r \in Requests : request[r].overtaken /\ request'[r] = Idle]_entries
  BY FiguresStep
<1> QED
  BY <1>1, <1>2, <1>3, PTL DEF Spec, FiledFiguresStay

-----------------------------------------------------------------------------
(* A row is held by the request its lock names, and recorded by one. *)
Posting(t) ==
  /\ row[t].state = "none" => posting[t] = "none" /\ entries[t] = <<>>
  /\ posting[t] = "none" => row[t].state = "none"

Untouched(r, t) ==
  row[t].state = "none" =>
    request[r].stage = "idle" \/ request[r].transaction # t

LEMMA RowsAre ==
  ASSUME RowsInv
  PROVE  /\ \A r \in Requests, t \in Transactions : Untouched(r, t)
         /\ \A t \in Transactions : Posting(t)
BY DEF RowsInv, Untouched, Posting

(* One request moves, and leaves the rows of the others where they are. *)
LEMMA RowsKept ==
  ASSUME TypesInv, RowsInv, NEW r \in Requests, Only(r),
         \A t \in Transactions : Holding(r, t)' <=> lock'[t] = r,
         \A t \in Transactions : \A s \in Requests \ {r} : lock'[t] = s <=> lock[t] = s,
         \A t \in Transactions : Recording(r, t)' =>
           Recording(r, t) \/ row[t].state = "none",
         \A t \in Transactions : Posting(t)',
         \A t \in Transactions : row'[t].state = "none" => row[t].state = "none",
         \A t \in Transactions : Untouched(r, t)'
  PROVE  RowsInv'
<1>1. \A s \in Requests \ {r} : request'[s] = request[s]
  BY DEF Only
<1>2. ASSUME NEW s \in Requests, NEW t \in Transactions
      PROVE  Holding(s, t)' <=> lock'[t] = s
  BY <1>1 DEF RowsInv, Holding
<1>3. ASSUME NEW s \in Requests, NEW u \in Requests, NEW t \in Transactions,
             Recording(s, t)', Recording(u, t)'
      PROVE  s = u
  <2>1. ASSUME NEW v \in Requests \ {r}, Recording(v, t)', Recording(r, t)'
        PROVE  FALSE
    <3>1. Recording(v, t)
      BY <1>1, <2>1 DEF Recording
    <3>2. row[t].state # "none"
      BY <3>1 DEF RowsInv, Recording
    <3> QED
      BY <2>1, <3>1, <3>2 DEF RowsInv
  <2>2. CASE s # r /\ u # r
    BY <1>1, <1>3, <2>2 DEF RowsInv, Recording
  <2> QED
    BY <1>3, <2>1, <2>2
<1>4. ASSUME NEW s \in Requests, NEW t \in Transactions PROVE Untouched(s, t)'
  BY <1>1, RowsAre DEF Untouched
<1> QED
  BY <1>2, <1>3, <1>4 DEF RowsInv, Posting, Untouched

(* A request that ends holds nothing. *)
LEMMA RowsEnd ==
  ASSUME TypesInv, RowsInv, NEW r \in Requests, End(r),
         ~\E t \in Transactions : Holding(r, t),
         UNCHANGED <<row, lock>>, \A t \in Transactions : Posting(t)'
  PROVE  RowsInv'
<1>1. Only(r) /\ request'[r].stage = "idle"
  BY Ends, IdleTyped
<1>2. \A t \in Transactions : (Holding(r, t)' <=> FALSE) /\ (Recording(r, t)' <=> FALSE)
  BY <1>1 DEF Holding, Recording
<1>3. \A t \in Transactions : lock'[t] # r
  BY DEF RowsInv
<1>4. \A t \in Transactions : Untouched(r, t)'
  BY <1>1 DEF Untouched
<1> QED
  BY <1>1, <1>2, <1>3, <1>4, RowsKept

LEMMA RowsStart == ASSUME Init PROVE RowsInv
<1>1. \A r \in Requests : request[r] = Idle
  BY DEF Init
<1>2. \A t \in Transactions :
        row[t] = NoRow /\ lock[t] = NoRequest /\ posting[t] = "none" /\ entries[t] = <<>>
  BY DEF Init
<1>3. \A r \in Requests : r # NoRequest
  BY BooksAssumption
<1> QED
  BY <1>1, <1>2, <1>3 DEF RowsInv, Holding, Recording, Idle, NoRow

LEMMA RowsStep == ASSUME TypesInv, RowsInv, [Next]_vars PROVE RowsInv'
<1>1. \A t \in Transactions : Posting(t)
  BY RowsAre
<1>2. \A r \in Requests : r # NoRequest
  BY BooksAssumption
<1>3. ASSUME NEW r \in Requests, NEW t \in Transactions,
             NEW amount \in Amounts, NEW day \in 1 .. Days, Record(r, t, amount, day)
      PROVE  RowsInv'
  <2>1. /\ Only(r)
        /\ request'[r].stage = "recording" /\ request'[r].transaction = t
        /\ row'[t] = [state |-> "live", amount |-> amount, day |-> day]
        /\ \A u \in Transactions \ {t} : row'[u] = row[u]
    BY <1>3, Records
  <2>2. /\ request[r].stage = "idle" /\ row[t].state = "none"
        /\ posting' = [posting EXCEPT ![t] = "open"]
        /\ UNCHANGED <<entries, lock>>
    BY <1>3 DEF Record, Idle, NoRow
  <2>3. \A u \in Transactions : Holding(r, u)' <=> lock'[u] = r
    <3>1. \A u \in Transactions : ~Holding(r, u) /\ ~Holding(r, u)'
      BY <2>1, <2>2 DEF Holding
    <3> QED
      BY <2>2, <3>1 DEF RowsInv
  <2>4. \A u \in Transactions : Posting(u)'
    BY <1>1, <2>1, <2>2, Typed DEF Posting
  <2>5. \A u \in Transactions : row'[u].state = "none" => row[u].state = "none"
    BY <2>1
  <2>6. \A u \in Transactions : Untouched(r, u)'
    BY <2>1 DEF Untouched
  <2>7. \A u \in Transactions : Recording(r, u)' => row[u].state = "none"
    BY <2>1, <2>2 DEF Recording
  <2> QED
    BY <2>1, <2>2, <2>3, <2>4, <2>5, <2>6, <2>7, RowsKept
<1>4. ASSUME NEW r \in Requests, NEW t \in Transactions,
             \/ \E amount \in Amounts \cup {0}, day \in 0 .. Days :
                  AskToCorrect(r, t, amount, day)
             \/ AskToUndo(r, t)
      PROVE  RowsInv'
  <2>1. /\ Only(r) /\ request'[r].stage \in {"correcting", "undoing"}
        /\ request'[r].transaction = t /\ row[t].state = "live"
        /\ UNCHANGED <<row, entries, lock, posting>>
    BY <1>4, Asks
  <2>2. request[r] = Idle
    BY <1>4 DEF AskToCorrect, AskToUndo
  <2>3. request[r].stage = "idle"
    BY <2>2, IdleTyped
  <2>4. \A u \in Transactions : ~Holding(r, u) /\ ~Holding(r, u)' /\ ~Recording(r, u)'
    BY <2>1, <2>3 DEF Holding, Recording
  <2>5. \A u \in Transactions : Holding(r, u)' <=> lock'[u] = r
    BY <2>1, <2>4 DEF RowsInv
  <2>6. \A u \in Transactions : Posting(u)' /\ Untouched(r, u)'
    BY <1>1, <2>1 DEF Posting, Untouched
  <2> QED
    BY <2>1, <2>4, <2>5, <2>6, RowsKept
<1>5. ASSUME NEW r \in Requests, request[r].stage \in {"recording", "posting"},
             End(r), UNCHANGED <<row, entries, lock>>,
             posting' = [posting EXCEPT ![request[r].transaction] =
                           IF @ = "open" THEN "refused" ELSE @]
      PROVE  RowsInv'
  <2>1. ~\E t \in Transactions : Holding(r, t)
    BY <1>5 DEF Holding
  <2>2. ASSUME NEW t \in Transactions PROVE Posting(t)'
    <3>1. posting'[t] = posting[t] \/ (posting[t] = "open" /\ posting'[t] = "refused")
      BY <1>5, Refuses
    <3> QED
      BY <1>1, <1>5, <3>1 DEF Posting
  <2> QED
    BY <1>5, <2>1, <2>2, RowsEnd
<1>6. ASSUME NEW r \in Requests, Look(r) PROVE RowsInv'
  <2>1. request[r].stage = "recording" /\ UNCHANGED <<row, entries, lock>>
    BY <1>6 DEF Look
  <2>2. CASE Closed(request[r].day)
    BY <1>6, <1>5, <2>1, <2>2 DEF Look
  <2>3. CASE ~Closed(request[r].day)
    <3>1. Stage(r, "posting") /\ UNCHANGED posting
      BY <1>6, <2>3 DEF Look
    <3>2. /\ Only(r) /\ request'[r].stage = "posting"
          /\ request'[r].transaction = request[r].transaction
      BY <3>1, NewStage, RequestTyped DEF RequestRecord
    <3>3. \A t \in Transactions : ~Holding(r, t) /\ ~Holding(r, t)'
      BY <2>1, <3>2 DEF Holding
    <3>4. \A t \in Transactions : Holding(r, t)' <=> lock'[t] = r
      BY <2>1, <3>3 DEF RowsInv
    <3>5. \A t \in Transactions : Recording(r, t)' => Recording(r, t)
      BY <2>1, <3>2 DEF Recording
    <3>6. \A t \in Transactions : Posting(t)' /\ Untouched(r, t)'
      <4>1. \A t \in Transactions : Untouched(r, t)
        BY RowsAre
      <4> QED
        BY <1>1, <2>1, <3>1, <3>2, <4>1 DEF Posting, Untouched
    <3> QED
      BY <2>1, <3>2, <3>4, <3>5, <3>6, RowsKept
  <2> QED
    BY <2>2, <2>3
<1>7. ASSUME NEW r \in Requests, Post(r) PROVE RowsInv'
  <2>1. PICK t : t = request[r].transaction
    OBVIOUS
  <2>2. PICK new : new = [amount |-> request[r].amount, on |-> request[r].day,
                          undone |-> <<>>]
    OBVIOUS
  <2>3. /\ t \in Transactions /\ request[r].stage = "posting"
        /\ \A u \in Transactions \ {t} : entries'[u] = entries[u]
    BY <1>7, <2>1, <2>2, Posts
  <2>4. posting' = [posting EXCEPT ![t] = "posted"] /\ UNCHANGED <<row, lock>> /\ End(r)
    BY <1>7, <2>1 DEF Post
  <2>5. row[t].state # "none"
    BY <2>1, <2>3, RowsAre DEF Untouched
  <2>6. \A u \in Transactions : Posting(u)'
    BY <1>1, <2>3, <2>4, <2>5, Typed DEF Posting
  <2>7. ~\E u \in Transactions : Holding(r, u)
    BY <2>3 DEF Holding
  <2> QED
    BY <2>4, <2>6, <2>7, RowsEnd
<1>8. ASSUME NEW r \in Requests, Die(r) PROVE RowsInv'
  BY <1>8, <1>5 DEF Die
<1>9. ASSUME NEW r \in Requests, Lock(r) PROVE RowsInv'
  <2>1. PICK t : t = request[r].transaction
    OBVIOUS
  <2>2. /\ t \in Transactions /\ lock[t] = NoRequest
        /\ UNCHANGED <<row, entries, posting>>
        /\ \/ request'[r] = Idle /\ UNCHANGED lock
           \/ /\ request'[r] = Locked(r) /\ row[t].state = "live"
              /\ lock' = [lock EXCEPT ![t] = r]
    BY <1>9, <2>1, Locks
  <2>3. Only(r)
    BY <1>9, Locks
  <2>4. \A u \in Transactions : ~Holding(r, u) /\ ~Recording(r, u)
    BY <1>9 DEF Lock, Holding, Recording
  <2>5. \A u \in Transactions : Posting(u)'
    BY <1>1, <2>2 DEF Posting
  <2>6. CASE request'[r] = Idle /\ UNCHANGED lock
    <3>1. \A u \in Transactions : ~Holding(r, u)' /\ ~Recording(r, u)' /\ Untouched(r, u)'
      BY <2>6 DEF Holding, Recording, Untouched, Idle
    <3>2. \A u \in Transactions : Holding(r, u)' <=> lock'[u] = r
      BY <2>4, <2>6, <3>1 DEF RowsInv
    <3> QED
      BY <2>2, <2>3, <2>5, <2>6, <3>1, <3>2, RowsKept
  <2>7. CASE /\ request'[r] = Locked(r) /\ row[t].state = "live"
             /\ lock' = [lock EXCEPT ![t] = r]
    <3>1. request'[r].stage \in {"corrected", "undone"} /\ request'[r].transaction = t
      BY <2>1, <2>7 DEF Locked
    <3>2. /\ lock'[t] = r
          /\ \A u \in Transactions \ {t} : lock'[u] = lock[u]
      BY <2>2, <2>7, Typed
    <3>3. \A u \in Transactions : Holding(r, u)' <=> u = t
      BY <3>1 DEF Holding
    <3>4. \A u \in Transactions : Holding(r, u)' <=> lock'[u] = r
      BY <2>4, <3>2, <3>3 DEF RowsInv
    <3>5. \A u \in Transactions : ~Recording(r, u)' /\ Untouched(r, u)'
      BY <2>2, <2>7, <3>1 DEF Recording, Untouched
    <3>6. \A u \in Transactions : \A s \in Requests \ {r} : lock'[u] = s <=> lock[u] = s
      BY <1>2, <2>2, <3>2
    <3> QED
      BY <2>2, <2>3, <2>5, <3>4, <3>5, <3>6, RowsKept
  <2> QED
    BY <2>2, <2>6, <2>7
<1>10. ASSUME NEW r \in Requests, Commit(r) PROVE RowsInv'
  <2>1. PICK t : t = request[r].transaction
    OBVIOUS
  <2>2. /\ request[r].stage \in {"corrected", "undone"}
        /\ lock' = [lock EXCEPT ![t] = NoRequest]
        /\ posting' = [posting EXCEPT ![t] = "posted"]
        /\ End(r)
    BY <1>10, <2>1 DEF Commit
  <2>3. t \in Transactions
    BY <2>1, <2>2, RequestTyped DEF RequestOK
  <2>4. PICK new : new = [amount |-> request[r].amount, on |-> request[r].day,
                          undone |-> <<>>]
    OBVIOUS
  <2>5. PICK reversed : reversed = Reversed(t, request[r].sees, request[r].on)
    OBVIOUS
  <2>6. \A u \in Transactions \ {t} : entries'[u] = entries[u]
    BY <1>10, <2>1, <2>4, <2>5, Commits
  <2>7. PICK now : now = [state |-> IF request[r].stage = "undone" THEN "undone"
                                    ELSE "live",
                          amount |-> request[r].amount, day |-> request[r].day]
    OBVIOUS
  <2>8. row' = [row EXCEPT ![t] = now] /\ now.state # "none"
    BY <1>10, <2>1, <2>7 DEF Commit
  <2>9. row'[t].state # "none" /\ \A u \in Transactions \ {t} : row'[u] = row[u]
    BY <2>3, <2>8, Typed
  <2>10. /\ lock'[t] = NoRequest
         /\ \A u \in Transactions \ {t} : lock'[u] = lock[u]
         /\ posting'[t] = "posted"
         /\ \A u \in Transactions \ {t} : posting'[u] = posting[u]
    BY <2>2, <2>3, Typed
  <2>11. \A u \in Transactions : Posting(u)'
    BY <1>1, <2>6, <2>9, <2>10 DEF Posting
  <2>12. Only(r) /\ request'[r].stage = "idle"
    BY <2>2, Ends, IdleTyped
  <2>13. \A u \in Transactions : ~Holding(r, u)' /\ ~Recording(r, u)' /\ Untouched(r, u)'
    BY <2>12 DEF Holding, Recording, Untouched
  <2>14. Holding(r, t) /\ lock[t] = r /\ \A u \in Transactions \ {t} : ~Holding(r, u)
    BY <2>1, <2>2, <2>3 DEF Holding, RowsInv
  <2>15. \A u \in Transactions : lock'[u] # r
    BY <1>2, <2>10, <2>14 DEF RowsInv
  <2>16. \A u \in Transactions : \A s \in Requests \ {r} : lock'[u] = s <=> lock[u] = s
    BY <1>2, <2>10, <2>14
  <2> QED
    BY <2>9, <2>11, <2>12, <2>13, <2>15, <2>16, RowsKept
<1>11. ASSUME NEW day \in 0 .. Days, CloseThrough(day) PROVE RowsInv'
  <2>1. UNCHANGED <<row, entries, lock, posting>>
    BY <1>11 DEF CloseThrough
  <2>2. ASSUME NEW r \in Requests
        PROVE  /\ request'[r].stage = request[r].stage
               /\ request'[r].transaction = request[r].transaction
    <3>1. PICK b : b = (request[r].overtaken \/ \E d \in About(r) : d <= day)
      OBVIOUS
    <3>2. request'[r] = [request[r] EXCEPT !.overtaken = b]
      BY <1>11, <3>1, RequestTyped DEF CloseThrough, RequestRecord
    <3> QED
      BY <3>2, RequestTyped DEF RequestRecord
  <2> QED
    BY <2>1, <2>2 DEF RowsInv, Holding, Recording
<1>12. ASSUME Dawn \/ UNCHANGED vars PROVE RowsInv'
  BY <1>12 DEF Dawn, vars, RowsInv, Holding, Recording
<1> QED
  BY <1>3, <1>4, <1>6, <1>7, <1>8, <1>9, <1>10, <1>11, <1>12 DEF Next

-----------------------------------------------------------------------------
(* The transactions nobody changed before they were recorded. *)
LEMMA UndisturbedKept ==
  ASSUME NEW r \in Requests, Only(r), NEW t \in Transactions, Undisturbed(t),
         row'[t] = row[t], entries'[t] = entries[t], posting'[t] = posting[t],
         InOrder(r, t)'
  PROVE  Undisturbed(t)'
<1>1. ASSUME NEW s \in Requests PROVE InOrder(s, t)'
  <2>1. CASE s = r
    BY <2>1
  <2>2. CASE s # r
    <3>1. request'[s] = request[s] /\ InOrder(s, t)
      BY <2>2 DEF Only, Undisturbed
    <3> QED
      BY <3>1 DEF InOrder, Recording, Holding, Standing
  <2> QED
    BY <2>1, <2>2
<1>2. Posted(t)'
  <2>1. Posted(t)
    BY DEF Undisturbed
  <2> QED
    BY <2>1 DEF Posted, TakenBack
<1>3. row'[t].state = "undone" => posting'[t] = "posted"
  BY DEF Undisturbed
<1> QED
  BY <1>1, <1>2, <1>3 DEF Undisturbed

(* While a transaction is recorded nobody holds its row, and while it is held
   nobody else does. *)
LEMMA RecordedAlone ==
  ASSUME RowsInv, NEW t \in Transactions, Undisturbed(t),
         NEW r \in Requests, Recording(r, t)
  PROVE  /\ posting[t] = "open" /\ Len(entries[t]) = 0
         /\ row[t] = [state |-> "live", amount |-> request[r].amount,
                      day |-> request[r].day]
         /\ \A s \in Requests \ {r} : ~Recording(s, t) /\ ~Holding(s, t)
<1>1. \A s \in Requests : InOrder(s, t)
  BY DEF Undisturbed
<1>2. /\ posting[t] = "open"
      /\ row[t] = [state |-> "live", amount |-> request[r].amount,
                   day |-> request[r].day]
  BY <1>1 DEF InOrder
<1>3. Len(entries[t]) = 0
  BY <1>2 DEF Undisturbed, Posted
<1>4. ASSUME NEW s \in Requests \ {r} PROVE ~Recording(s, t) /\ ~Holding(s, t)
  BY <1>1, <1>2 DEF RowsInv, InOrder
<1> QED
  BY <1>2, <1>3, <1>4

LEMMA HeldAlone ==
  ASSUME RowsInv, NEW t \in Transactions, Undisturbed(t),
         NEW r \in Requests, Holding(r, t)
  PROVE  /\ posting[t] \in {"posted", "refused"} /\ row[t].state = "live"
         /\ request[r].sees = Standing(t)
         /\ \A s \in Requests \ {r} : ~Recording(s, t) /\ ~Holding(s, t)
<1>1. \A s \in Requests : InOrder(s, t)
  BY DEF Undisturbed
<1>2. /\ posting[t] \in {"posted", "refused"} /\ row[t].state = "live"
      /\ request[r].sees = Standing(t)
  BY <1>1 DEF InOrder
<1>3. ASSUME NEW s \in Requests \ {r} PROVE ~Recording(s, t) /\ ~Holding(s, t)
  <2>1. Recording(s, t) => posting[t] = "open"
    BY <1>1 DEF InOrder
  <2>2. Holding(s, t) => s = r
    BY DEF RowsInv
  <2> QED
    BY <1>2, <2>1, <2>2
<1> QED
  BY <1>2, <1>3

(* Once the one request at a transaction has ended, none is at it. *)
LEMMA NobodyLeft ==
  ASSUME TypesInv, NEW r \in Requests, End(r), NEW t,
         \A s \in Requests \ {r} : ~Recording(s, t) /\ ~Holding(s, t)
  PROVE  \A s \in Requests : InOrder(s, t)'
<1>1. Only(r) /\ request'[r].stage = "idle"
  BY Ends, IdleTyped
<1>2. \A s \in Requests : ~Recording(s, t)' /\ ~Holding(s, t)'
  BY <1>1 DEF Only, Recording, Holding
<1> QED
  BY <1>2 DEF InOrder

(* What stands is what is reversed, so afterwards nothing stands. *)
LEMMA AllTakenBack ==
  ASSUME TypesInv, NEW t \in Transactions, Posted(t),
         posting[t] \in {"posted", "refused"}, row[t].state = "live",
         NEW on \in 1 .. Days,
         NEW a, a = Reversed(t, Standing(t), on)
  PROVE  \A k \in 1 .. Len(entries[t]) : Len(a[k].undone) = 1
<1>1. PICK n \in Nat : n = Len(entries[t])
  BY EntriesTyped
<1>2. SUFFICES ASSUME NEW k \in 1 .. n PROVE Len(a[k].undone) = 1
  BY <1>1
<1>3. a[k].undone = IF k \in Standing(t) THEN Append(entries[t][k].undone, on)
                    ELSE entries[t][k].undone
  BY <1>1, ReversedIs
<1>4. CASE k \in Standing(t)
  <2>1. entries[t][k].undone = <<>>
    BY <1>4 DEF Standing
  <2>2. a[k].undone = Append(<<>>, on)
    BY <1>3, <1>4, <2>1
  <2> QED
    BY <2>2
<1>5. CASE k \notin Standing(t)
  <2>1. entries[t][k].undone # <<>>
    BY <1>1, <1>5 DEF Standing
  <2>2. posting[t] = "posted" /\ TakenBack(t, n - 1)
        /\ entries[t][n].undone = <<>>
    BY <1>1 DEF Posted
  <2>3. k \in 1 .. n - 1
    BY <2>1, <2>2
  <2>4. Len(entries[t][k].undone) = 1
    BY <2>2, <2>3 DEF TakenBack
  <2> QED
    BY <1>3, <1>5, <2>4
<1> QED
  BY <1>4, <1>5

LEMMA UndisturbedStart == ASSUME Init PROVE UndisturbedInv
<1>1. \A r \in Requests : request[r] = Idle
  BY DEF Init
<1>2. \A t \in Transactions :
        row[t] = NoRow /\ posting[t] = "none" /\ entries[t] = <<>>
  BY DEF Init
<1> QED
  BY <1>1, <1>2 DEF UndisturbedInv, Undisturbed, InOrder, Recording, Holding, Posted,
                    Idle, NoRow

(* The row is there, nothing is posted, and one request is at it. *)
LEMMA UndisturbedRecord ==
  ASSUME TypesInv, RowsInv, NEW r \in Requests, NEW t \in Transactions,
         NEW amount \in Amounts, NEW day \in 1 .. Days, Record(r, t, amount, day)
  PROVE  Undisturbed(t)'
<1>1. /\ Only(r)
      /\ request'[r].stage = "recording" /\ request'[r].transaction = t
      /\ request'[r].amount = amount /\ request'[r].day = day
      /\ row'[t] = [state |-> "live", amount |-> amount, day |-> day]
  BY Records
<1>2. row[t].state = "none" /\ posting'[t] = "open" /\ entries'[t] = entries[t]
  BY Typed DEF Record, NoRow
<1>3. entries'[t] = <<>>
  BY <1>2, RowsAre DEF Posting
<1>4. ASSUME NEW s \in Requests \ {r} PROVE InOrder(s, t)'
  <2>1. request[s].stage = "idle" \/ request[s].transaction # t
    BY <1>2, RowsAre DEF Untouched
  <2>2. ~Recording(s, t)' /\ ~Holding(s, t)'
    BY <1>1, <2>1 DEF Only, Recording, Holding
  <2> QED
    BY <2>2 DEF InOrder
<1>5. InOrder(r, t)'
  BY <1>1, <1>2 DEF InOrder, Recording, Holding
<1>6. Posted(t)' /\ row'[t].state # "undone"
  BY <1>1, <1>2, <1>3 DEF Posted
<1> QED
  BY <1>4, <1>5, <1>6 DEF Undisturbed

(* Its first entry is refused, and the books carry nothing of it. *)
LEMMA UndisturbedRefused ==
  ASSUME TypesInv, RowsInv, NEW r \in Requests,
         request[r].stage \in {"recording", "posting"},
         End(r), UNCHANGED <<row, entries>>,
         NEW t \in Transactions, Undisturbed(t),
         posting' = [posting EXCEPT ![request[r].transaction] =
                       IF @ = "open" THEN "refused" ELSE @]
  PROVE  Undisturbed(t)'
<1>1. Only(r) /\ request'[r].stage = "idle"
  BY Ends, IdleTyped
<1>2. CASE t # request[r].transaction
  <2>1. posting'[t] = posting[t]
    BY <1>2, Refuses
  <2>2. InOrder(r, t)'
    BY <1>1 DEF InOrder, Recording, Holding
  <2> QED
    BY <1>1, <2>1, <2>2, UndisturbedKept
<1>3. CASE t = request[r].transaction
  <2>1. Recording(r, t)
    BY <1>3 DEF Recording
  <2>2. /\ posting[t] = "open" /\ Len(entries[t]) = 0
        /\ row[t] = [state |-> "live", amount |-> request[r].amount,
                     day |-> request[r].day]
        /\ \A s \in Requests \ {r} : ~Recording(s, t) /\ ~Holding(s, t)
    BY <2>1, RecordedAlone
  <2>3. posting'[t] = "refused"
    BY <1>3, <2>2, Refuses
  <2>4. \A s \in Requests : InOrder(s, t)'
    BY <2>2, NobodyLeft
  <2>5. Posted(t)' /\ row'[t].state = "live"
    BY <2>2, <2>3 DEF Posted
  <2> QED
    BY <2>4, <2>5 DEF Undisturbed
<1> QED
  BY <1>2, <1>3

(* Its first entry is the row's. *)
LEMMA UndisturbedPost ==
  ASSUME TypesInv, RowsInv, NEW r \in Requests, Post(r),
         NEW t \in Transactions, Undisturbed(t)
  PROVE  Undisturbed(t)'
<1>1. PICK u : u = request[r].transaction
  OBVIOUS
<1>2. PICK new : new = [amount |-> request[r].amount, on |-> request[r].day,
                        undone |-> <<>>]
  OBVIOUS
<1>3. /\ u \in Transactions /\ request[r].stage = "posting" /\ new \in Entry
      /\ entries'[u] = Append(entries[u], new)
      /\ \A v \in Transactions \ {u} : entries'[v] = entries[v]
  BY <1>1, <1>2, Posts
<1>4. posting' = [posting EXCEPT ![u] = "posted"] /\ UNCHANGED row /\ End(r)
  BY <1>1 DEF Post
<1>5. posting'[u] = "posted" /\ \A v \in Transactions \ {u} : posting'[v] = posting[v]
  BY <1>3, <1>4, Typed
<1>6. Only(r) /\ request'[r].stage = "idle"
  BY <1>4, Ends, IdleTyped
<1>7. CASE t # u
  <2>1. InOrder(r, t)'
    BY <1>6 DEF InOrder, Recording, Holding
  <2> QED
    BY <1>3, <1>4, <1>5, <1>6, <1>7, <2>1, UndisturbedKept
<1>8. CASE t = u
  <2>1. Recording(r, t)
    BY <1>1, <1>3, <1>8 DEF Recording
  <2>2. /\ Len(entries[t]) = 0
        /\ row[t] = [state |-> "live", amount |-> request[r].amount,
                     day |-> request[r].day]
        /\ \A s \in Requests \ {r} : ~Recording(s, t) /\ ~Holding(s, t)
    BY <2>1, RecordedAlone
  <2>3. \A s \in Requests : InOrder(s, t)'
    BY <1>4, <2>2, NobodyLeft
  <2>4. entries[t] \in Seq(Entry)
    BY EntriesTyped
  <2>5. entries'[t] = Append(entries[t], new)
    BY <1>3, <1>8
  <2>6. Len(entries'[t]) = 1 /\ entries'[t][1] = new
    BY <1>3, <2>2, <2>4, <2>5
  <2>7. Posted(t)'
    <3>1. posting'[t] = "posted" /\ row'[t].state = "live"
      BY <1>4, <1>5, <1>8, <2>2
    <3>2. TakenBack(t, 0)'
      BY DEF TakenBack
    <3>3. new = [amount |-> row'[t].amount, on |-> row'[t].day, undone |-> <<>>]
      BY <1>2, <1>4, <2>2
    <3> QED
      BY <2>6, <3>1, <3>2, <3>3 DEF Posted
  <2>8. row'[t].state = "live"
    BY <1>4, <2>2
  <2> QED
    BY <2>3, <2>7, <2>8 DEF Undisturbed
<1> QED
  BY <1>7, <1>8

(* What a holder of the row sees standing stays so: nobody else is at it, for
   its first entry is no longer to come. *)
LEMMA UndisturbedLock ==
  ASSUME TypesInv, RowsInv, NEW r \in Requests, Lock(r),
         NEW t \in Transactions, Undisturbed(t), ~disturbed'[t]
  PROVE  Undisturbed(t)'
<1>1. PICK u : u = request[r].transaction
  OBVIOUS
<1>2. /\ u \in Transactions /\ UNCHANGED <<row, entries, posting>>
      /\ \/ request'[r] = Idle
         \/ /\ request'[r] = Locked(r) /\ row[u].state = "live"
            /\ disturbed' = [disturbed EXCEPT ![u] = @ \/ posting[u] = "open"]
  BY <1>1, Locks
<1>3. Only(r)
  BY Locks
<1>4. CASE request'[r] = Idle
  <2>1. InOrder(r, t)'
    BY <1>4, IdleTyped DEF InOrder, Recording, Holding
  <2> QED
    BY <1>2, <1>3, <2>1, UndisturbedKept
<1>5. CASE /\ request'[r] = Locked(r) /\ row[u].state = "live"
           /\ disturbed' = [disturbed EXCEPT ![u] = @ \/ posting[u] = "open"]
  <2>1. /\ request'[r].stage \in {"corrected", "undone"}
        /\ request'[r].transaction = u /\ request'[r].sees = Standing(u)
    BY <1>1, <1>5 DEF Locked
  <2>2. ~Recording(r, t)'
    BY <2>1 DEF Recording
  <2>3. ASSUME t = u
        PROVE  posting'[t] \in {"posted", "refused"} /\ row'[t].state = "live"
    <3>1. posting[t] # "open"
      BY <1>2, <1>5, <2>3, Typed, Zenon
    <3>2. posting[t] # "none"
      BY <1>5, <2>3, RowsAre DEF Posting
    <3> QED
      BY <1>2, <1>5, <2>3, <3>1, <3>2, Typed
  <2>4. t = u => Standing(t)' = Standing(u)
    BY <1>2 DEF Standing
  <2>5. InOrder(r, t)'
    BY <2>1, <2>2, <2>3, <2>4 DEF InOrder, Holding
  <2> QED
    BY <1>2, <1>3, <2>5, UndisturbedKept
<1> QED
  BY <1>2, <1>4, <1>5

(* A correction and an undo take back what stands, and a correction posts what
   the row now says. *)
LEMMA UndisturbedCommit ==
  ASSUME TypesInv, RowsInv, NEW r \in Requests, Commit(r),
         NEW t \in Transactions, Undisturbed(t)
  PROVE  Undisturbed(t)'
<1>1. PICK u : u = request[r].transaction
  OBVIOUS
<1>2. PICK new : new = [amount |-> request[r].amount, on |-> request[r].day,
                        undone |-> <<>>]
  OBVIOUS
<1>3. PICK reversed : reversed = Reversed(u, request[r].sees, request[r].on)
  OBVIOUS
<1>4. /\ u \in Transactions
      /\ request[r].stage \in {"corrected", "undone"}
      /\ request[r].on \in 1 .. Days
      /\ request[r].amount \in Amounts /\ request[r].day \in 1 .. Days
      /\ new \in Entry
      /\ reversed \in Seq(Entry) /\ Len(reversed) = Len(entries[u])
      /\ entries'[u] = IF request[r].stage = "undone" THEN reversed
                       ELSE Append(reversed, new)
      /\ \A v \in Transactions \ {u} : entries'[v] = entries[v]
  BY <1>1, <1>2, <1>3, Commits
<1>5. PICK now : now = [state |-> IF request[r].stage = "undone" THEN "undone"
                                  ELSE "live",
                        amount |-> request[r].amount, day |-> request[r].day]
  OBVIOUS
<1>6. row' = [row EXCEPT ![u] = now] /\ posting' = [posting EXCEPT ![u] = "posted"]
      /\ End(r)
  BY <1>1, <1>5 DEF Commit
<1>7. /\ row'[u] = now /\ \A v \in Transactions \ {u} : row'[v] = row[v]
      /\ posting'[u] = "posted"
      /\ \A v \in Transactions \ {u} : posting'[v] = posting[v]
  BY <1>4, <1>6, Typed
<1>8. Only(r) /\ request'[r].stage = "idle"
  BY <1>6, Ends, IdleTyped
<1>9. CASE t # u
  <2>1. InOrder(r, t)'
    BY <1>8 DEF InOrder, Recording, Holding
  <2> QED
    BY <1>4, <1>7, <1>8, <1>9, <2>1, UndisturbedKept
<1>10. CASE t = u
  <2>1. Holding(r, t)
    BY <1>1, <1>4, <1>10 DEF Holding
  <2>2. /\ posting[t] \in {"posted", "refused"} /\ row[t].state = "live"
        /\ request[r].sees = Standing(t)
        /\ \A s \in Requests \ {r} : ~Recording(s, t) /\ ~Holding(s, t)
    BY <2>1, HeldAlone
  <2>3. \A s \in Requests : InOrder(s, t)'
    BY <1>6, <2>2, NobodyLeft
  <2>4. Posted(t)
    BY DEF Undisturbed
  <2>5. reversed = Reversed(t, Standing(t), request[r].on)
    BY <1>3, <1>10, <2>2
  <2>6. \A k \in 1 .. Len(entries[t]) : Len(reversed[k].undone) = 1
    BY <1>4, <2>2, <2>4, <2>5, AllTakenBack
  <2>7. PICK n \in Nat : n = Len(entries[t])
    BY EntriesTyped
  <2>8. Len(reversed) = n /\ \A k \in 1 .. n : Len(reversed[k].undone) = 1
    BY <1>4, <1>10, <2>6, <2>7
  <2>9. posting'[t] = "posted" /\ row'[t] = now
    BY <1>7, <1>10
  <2>10. CASE request[r].stage = "undone"
    <3>1. entries'[t] = reversed /\ row'[t].state = "undone"
      BY <1>4, <1>5, <1>10, <2>9, <2>10
    <3>2. TakenBack(t, n)' /\ Len(entries'[t]) = n
      BY <2>8, <3>1 DEF TakenBack
    <3>3. Posted(t)'
      BY <2>9, <3>1, <3>2 DEF Posted
    <3> QED
      BY <2>3, <2>9, <3>3 DEF Undisturbed
  <2>11. CASE request[r].stage = "corrected"
    <3>1. entries'[t] = Append(reversed, new) /\ row'[t].state = "live"
      BY <1>4, <1>5, <1>10, <2>9, <2>11
    <3>2. /\ Len(entries'[t]) = n + 1
          /\ \A k \in 1 .. n : entries'[t][k] = reversed[k]
          /\ entries'[t][n + 1] = new
      BY <1>4, <2>7, <2>8, <3>1
    <3>3. TakenBack(t, n)'
      BY <2>8, <3>2 DEF TakenBack
    <3>4. new = [amount |-> row'[t].amount, on |-> row'[t].day, undone |-> <<>>]
      BY <1>2, <1>5, <2>9
    <3>5. n + 1 > 0 /\ (n + 1) - 1 = n
      BY <2>7
    <3>6. Posted(t)'
      BY <2>9, <3>1, <3>2, <3>3, <3>4, <3>5 DEF Posted
    <3> QED
      BY <2>3, <2>9, <3>1, <3>6 DEF Undisturbed
  <2> QED
    BY <1>4, <2>10, <2>11
<1> QED
  BY <1>9, <1>10

LEMMA UndisturbedStep ==
  ASSUME TypesInv, RowsInv, UndisturbedInv, [Next]_vars
  PROVE  UndisturbedInv'
<1> SUFFICES ASSUME NEW t \in Transactions, ~disturbed'[t]
             PROVE  Undisturbed(t)'
  BY DEF UndisturbedInv
<1>1. ASSUME NEW r \in Requests, NEW u \in Transactions,
             NEW amount \in Amounts, NEW day \in 1 .. Days, Record(r, u, amount, day)
      PROVE  Undisturbed(t)'
  <2>1. CASE t = u
    BY <1>1, <2>1, UndisturbedRecord
  <2>2. CASE t # u
    <3>1. /\ Only(r) /\ request'[r].stage = "recording" /\ request'[r].transaction = u
          /\ \A v \in Transactions \ {u} : row'[v] = row[v]
      BY <1>1, Records
    <3>2. /\ Only(r) /\ request'[r].stage = "recording" /\ request'[r].transaction = u
          /\ row'[t] = row[t]
      BY <2>2, <3>1
    <3>3. InOrder(r, t)'
      BY <2>2, <3>2 DEF InOrder, Recording, Holding
    <3>4. posting' = [posting EXCEPT ![u] = "open"] /\ UNCHANGED <<entries, disturbed>>
      BY <1>1 DEF Record
    <3>5. posting'[t] = posting[t] /\ Undisturbed(t)
      BY <2>2, <3>4, Typed DEF UndisturbedInv
    <3> QED
      BY <3>2, <3>3, <3>4, <3>5, UndisturbedKept
  <2> QED
    BY <2>1, <2>2
<1>2. ASSUME NEW r \in Requests, NEW u \in Transactions,
             \/ \E amount \in Amounts \cup {0}, day \in 0 .. Days :
                  AskToCorrect(r, u, amount, day)
             \/ AskToUndo(r, u)
      PROVE  Undisturbed(t)'
  <2>1. /\ Only(r) /\ request'[r].stage \in {"correcting", "undoing"}
        /\ UNCHANGED <<row, entries, posting, disturbed>>
    BY <1>2, Asks
  <2>2. InOrder(r, t)'
    BY <2>1 DEF InOrder, Recording, Holding
  <2> QED
    BY <2>1, <2>2, UndisturbedKept DEF UndisturbedInv
<1>3. ASSUME NEW r \in Requests, Look(r) PROVE Undisturbed(t)'
  <2>1. /\ request[r].stage = "recording"
        /\ UNCHANGED <<row, entries, disturbed>>
    BY <1>3 DEF Look
  <2>2. Undisturbed(t)
    BY <2>1 DEF UndisturbedInv
  <2>3. CASE Closed(request[r].day)
    BY <1>3, <2>1, <2>2, <2>3, UndisturbedRefused DEF Look
  <2>4. CASE ~Closed(request[r].day)
    <3>1. Stage(r, "posting") /\ UNCHANGED posting
      BY <1>3, <2>4 DEF Look
    <3>2. /\ Only(r)
          /\ request'[r] = [request[r] EXCEPT !.stage = "posting"]
      BY <3>1, NewStage
    <3>3. /\ request'[r].stage = "posting"
          /\ request'[r].transaction = request[r].transaction
          /\ request'[r].amount = request[r].amount
          /\ request'[r].day = request[r].day
      BY <3>2, RequestTyped DEF RequestRecord
    <3>4. InOrder(r, t)
      BY <2>2 DEF Undisturbed
    <3>5. InOrder(r, t)'
      BY <2>1, <3>1, <3>3, <3>4 DEF InOrder, Recording, Holding
    <3> QED
      BY <2>1, <2>2, <3>1, <3>2, <3>5, UndisturbedKept
  <2> QED
    BY <2>3, <2>4
<1>4. ASSUME NEW r \in Requests, Post(r) PROVE Undisturbed(t)'
  BY <1>4, UndisturbedPost DEF Post, UndisturbedInv
<1>5. ASSUME NEW r \in Requests, Die(r) PROVE Undisturbed(t)'
  BY <1>5, UndisturbedRefused DEF Die, UndisturbedInv
<1>6. ASSUME NEW r \in Requests, Lock(r) PROVE Undisturbed(t)'
  <2>1. PICK u : u = request[r].transaction
    OBVIOUS
  <2>2. disturbed' = disturbed
        \/ disturbed' = [disturbed EXCEPT ![u] = disturbed[u] \/ posting[u] = "open"]
    BY <1>6, <2>1, Locks
  <2>3. ~disturbed[t]
    BY <2>2, Typed, Zenon
  <2> QED
    BY <1>6, <2>3, UndisturbedLock DEF UndisturbedInv
<1>7. ASSUME NEW r \in Requests, Commit(r) PROVE Undisturbed(t)'
  BY <1>7, UndisturbedCommit DEF Commit, UndisturbedInv
<1>8. ASSUME NEW day \in 0 .. Days, CloseThrough(day) PROVE Undisturbed(t)'
  <2>1. UNCHANGED <<row, entries, posting, disturbed>>
    BY <1>8 DEF CloseThrough
  <2>2. ASSUME NEW r \in Requests
        PROVE  /\ request'[r].stage = request[r].stage
               /\ request'[r].transaction = request[r].transaction
               /\ request'[r].amount = request[r].amount
               /\ request'[r].day = request[r].day
               /\ request'[r].sees = request[r].sees
    <3>1. PICK b : b = (request[r].overtaken \/ \E d \in About(r) : d <= day)
      OBVIOUS
    <3>2. request'[r] = [request[r] EXCEPT !.overtaken = b]
      BY <1>8, <3>1, RequestTyped DEF CloseThrough, RequestRecord
    <3> QED
      BY <3>2, RequestTyped DEF RequestRecord
  <2>3. Undisturbed(t)
    BY <2>1 DEF UndisturbedInv
  <2> QED
    BY <2>1, <2>2, <2>3
    DEF Undisturbed, InOrder, Recording, Holding, Standing, Posted, TakenBack
<1>9. ASSUME Dawn \/ UNCHANGED vars PROVE Undisturbed(t)'
  <2>1. UNCHANGED <<row, entries, posting, disturbed, request>>
    BY <1>9 DEF Dawn, vars
  <2>2. Undisturbed(t)
    BY <2>1 DEF UndisturbedInv
  <2> QED
    BY <2>1, <2>2
    DEF Undisturbed, InOrder, Recording, Holding, Standing, Posted, TakenBack
<1> QED
  BY <1>1, <1>2, <1>3, <1>4, <1>5, <1>6, <1>7, <1>8, <1>9 DEF Next

-----------------------------------------------------------------------------
(* What the journal carries of a transaction is one sum, entry by entry.  That
   it exists is shown by the sum itself: of the entries taken back nothing is
   left, so it is nothing up to the last. *)
LEMMA NatMin ==
  ASSUME NEW S, S \subseteq Nat, S # {}
  PROVE  \E x \in S : \A y \in S : x <= y
<1> DEFINE R == OpToRel(<, Nat)
<1>1. IsWellFoundedOn(R, Nat)
  BY NatLessThanWellFounded
<1> HIDE DEF R
<1>2. PICK x \in S : \A y \in S : ~(<<y, x>> \in R)
  BY <1>1, WFMin, Zenon
<1>3. ASSUME NEW y \in S PROVE x <= y
  <2>1. <<y, x>> \notin R
    BY <1>2
  <2>2. ~(y < x)
    BY <2>1 DEF R, OpToRel
  <2> QED
    BY <2>2
<1> QED
  BY <1>3

IsTheSum(t, f) ==
  f = [k \in 0 .. Len(entries[t]) |->
         IF k = 0 THEN 0
         ELSE f[k - 1]
                + entries[t][k].amount * (1 - Len(entries[t][k].undone))]

LEMMA SumDefined ==
  ASSUME NEW t \in Transactions
  PROVE  InTheBooks(t) = (CHOOSE f : IsTheSum(t, f))[Len(entries[t])]
BY DEF InTheBooks, IsTheSum

(* Nothing is carried of what was taken back. *)
LEMMA NothingUpTo ==
  ASSUME TypesInv, NEW t \in Transactions, NEW m \in Nat, m <= Len(entries[t]),
         TakenBack(t, m), NEW f, IsTheSum(t, f)
  PROVE  \A k \in 0 .. m : f[k] = 0
<1>1. PICK n \in Nat : n = Len(entries[t])
  BY EntriesTyped
<1> DEFINE Not == {k \in 0 .. m : f[k] # 0}
<1>2. SUFFICES ASSUME Not # {} PROVE FALSE
  OBVIOUS
<1>3. Not \subseteq Nat
  OBVIOUS
<1>4. PICK k \in Not : \A j \in Not : k <= j
  <2> HIDE DEF Not
  <2> QED
    BY <1>2, <1>3, NatMin
<1>5. k \in 0 .. n /\ k <= m
  BY <1>1, <1>4
<1>6. f[k] = IF k = 0 THEN 0
             ELSE f[k - 1] + entries[t][k].amount * (1 - Len(entries[t][k].undone))
  BY <1>1, <1>5 DEF IsTheSum
<1>7. k # 0
  BY <1>4, <1>6
<1>8. k - 1 \in 0 .. m /\ k - 1 \notin Not
  BY <1>4, <1>5, <1>7
<1>9. f[k - 1] = 0
  BY <1>8
<1>10. Len(entries[t][k].undone) = 1 /\ entries[t][k].amount \in Nat
  <2>1. k \in 1 .. m /\ k \in 1 .. n
    BY <1>5, <1>7
  <2>2. entries[t][k] \in Entry
    BY <1>1, <2>1, EntriesTyped
  <2>3. entries[t][k].amount \in Nat
    BY <2>2, BooksAssumption DEF Entry
  <2> QED
    BY <2>1, <2>3 DEF TakenBack
<1>11. f[k] = 0
  <2>1. PICK a \in Nat : a = entries[t][k].amount
    BY <1>10
  <2>2. f[k] = 0 + a * (1 - 1)
    BY <1>6, <1>7, <1>9, <1>10, <2>1
  <2> QED
    BY <2>1, <2>2
<1> QED
  BY <1>4, <1>11

(* Where all the entries but the last were taken back there is such a sum. *)
LEMMA SumExists ==
  ASSUME TypesInv, NEW t \in Transactions,
         Len(entries[t]) > 0 => TakenBack(t, Len(entries[t]) - 1)
  PROVE  \E f : IsTheSum(t, f)
<1>1. PICK n \in Nat : n = Len(entries[t])
  BY EntriesTyped
<1>2. PICK last : last = entries[t][n].amount * (1 - Len(entries[t][n].undone))
  OBVIOUS
<1>3. n > 0 => last \in Int
  <2>1. ASSUME n > 0 PROVE last \in Int
    <3>1. n \in 1 .. Len(entries[t])
      BY <1>1, <2>1
    <3>2. entries[t][n] \in Entry /\ Len(entries[t][n].undone) \in Nat
      BY <3>1, EntriesTyped
    <3>3. entries[t][n].amount \in Nat
      BY <3>2, BooksAssumption DEF Entry
    <3>4. PICK a \in Nat : a = entries[t][n].amount
      BY <3>3
    <3>5. PICK b \in Nat : b = Len(entries[t][n].undone)
      BY <3>2
    <3> QED
      BY <1>2, <3>4, <3>5
  <2> QED
    BY <2>1
<1>4. PICK f : f = [k \in 0 .. n |-> IF k = 0 THEN 0 ELSE IF k = n THEN last ELSE 0]
  OBVIOUS
<1>5. ASSUME NEW k \in 0 .. n
      PROVE  f[k] = IF k = 0 THEN 0
                    ELSE f[k - 1]
                           + entries[t][k].amount * (1 - Len(entries[t][k].undone))
  <2>1. CASE k = 0
    BY <1>4, <2>1
  <2>2. CASE k # 0
    <3>1. f[k - 1] = 0
      BY <1>4, <2>2
    <3>2. CASE k = n
      BY <1>2, <1>3, <1>4, <2>2, <3>1, <3>2
    <3>3. CASE k # n
      <4>1. k \in 1 .. n - 1 /\ k \in 1 .. n /\ n > 0
        BY <2>2, <3>3
      <4>2. Len(entries[t][k].undone) = 1
        BY <1>1, <4>1 DEF TakenBack
      <4>3. entries[t][k].amount \in Nat
        BY <1>1, <4>1, EntriesTyped, BooksAssumption DEF Entry
      <4>4. PICK a \in Nat : a = entries[t][k].amount
        BY <4>3
      <4>5. f[k] = 0
        BY <1>4, <2>2, <3>3
      <4>6. f[k - 1] + a * (1 - 1) = 0
        BY <3>1, <4>4
      <4> QED
        BY <2>2, <4>2, <4>4, <4>5, <4>6
    <3> QED
      BY <3>2, <3>3
  <2> QED
    BY <2>1, <2>2
<1>6. f = [k \in 0 .. n |->
             IF k = 0 THEN 0
             ELSE f[k - 1] + entries[t][k].amount * (1 - Len(entries[t][k].undone))]
  BY <1>4, <1>5
<1>7. IsTheSum(t, f)
  BY <1>1, <1>6 DEF IsTheSum
<1> QED
  BY <1>7

LEMMA SumIs ==
  ASSUME TypesInv, NEW t \in Transactions,
         NEW n, n = Len(entries[t]), n > 0 => TakenBack(t, n - 1)
  PROVE  InTheBooks(t) =
           IF n = 0 THEN 0
           ELSE entries[t][n].amount * (1 - Len(entries[t][n].undone))
<1>1. n \in Nat
  BY EntriesTyped
<1>2. PICK f : f = CHOOSE g : IsTheSum(t, g)
  OBVIOUS
<1>3. IsTheSum(t, f)
  <2>1. \E g : IsTheSum(t, g)
    BY SumExists
  <2> QED
    BY <1>2, <2>1
<1>4. InTheBooks(t) = f[n]
  BY <1>2, SumDefined
<1>5. f = [k \in 0 .. n |->
             IF k = 0 THEN 0
             ELSE f[k - 1] + entries[t][k].amount * (1 - Len(entries[t][k].undone))]
  BY <1>3 DEF IsTheSum
<1>6. n \in 0 .. n
  BY <1>1
<1>7. f[n] = IF n = 0 THEN 0
             ELSE f[n - 1] + entries[t][n].amount * (1 - Len(entries[t][n].undone))
  BY <1>5, <1>6, Zenon
<1>8. CASE n = 0
  BY <1>4, <1>7, <1>8
<1>9. CASE n # 0
  <2>1. n - 1 \in Nat /\ n - 1 <= Len(entries[t]) /\ TakenBack(t, n - 1)
    BY <1>1, <1>9
  <2>2. n - 1 \in 0 .. n - 1
    BY <2>1
  <2>3. f[n - 1] = 0
    BY <1>3, <2>1, <2>2, NothingUpTo
  <2>4. entries[t][n] \in Entry /\ Len(entries[t][n].undone) \in Nat
    BY <1>1, <1>9, EntriesTyped
  <2>5. PICK a \in Nat : a = entries[t][n].amount
    BY <2>4, BooksAssumption DEF Entry
  <2>6. PICK b \in Nat : b = Len(entries[t][n].undone)
    BY <2>4
  <2>7. 0 + a * (1 - b) = a * (1 - b)
    OBVIOUS
  <2> QED
    BY <1>4, <1>7, <1>9, <2>3, <2>5, <2>6, <2>7
<1> QED
  BY <1>8, <1>9

LEMMA BooksSay ==
  ASSUME TypesInv, RowsInv, UndisturbedInv PROVE BooksSayWhatTheRowSays
<1> SUFFICES ASSUME NEW t \in Transactions, ~disturbed[t]
             PROVE  /\ InTheBooks(t) = IF posting[t] = "posted" /\ row[t].state = "live"
                                       THEN row[t].amount ELSE 0
                    /\ \A k \in Standing(t) : entries[t][k].on = row[t].day
  BY DEF BooksSayWhatTheRowSays
<1>1. Posted(t)
  BY DEF UndisturbedInv, Undisturbed
<1>2. PICK n \in Nat : n = Len(entries[t])
  BY EntriesTyped
<1>3. CASE posting[t] # "posted"
  <2>1. n = 0
    BY <1>1, <1>2, <1>3 DEF Posted
  <2>2. n > 0 => TakenBack(t, n - 1)
    BY <2>1
  <2>3. InTheBooks(t) = IF n = 0 THEN 0
                        ELSE entries[t][n].amount * (1 - Len(entries[t][n].undone))
    BY <1>2, <2>2, SumIs
  <2>4. InTheBooks(t) = 0
    BY <2>1, <2>3
  <2> QED
    BY <1>2, <1>3, <2>1, <2>4 DEF Standing
<1>4. CASE posting[t] = "posted" /\ row[t].state = "live"
  <2>1. /\ n > 0 /\ TakenBack(t, n - 1)
        /\ entries[t][n] = [amount |-> row[t].amount, on |-> row[t].day,
                            undone |-> <<>>]
    BY <1>1, <1>2, <1>4 DEF Posted
  <2>2. InTheBooks(t) = row[t].amount * (1 - Len(<<>>))
    BY <1>2, <2>1, SumIs
  <2>3. row[t] \in Row
    BY Typed
  <2>4. row[t].amount \in Amounts \cup {0}
    BY <2>3 DEF Row
  <2>5. Amounts \cup {0} \subseteq Nat
    BY BooksAssumption
  <2>6. row[t].amount \in Nat
    BY <2>4, <2>5, Zenon
  <2>7. PICK a \in Nat : a = row[t].amount
    BY <2>6
  <2>8. InTheBooks(t) = a
    BY <2>2, <2>7
  <2>9. ASSUME NEW k \in Standing(t) PROVE entries[t][k].on = row[t].day
    <3>1. k \in 1 .. n /\ entries[t][k].undone = <<>>
      BY <1>2, <2>9 DEF Standing
    <3>2. Len(entries[t][k].undone) = 0
      BY <3>1
    <3>3. \A j \in 1 .. n - 1 : Len(entries[t][j].undone) = 1
      BY <2>1 DEF TakenBack
    <3>4. ASSUME k \in 1 .. n - 1 PROVE FALSE
      <4>1. Len(entries[t][k].undone) = 1
        BY <3>4, <3>3, Zenon
      <4> QED
        BY <3>2, <4>1
    <3>5. k = n
      BY <3>1, <3>4
    <3> QED
      BY <2>1, <3>5
  <2> QED
    BY <1>4, <2>7, <2>8, <2>9
<1>5. CASE posting[t] = "posted" /\ row[t].state # "live"
  <2>1. TakenBack(t, n)
    BY <1>1, <1>2, <1>5 DEF Posted
  <2>2. ASSUME NEW k \in Standing(t) PROVE FALSE
    <3>1. k \in 1 .. n /\ entries[t][k].undone = <<>>
      BY <1>2 DEF Standing
    <3>2. Len(entries[t][k].undone) = 1
      BY <2>1, <3>1 DEF TakenBack
    <3> QED
      BY <3>1, <3>2
  <2>3. Standing(t) = {}
    BY <2>2
  <2>4. n > 0 => TakenBack(t, n - 1)
    BY <2>1 DEF TakenBack
  <2>5. InTheBooks(t) = IF n = 0 THEN 0
                        ELSE entries[t][n].amount * (1 - Len(entries[t][n].undone))
    BY <1>2, <2>4, SumIs
  <2>6. InTheBooks(t) = 0
    <3>1. CASE n = 0
      BY <2>5, <3>1
    <3>2. CASE n # 0
      <4>1. n \in 1 .. n
        BY <3>2
      <4>2. Len(entries[t][n].undone) = 1
        BY <2>1, <4>1 DEF TakenBack
      <4>3. PICK a \in Nat : a = entries[t][n].amount
        BY <1>2, <4>1, EntriesTyped, BooksAssumption DEF Entry
      <4>4. a * (1 - 1) = 0
        BY <4>3
      <4> QED
        BY <2>5, <3>2, <4>2, <4>3, <4>4
    <3> QED
      BY <3>1, <3>2
  <2> QED
    BY <1>5, <2>3, <2>6
<1> QED
  BY <1>3, <1>4, <1>5

(* The books carry of each transaction what its screen says: the amount while
   it is live and posted, nothing once it is undone or refused, and on the day
   of the row, however many corrections and undos of it overlap and wherever
   recording it dies (transactions.ts).  The exception is one that was changed
   between the two commits that record it. *)
THEOREM TheBooksFollowTheRow == Spec => []BooksSayWhatTheRowSays
<1>1. Init => BooksInv
  BY TypesStart, RowsStart, UndisturbedStart DEF BooksInv
<1>2. BooksInv /\ [Next]_vars => BooksInv'
  BY TypesStep, RowsStep, UndisturbedStep DEF BooksInv
<1>3. BooksInv => BooksSayWhatTheRowSays
  BY BooksSay DEF BooksInv
<1> QED
  BY <1>1, <1>2, <1>3, PTL DEF Spec
=============================================================================
