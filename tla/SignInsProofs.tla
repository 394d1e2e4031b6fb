---------------------------- MODULE SignInsProofs ----------------------------
(***************************************************************************)
(* That the log of security events does not fork and verifies, that what   *)
(* the nightly sweep takes from it decides nothing, and that an address is *)
(* given no more guesses than its limit: for every number of attempts and  *)
(* every limit, window, retention and lapse.                               *)
(***************************************************************************)
EXTENDS SignIns, FiniteSetTheorems, NaturalsInduction, SequenceTheorems, TLAPS

(* The rows, the entries under way and the room that is left for them. *)
RowsInv ==
  /\ IsFiniteSet(log)
  /\ written + Cardinality(Writing) <= MaxRows
  /\ \A w \in Writers :
       /\ entry[w].stage = "none" => entry[w] = NoEntry
       /\ entry[w].stage # "none" => entry[w].at <= clock
  /\ \A row \in log :
       row.id <= written /\ row.after < row.id /\ row.at <= clock
  /\ \A row, other \in log : row.id = other.id => row = other

(* Who has read the last row holds the lock, and nothing was written since. *)
LockInv ==
  \A w \in Writers : entry[w].stage = "linked" =>
    /\ holder = w
    /\ entry[w].after <= written
    /\ \A row \in log : row.id <= entry[w].after

(* What the sweep is about to delete is past the retention. *)
BatchInv ==
  /\ \A id \in batch : id <= written
  /\ \A row \in log : row.id \in batch =>
       Retention > 0 /\ row.at < clock - Retention

(* While every row is later than those before it, the chain verifies, goes on
   verifying when what is being written is, and the sweep takes everything
   before what it takes but the traces of earlier sweeps. *)
ChainInv ==
  ~disordered =>
    /\ Intact
    /\ \A row, other \in log : row.id < other.id => row.at < other.at
    /\ \A w \in Writers, row \in log : entry[w].stage = "linked" =>
         \/ row.id = entry[w].after \/ row.action = "events.pruned"
         \/ \E next \in log : row.id < next.id
    /\ \A row \in log, id \in batch :
         row.id < id /\ row.id \notin batch => row.action = "events.pruned"

LogInv == RowsInv /\ LockInv /\ BatchInv /\ NothingForks /\ ChainInv

-----------------------------------------------------------------------------
(* The attempts whose reservation was made at t or later. *)
ReservedFrom(t) == {a \in Attempts : attempt[a].in >= t}

(* The n last of the times s are t or later. *)
Covers(s, n, t) == n > 0 => n <= Len(s) /\ s[Len(s) - n + 1] >= t

(* As many reservations from t on are still remembered as attempts have made,
   whoever's they were. *)
Covered ==
  \A t \in 1 .. Moments : Covers(unrecorded, Cardinality(ReservedFrom(t)), t)

Sorted(s) == \A i, j \in 1 .. Len(s) : i <= j => s[i] <= s[j]

OldestFirst ==
  Sorted(unrecorded) /\ \A i \in 1 .. Len(unrecorded) : unrecorded[i] <= clock

(* The stages of an attempt that has been let in. *)
LetIn == {"checking", "recording", "abandoned"}

(* An attempt, its reservation and its entry go together. *)
AttemptInv(a) ==
  /\ Reserved(a) => /\ attempt[a].stage \in LetIn
                    /\ attempt[a].in <= clock /\ clock - attempt[a].in < Lapse
  /\ attempt[a].stage \in LetIn /\ attempt[a].way = "counted" => Reserved(a)
  /\ entry[a].stage # "none" => attempt[a].stage = "recording"
  /\ entry[a].stage # "none" /\ entry[a].action = "sign-in.failed" =>
       entry[a].way = attempt[a].way
  /\ attempt[a].stage = "counting" => attempt[a].since <= Since
  /\ attempt[a].stage # "deciding" => attempt[a].missed = {}

(* What GuessesWithinTheLimit counts: failures that are logged, and attempts
   whose failure may yet be. *)
Against == {row \in Failures(Since) : row.way \in {"counted"}}
Guessers == {a \in Guessing : attempt[a].way \in {"counted"}}
MissedBy(a) == {b \in attempt[a].missed : attempt[b].way = "counted"}

(* What an attempt counted, with what it has missed, is what there is now; and
   who logged what it missed has its reservation yet. *)
CountedAll(a) ==
  attempt[a].stage = "deciding" /\ attempt[a].way = "counted" =>
    /\ \A b \in attempt[a].missed :
         attempt[b].stage = "recording" /\ entry[b].stage = "none"
    /\ Cardinality(Against)
         <= attempt[a].failures + Cardinality(MissedBy(a))

OnlyAttemptsFail ==
  \A w \in {Desk, Sweep} :
    entry[w].stage # "none" => entry[w].action # "sign-in.failed"

GuardInv ==
  /\ OldestFirst /\ Covered
  /\ \A a \in Attempts : AttemptInv(a) /\ CountedAll(a)
  /\ GuessesWithinTheLimit

-----------------------------------------------------------------------------
(* A set of natural numbers has a least one, and so a set of integers that is
   bounded a greatest. *)
LEMMA NatMin ==
  ASSUME NEW S, S \subseteq Nat, S # {}
  PROVE  \E x \in S : \A y \in S : x <= y
<1> DEFINE R == OpToRel(<, Nat)
<1>1. IsWellFoundedOn(R, Nat)
  BY NatLessThanWellFounded
<1> HIDE DEF R
<1>2. PICK x \in S : \A y \in S : ~(<<y, x>> \in R)
  BY <1>1, WFMin, Zenon
<1>3. ASSUME NEW y \in S PROVE x <= y
  <2>1. <<y, x>> \notin R
    BY <1>2
  <2>2. ~(y < x)
    BY <2>1 DEF R, OpToRel
  <2> QED BY <2>2
<1> QED BY <1>3

LEMMA MaxOfBounded ==
  ASSUME NEW S, S \subseteq Int, S # {}, NEW top \in Int, \A x \in S : x <= top
  PROVE  Max(S) \in S /\ \A x \in S : x <= Max(S)
<1> DEFINE Below == {top - x : x \in S}
<1>1. Below \subseteq Nat /\ Below # {}
  <2>1. \A x \in S : top - x \in Nat
    OBVIOUS
  <2> QED BY <2>1
<1> HIDE DEF Below
<1>2. PICK least \in Below : \A y \in Below : least <= y
  BY <1>1, NatMin
<1>3. PICK greatest \in S : least = top - greatest
  BY <1>2 DEF Below
<1>4. \A x \in S : greatest >= x
  <2> TAKE x \in S
  <2>1. top - x \in Below
    BY DEF Below
  <2> QED BY <1>2, <1>3, <2>1
<1>5. \E x \in S : \A y \in S : x >= y
  BY <1>4
<1> QED
  BY <1>5 DEF Max

-----------------------------------------------------------------------------
EntryRecord ==
  [stage : {"none", "timed", "linked"}, action : Actions,
   at : 1 .. Moments, after : Nat, way : Ways]

LEMMA WritersFinite == IsFiniteSet(Writers)
<1>1. IsFiniteSet(Attempts \cup {Desk})
  BY SecurityLogAssumption, FS_AddElement, Zenon
<1>2. IsFiniteSet((Attempts \cup {Desk}) \cup {Sweep})
  BY <1>1, FS_AddElement, Zenon
<1>3. Writers = (Attempts \cup {Desk}) \cup {Sweep}
  BY DEF Writers
<1> QED
  BY <1>2, <1>3

LEMMA WritingCounts ==
  IsFiniteSet(Writing) /\ Cardinality(Writing) \in Nat
<1>1. Writing \in SUBSET Writers
  BY DEF Writing
<1>2. IsFiniteSet(Writing)
  BY <1>1, WritersFinite, FS_Subset, Zenon
<1> QED
  BY <1>2, FS_CardinalityType

LEMMA NoEntryTypes == NoEntry \in EntryRecord
BY SecurityLogAssumption DEF NoEntry, EntryRecord, Actions, Ways

LEMMA LogInitHolds == LogInit => LogTypeOK /\ LogInv
<1> SUFFICES ASSUME LogInit PROVE LogTypeOK /\ LogInv
  OBVIOUS
<1>1. LogTypeOK
  <2>1. entry \in [Writers -> EntryRecord]
    BY NoEntryTypes DEF LogInit
  <2>2. clock \in 1 .. Moments /\ written \in 0 .. MaxRows
    BY SecurityLogAssumption DEF LogInit
  <2> QED
    BY <2>1, <2>2 DEF LogInit, LogTypeOK, EntryRecord
<1>2. \A w \in Writers : entry[w] = NoEntry /\ entry[w].stage = "none"
  BY DEF LogInit, NoEntry
<1>3. RowsInv
  <2>1. Writing = {}
    BY <1>2 DEF Writing
  <2> QED
    BY <1>2, <2>1, FS_EmptySet, SecurityLogAssumption DEF LogInit, RowsInv
<1>4. LockInv /\ BatchInv /\ NothingForks /\ ChainInv
  BY <1>2 DEF LogInit, LockInv, BatchInv, NothingForks, ChainInv, Intact
<1> QED
  BY <1>1, <1>3, <1>4 DEF LogInv

(* An entry is begun while there is room for it. *)
LEMMA BeginEntry ==
  ASSUME LogTypeOK, LogInv, NEW w \in Writers, NEW action \in Actions,
         NEW way \in Ways, Begin(w, action, way),
         UNCHANGED <<clock, log, written, holder, disordered>>,
         batch' \subseteq 1 .. MaxRows
  PROVE  /\ LogTypeOK' /\ RowsInv' /\ LockInv'
         /\ \A v \in Writers :
              entry'[v].stage = "linked" => entry'[v] = entry[v]
<1> DEFINE new == [stage |-> "timed", action |-> action, at |-> clock,
                   after |-> 0, way |-> way]
<1>1. new \in EntryRecord /\ new.stage = "timed" /\ new.at = clock
  BY DEF LogTypeOK, EntryRecord
<1>2. /\ entry \in [Writers -> EntryRecord]
      /\ entry' = [entry EXCEPT ![w] = new] /\ entry[w] = NoEntry /\ Room
  BY DEF LogTypeOK, EntryRecord, Begin
<1> HIDE DEF new
<1>3. /\ entry' \in [Writers -> EntryRecord]
      /\ entry'[w] = new /\ \A v \in Writers \ {w} : entry'[v] = entry[v]
  BY <1>1, <1>2
<1>4. LogTypeOK'
  BY <1>3 DEF LogTypeOK, EntryRecord
<1>5. entry[w].stage = "none"
  BY <1>2 DEF NoEntry
<1>6. Writing' = Writing \cup {w} /\ w \notin Writing
  BY <1>1, <1>3, <1>5 DEF Writing
<1>7. Cardinality(Writing') = Cardinality(Writing) + 1
  BY <1>6, WritingCounts, FS_AddElement
<1>8. written + Cardinality(Writing)' <= MaxRows
  BY <1>2, <1>7, WritingCounts, SecurityLogAssumption DEF Room, LogTypeOK
<1>9. RowsInv'
  BY <1>1, <1>3, <1>8 DEF RowsInv, LogInv, LogTypeOK
<1>10. \A v \in Writers : entry'[v].stage = "linked" => entry'[v] = entry[v]
  BY <1>1, <1>3
<1>11. LockInv'
  BY <1>10 DEF LockInv, LogInv
<1> QED
  BY <1>4, <1>9, <1>10, <1>11

LEMMA BeginLog ==
  ASSUME LogTypeOK, LogInv, NEW w \in Writers, NEW action \in Actions,
         NEW way \in Ways, Begin(w, action, way),
         UNCHANGED <<clock, log, written, holder, disordered, batch>>
  PROVE  LogTypeOK' /\ LogInv'
<1>1. /\ LogTypeOK' /\ RowsInv' /\ LockInv'
      /\ \A v \in Writers : entry'[v].stage = "linked" => entry'[v] = entry[v]
  BY BeginEntry DEF LogTypeOK
<1>2. BatchInv' /\ NothingForks'
  BY DEF LogInv, BatchInv, NothingForks
<1>3. ChainInv'
  BY <1>1 DEF LogInv, ChainInv, Intact
<1> QED
  BY <1>1, <1>2, <1>3 DEF LogInv

LEMMA SweepBatchLog ==
  ASSUME LogTypeOK, LogInv, SweepBatch
  PROVE  LogTypeOK' /\ LogInv'
<1>1. PICK some \in SUBSET {row \in log : Due(row)} :
        /\ \A row \in some, other \in log \ some :
             Due(other) => row.at <= other.at
        /\ batch' = {row.id : row \in some}
  BY DEF SweepBatch
<1>2. \A row \in log : row.id \in 1 .. MaxRows /\ row.at \in Int
  BY SecurityLogAssumption DEF LogInv, RowsInv, LogTypeOK, Row
<1>3. batch' \subseteq 1 .. MaxRows
  BY <1>1, <1>2
<1>4. /\ LogTypeOK' /\ RowsInv' /\ LockInv'
      /\ \A v \in Writers : entry'[v].stage = "linked" => entry'[v] = entry[v]
  BY <1>3, BeginEntry DEF SweepBatch, Writers, Actions, Ways
<1>5. UNCHANGED <<clock, log, written, holder, disordered>>
  BY DEF SweepBatch
<1>6. \A row \in log : row.id \in batch' => row \in some
  BY <1>1 DEF LogInv, RowsInv
<1>7. BatchInv'
  BY <1>1, <1>5, <1>6 DEF BatchInv, Due, LogInv, RowsInv
<1>8. NothingForks'
  BY <1>5 DEF LogInv, NothingForks
<1>9. ASSUME ~disordered, NEW row \in log, NEW id \in batch',
             row.id < id, row.id \notin batch'
      PROVE  row.action = "events.pruned"
  <2>1. PICK taken \in some : id = taken.id
    BY <1>1
  <2>2. row.at < taken.at /\ row \notin some /\ Due(taken)
    BY <1>1, <1>9, <2>1 DEF LogInv, ChainInv
  <2>3. ~Due(row)
    BY <1>1, <1>2, <2>2
  <2>4. clock - Retention \in Int
    BY SecurityLogAssumption DEF LogTypeOK
  <2> QED
    BY <1>2, <2>2, <2>3, <2>4 DEF Due
<1>10. ChainInv'
  BY <1>4, <1>5, <1>9 DEF LogInv, ChainInv, Intact
<1> QED
  BY <1>4, <1>7, <1>8, <1>10 DEF LogInv

(* Only one writer at a time has read the last row. *)
LEMMA LinkLog ==
  ASSUME LogTypeOK, LogInv, NEW w \in Writers, Link(w)
  PROVE  LogTypeOK' /\ LogInv'
<1>1. PICK id \in 0 .. written :
        /\ IsLast(id)
        /\ entry' = [entry EXCEPT ![w].stage = "linked", ![w].after = id]
  BY DEF Link
<1>2. /\ UNCHANGED <<clock, log, written, batch, disordered>>
      /\ holder = NoOne /\ holder' = w /\ entry[w].stage = "timed"
  BY DEF Link
<1>3. entry \in [Writers -> EntryRecord]
  BY DEF LogTypeOK, EntryRecord
<1>4. /\ entry' \in [Writers -> EntryRecord]
      /\ entry'[w].stage = "linked" /\ entry'[w].after = id
      /\ entry'[w].at = entry[w].at
      /\ \A v \in Writers \ {w} : entry'[v] = entry[v]
  <2> DEFINE linked == [entry[w] EXCEPT !.stage = "linked", !.after = id]
  <2>1. entry' = [entry EXCEPT ![w] = linked]
    BY <1>1, <1>3
  <2>2. id \in Nat
    BY DEF LogTypeOK
  <2>3. entry[w] \in EntryRecord
    BY <1>3
  <2>4. /\ linked \in EntryRecord /\ linked.stage = "linked"
        /\ linked.after = id /\ linked.at = entry[w].at
    BY <2>2, <2>3 DEF EntryRecord
  <2> HIDE DEF linked
  <2> QED
    BY <1>3, <2>1, <2>4
<1>5. LogTypeOK'
  BY <1>2, <1>4 DEF LogTypeOK, EntryRecord
<1>6. Writing' = Writing
  BY <1>2, <1>4 DEF Writing
<1>7. RowsInv'
  BY <1>2, <1>4, <1>6 DEF LogInv, RowsInv
<1>8. \A v \in Writers : entry'[v].stage = "linked" => v = w
  BY <1>2, <1>4, SecurityLogAssumption DEF LogInv, LockInv
<1>9. LockInv'
  BY <1>1, <1>2, <1>4, <1>8 DEF LockInv, IsLast, LogTypeOK
<1>10. BatchInv' /\ NothingForks'
  BY <1>2 DEF LogInv, BatchInv, NothingForks
<1>11. ASSUME NEW row \in log
       PROVE  row.id = id \/ \E next \in log : row.id < next.id
  <2>1. row.id <= id /\ row.id \in Nat \ {0}
    BY <1>1 DEF IsLast, LogTypeOK, Row
  <2>2. CASE row.id < id
    <3>1. id # 0
      BY <2>1, <2>2
    <3> QED
      BY <1>1, <2>2, <3>1 DEF IsLast
  <2> QED
    BY <2>1, <2>2
<1>12. ChainInv'
  BY <1>2, <1>4, <1>8, <1>11 DEF LogInv, ChainInv, Intact
<1> QED
  BY <1>5, <1>7, <1>9, <1>10, <1>12 DEF LogInv

LEMMA LoseLog ==
  ASSUME LogTypeOK, LogInv, NEW w \in Writers, Lose(w)
  PROVE  LogTypeOK' /\ LogInv'
<1>1. /\ UNCHANGED <<clock, log, written, batch, disordered>>
      /\ holder' = IF holder = w THEN NoOne ELSE holder
      /\ entry' = [entry EXCEPT ![w] = NoEntry] /\ entry[w].stage # "none"
  BY DEF Lose
<1>2. entry \in [Writers -> EntryRecord]
  BY DEF LogTypeOK, EntryRecord
<1>3. /\ entry' \in [Writers -> EntryRecord]
      /\ entry'[w] = NoEntry /\ NoEntry.stage = "none"
      /\ \A v \in Writers \ {w} : entry'[v] = entry[v]
  BY <1>1, <1>2, NoEntryTypes DEF NoEntry
<1>4. LogTypeOK'
  BY <1>1, <1>3 DEF LogTypeOK, EntryRecord
<1>5. Writing' = Writing \ {w} /\ w \in Writing
  BY <1>1, <1>3 DEF Writing
<1>6. Cardinality(Writing') = Cardinality(Writing) - 1
  BY <1>5, WritingCounts, FS_RemoveElement
<1>7. written + Cardinality(Writing)' <= MaxRows
  BY <1>1, <1>6, WritingCounts, SecurityLogAssumption
  DEF LogInv, RowsInv, LogTypeOK
<1>8. RowsInv'
  BY <1>1, <1>3, <1>7 DEF LogInv, RowsInv
<1>9. \A v \in Writers : entry'[v].stage = "linked" => v # w /\ entry'[v] = entry[v]
  BY <1>3
<1>10. LockInv'
  BY <1>1, <1>9 DEF LogInv, LockInv
<1>11. BatchInv' /\ NothingForks'
  BY <1>1 DEF LogInv, BatchInv, NothingForks
<1>12. ChainInv'
  BY <1>1, <1>9 DEF LogInv, ChainInv, Intact
<1> QED
  BY <1>4, <1>8, <1>10, <1>11, <1>12 DEF LogInv

(* The row that is written follows the last one, and is the last one. *)
LEMMA WriteLog ==
  ASSUME LogTypeOK, LogInv, NEW w \in Writers, Write(w)
  PROVE  LogTypeOK' /\ LogInv'
<1>1. PICK new :
        new = [id |-> written + 1, action |-> entry[w].action,
               at |-> entry[w].at, after |-> entry[w].after,
               way |-> entry[w].way]
  OBVIOUS
<1>2. /\ UNCHANGED <<clock, batch>> /\ entry[w].stage = "linked"
      /\ written' = written + 1 /\ log' = log \cup {new} /\ holder' = NoOne
      /\ entry' = [entry EXCEPT ![w] = NoEntry]
  BY <1>1 DEF Write
<1>3. disordered' = (disordered \/ \E row \in log : row.at >= new.at)
  BY <1>1 DEF Write
<1>4. entry \in [Writers -> EntryRecord] /\ written \in Nat
  BY DEF LogTypeOK, EntryRecord
<1>5. /\ entry' \in [Writers -> EntryRecord]
      /\ entry'[w] = NoEntry /\ NoEntry.stage = "none"
      /\ \A v \in Writers \ {w} : entry'[v] = entry[v]
  BY <1>2, <1>4, NoEntryTypes DEF NoEntry
<1>6. /\ new.id = written + 1 /\ new.after = entry[w].after
      /\ new.action = entry[w].action /\ new.at = entry[w].at
  BY <1>1
<1>7. new \in Row
  BY <1>1, <1>4 DEF Row, EntryRecord
<1>8. Writing' = Writing \ {w} /\ w \in Writing
  BY <1>2, <1>5 DEF Writing
<1>9. Cardinality(Writing') = Cardinality(Writing) - 1
  BY <1>8, WritingCounts, FS_RemoveElement
<1>10. written' + Cardinality(Writing)' <= MaxRows /\ written' <= MaxRows
  <2>1. Cardinality(Writing)' \in Nat
    <3>1. Writing' \in SUBSET Writers
      BY DEF Writing
    <3>2. IsFiniteSet(Writing')
      BY <3>1, WritersFinite, FS_Subset, Zenon
    <3> QED
      BY <3>2, FS_CardinalityType
  <2> QED
    BY <1>2, <1>4, <1>9, <2>1, WritingCounts, SecurityLogAssumption
    DEF LogInv, RowsInv
<1>11. LogTypeOK'
  <2>1. disordered' \in BOOLEAN
    BY <1>3 DEF LogTypeOK
  <2>2. written' \in 0 .. MaxRows
    BY <1>2, <1>4, <1>10, SecurityLogAssumption
  <2> QED
    BY <1>2, <1>5, <1>7, <2>1, <2>2 DEF LogTypeOK, EntryRecord
<1>12. /\ \A row \in log : row.id \in Nat /\ row.after \in Nat /\ row.at \in Int
       /\ new.at \in Int /\ new.after \in Nat
  BY <1>7 DEF LogTypeOK, Row
<1>13. \A row \in log : row.id < new.id /\ row.after < new.after
  BY <1>2, <1>4, <1>6, <1>12 DEF LogInv, RowsInv, LockInv
<1>14. new.after < new.id /\ new.at <= clock
  BY <1>2, <1>4, <1>6, <1>12 DEF LogInv, RowsInv, LockInv
<1>15. RowsInv'
  <2>1. IsFiniteSet(log')
    BY <1>2, FS_AddElement DEF LogInv, RowsInv
  <2>2. \A v \in Writers :
          /\ entry'[v].stage = "none" => entry'[v] = NoEntry
          /\ entry'[v].stage # "none" => entry'[v].at <= clock'
    BY <1>2, <1>5 DEF LogInv, RowsInv
  <2>3. \A row \in log' :
          row.id <= written' /\ row.after < row.id /\ row.at <= clock'
    BY <1>2, <1>4, <1>6, <1>12, <1>14 DEF LogInv, RowsInv
  <2>4. \A row, other \in log' : row.id = other.id => row = other
    BY <1>2, <1>12, <1>13 DEF LogInv, RowsInv
  <2> QED
    BY <1>10, <2>1, <2>2, <2>3, <2>4 DEF RowsInv
<1>16. \A v \in Writers : entry'[v].stage # "linked"
  BY <1>2, <1>5 DEF LogInv, LockInv
<1>17. LockInv'
  BY <1>16 DEF LockInv
<1>18. new.id \notin batch
  BY <1>4, <1>6 DEF LogInv, BatchInv, LogTypeOK
<1>19. BatchInv'
  <2>1. \A id \in batch : id <= written + 1
    BY <1>4 DEF LogInv, BatchInv, LogTypeOK
  <2> QED
    BY <1>2, <1>18, <2>1 DEF LogInv, BatchInv
<1>20. NothingForks'
  BY <1>2, <1>12, <1>13 DEF LogInv, NothingForks
<1>21. ASSUME ~disordered' PROVE ~disordered /\ \A row \in log : row.at < new.at
  <2>1. ~disordered /\ \A row \in log : ~(row.at >= new.at)
    BY <1>3, <1>21, Zenon
  <2> QED
    BY <1>12, <2>1
<1>22. ASSUME ~disordered' PROVE Intact'
  <2>1. Intact
    BY <1>21, <1>22 DEF LogInv, ChainInv
  <2> SUFFICES ASSUME NEW row \in log', NEW next \in log', row.id < next.id,
                      ~\E between \in log' :
                         row.id < between.id /\ between.id < next.id,
                      row.action # "events.pruned"
               PROVE  next.after = row.id
    BY DEF Intact
  <2>2. row \in log
    BY <1>2, <1>12, <1>13, <1>6, <1>4
  <2>3. CASE next \in log
    BY <1>2, <2>1, <2>2, <2>3 DEF Intact
  <2>4. CASE next = new
    <3>1. ~\E later \in log : row.id < later.id
      BY <1>2, <1>13, <2>4
    <3> QED
      BY <1>2, <1>6, <1>21, <1>22, <2>2, <2>4, <3>1 DEF LogInv, ChainInv
  <2> QED
    BY <1>2, <2>3, <2>4
<1>23. ASSUME ~disordered'
       PROVE  \A row, other \in log' : row.id < other.id => row.at < other.at
  BY <1>2, <1>4, <1>6, <1>12, <1>13, <1>21, <1>23 DEF LogInv, ChainInv
<1>24. ASSUME ~disordered', NEW row \in log', NEW id \in batch',
              row.id < id, row.id \notin batch'
       PROVE  row.action = "events.pruned"
  <2>1. id <= written /\ id \in Nat
    BY <1>2 DEF LogInv, BatchInv, LogTypeOK
  <2>2. row \in log
    BY <1>2, <1>4, <1>6, <1>24, <2>1
  <2> QED
    BY <1>2, <1>21, <1>24, <2>2 DEF LogInv, ChainInv
<1>25. ChainInv'
  BY <1>16, <1>22, <1>23, <1>24 DEF ChainInv
<1> QED
  BY <1>11, <1>15, <1>17, <1>19, <1>20, <1>25 DEF LogInv

(* What the sweep takes is the start of the log, but for traces of earlier
   sweeps: every two rows left that were neighbours before still are, or the
   first of them is such a trace. *)
LEMMA SweepDeleteLog ==
  ASSUME LogTypeOK, LogInv, SweepDelete
  PROVE  LogTypeOK' /\ LogInv'
<1>1. /\ UNCHANGED <<clock, written, holder, entry, disordered>>
      /\ batch' = {}
  BY DEF SweepDelete
<1>2. log' \subseteq log /\ \A row \in log : row \in log' <=> row.id \notin batch
  BY DEF SweepDelete
<1>3. LogTypeOK'
  BY <1>1, <1>2 DEF LogTypeOK
<1>4. IsFiniteSet(log')
  <2>1. log' \in SUBSET log
    BY <1>2
  <2> QED
    BY <2>1, FS_Subset, Zenon DEF LogInv, RowsInv
<1>5. Writing' = Writing
  BY <1>1 DEF Writing
<1>6. RowsInv'
  BY <1>1, <1>2, <1>4, <1>5 DEF LogInv, RowsInv
<1>7. LockInv' /\ BatchInv' /\ NothingForks'
  BY <1>1, <1>2 DEF LogInv, LockInv, BatchInv, NothingForks
<1>8. ASSUME ~disordered, NEW row \in log', NEW gone \in log \ log',
             row.id < gone.id
      PROVE  row.action = "events.pruned"
  BY <1>2, <1>8 DEF LogInv, ChainInv
<1>9. ASSUME ~disordered PROVE Intact'
  <2> SUFFICES ASSUME NEW row \in log', NEW next \in log', row.id < next.id,
                      ~\E between \in log' :
                         row.id < between.id /\ between.id < next.id,
                      row.action # "events.pruned"
               PROVE  next.after = row.id
    BY DEF Intact
  <2>1. ~\E between \in log : row.id < between.id /\ between.id < next.id
    BY <1>8, <1>9
  <2> QED
    BY <1>2, <1>9, <2>1 DEF LogInv, ChainInv, Intact
<1>10. ASSUME ~disordered, NEW w \in Writers, NEW row \in log',
              entry[w].stage = "linked"
       PROVE  \/ row.id = entry[w].after \/ row.action = "events.pruned"
              \/ \E next \in log' : row.id < next.id
  <2>1. \/ row.id = entry[w].after \/ row.action = "events.pruned"
        \/ \E next \in log : row.id < next.id
    BY <1>2, <1>10 DEF LogInv, ChainInv
  <2> QED
    BY <1>8, <1>10, <2>1
<1>11. ~disordered =>
         \A row, other \in log' : row.id < other.id => row.at < other.at
  BY <1>2 DEF LogInv, ChainInv
<1>12. ChainInv'
  BY <1>1, <1>9, <1>10, <1>11 DEF ChainInv
<1> QED
  BY <1>3, <1>6, <1>7, <1>12 DEF LogInv

LEMMA RestartLog ==
  ASSUME LogTypeOK, LogInv, Restart
  PROVE  LogTypeOK' /\ LogInv'
<1>1. /\ UNCHANGED <<clock, log, written, disordered>>
      /\ batch' = {} /\ holder' = NoOne /\ entry' = [w \in Writers |-> NoEntry]
  BY DEF Restart
<1>2. /\ entry' \in [Writers -> EntryRecord]
      /\ \A w \in Writers : entry'[w] = NoEntry /\ entry'[w].stage = "none"
  BY <1>1, NoEntryTypes DEF NoEntry
<1>3. LogTypeOK'
  BY <1>1, <1>2 DEF LogTypeOK, EntryRecord
<1>4. Writing' = {}
  BY <1>2 DEF Writing
<1>5. Cardinality(Writing)' = 0
  BY <1>4, FS_EmptySet
<1>6. RowsInv'
  BY <1>1, <1>2, <1>5, SecurityLogAssumption DEF LogInv, RowsInv, LogTypeOK
<1>7. LockInv' /\ BatchInv' /\ NothingForks'
  BY <1>1, <1>2 DEF LogInv, LockInv, BatchInv, NothingForks
<1>8. ChainInv'
  BY <1>1, <1>2 DEF LogInv, ChainInv, Intact
<1> QED
  BY <1>3, <1>6, <1>7, <1>8 DEF LogInv

LEMMA TickLog ==
  ASSUME LogTypeOK, LogInv, Tick
  PROVE  LogTypeOK' /\ LogInv'
<1>1. /\ UNCHANGED <<log, written, holder, entry, batch, disordered>>
      /\ clock' = clock + 1 /\ clock < Moments
  BY DEF Tick
<1>2. clock \in Nat /\ clock' \in 1 .. Moments /\ Retention \in Nat
  BY <1>1, SecurityLogAssumption DEF LogTypeOK
<1>3. LogTypeOK'
  BY <1>1, <1>2 DEF LogTypeOK
<1>4. Writing' = Writing
  BY <1>1 DEF Writing
<1>5. \A row \in log : row.at \in Int
  BY DEF LogTypeOK, Row
<1>6. \A w \in Writers : entry[w].at \in Int
  BY DEF LogTypeOK
<1>7. RowsInv'
  BY <1>1, <1>2, <1>4, <1>5, <1>6 DEF LogInv, RowsInv
<1>8. LockInv' /\ NothingForks'
  BY <1>1 DEF LogInv, LockInv, NothingForks
<1>9. BatchInv'
  BY <1>1, <1>2, <1>5 DEF LogInv, BatchInv
<1>10. ChainInv'
  BY <1>1 DEF LogInv, ChainInv, Intact
<1> QED
  BY <1>3, <1>7, <1>8, <1>9, <1>10 DEF LogInv

LEMMA SameLog ==
  ASSUME LogTypeOK, LogInv, UNCHANGED logVars
  PROVE  LogTypeOK' /\ LogInv'
<1>1. UNCHANGED <<clock, log, written, holder, entry, batch, disordered>>
  BY DEF logVars
<1>2. Writing' = Writing
  BY <1>1 DEF Writing
<1>3. LogTypeOK'
  BY <1>1 DEF LogTypeOK
<1>4. RowsInv' /\ LockInv' /\ BatchInv'
  BY <1>1, <1>2 DEF LogInv, RowsInv, LockInv, BatchInv
<1>5. NothingForks' /\ ChainInv'
  BY <1>1 DEF LogInv, NothingForks, ChainInv, Intact
<1> QED
  BY <1>3, <1>4, <1>5 DEF LogInv

-----------------------------------------------------------------------------
(* When the question was last settled is one of the times it is read from. *)
LEMMA SinceIs ==
  ASSUME LogTypeOK, LogInv
  PROVE  /\ Since \in Int /\ WindowStart \in Int /\ WindowStart <= Since
         /\ \A row \in Clearings : row.at <= Since
         /\ Since = WindowStart \/ \E row \in Clearings : row.at = Since
<1> DEFINE Times == {WindowStart} \cup {row.at : row \in Clearings}
<1>1. clock \in Nat /\ WindowStart \in Int /\ WindowStart <= clock
  BY SignInsAssumption DEF LogTypeOK, WindowStart
<1>2. \A row \in Clearings : row.at \in Int /\ row.at <= clock
  BY DEF Clearings, LogTypeOK, LogInv, RowsInv, Row
<1>3. Times \subseteq Int /\ Times # {} /\ \A t \in Times : t <= clock
  BY <1>1, <1>2
<1> HIDE DEF Times
<1>4. Max(Times) \in Times /\ \A t \in Times : t <= Max(Times)
  <2>1. \E top \in Int : \A t \in Times : t <= top
    BY <1>1, <1>3
  <2> QED
    BY <1>3, <2>1, MaxOfBounded, Zenon
<1>5. Since = Max(Times)
  BY DEF Since, Times
<1> HIDE DEF Since
<1> QED
  BY <1>1, <1>3, <1>4, <1>5 DEF Times

LEMMA FailuresAreFinite ==
  ASSUME LogInv, NEW since, NEW F, F \subseteq Failures(since)
  PROVE  IsFiniteSet(F) /\ Cardinality(F) \in Nat
<1>1. F \in SUBSET log
  BY DEF Failures
<1>2. IsFiniteSet(F)
  BY <1>1, FS_Subset, Zenon DEF LogInv, RowsInv
<1> QED
  BY <1>2, FS_CardinalityType

(* The reservations that are still live are the last ones. *)
LEMMA LiveIs ==
  ASSUME TypeOK
  PROVE  /\ Cardinality(Lapsed) \in 0 .. Len(unrecorded)
         /\ Live \in Seq(1 .. Moments)
         /\ Len(Live) = Len(unrecorded) - Cardinality(Lapsed)
         /\ \A i \in 1 .. Len(Live) :
              Live[i] = unrecorded[i + Cardinality(Lapsed)]
<1>1. unrecorded \in Seq(1 .. Moments) /\ Len(unrecorded) \in Nat
  BY DEF TypeOK
<1>2. Lapsed \in SUBSET (1 .. Len(unrecorded))
  BY <1>1 DEF Lapsed
<1>3. /\ IsFiniteSet(1 .. Len(unrecorded))
      /\ Cardinality(1 .. Len(unrecorded)) = Len(unrecorded)
  BY <1>1, FS_Interval
<1>4. Cardinality(Lapsed) \in Nat /\ Cardinality(Lapsed) <= Len(unrecorded)
  <2>1. /\ IsFiniteSet(Lapsed)
        /\ Cardinality(Lapsed) <= Cardinality(1 .. Len(unrecorded))
    BY <1>2, <1>3, FS_Subset, Zenon
  <2> QED
    BY <1>3, <2>1, FS_CardinalityType
<1> DEFINE k == Cardinality(Lapsed)
<1> HIDE DEF k
<1>5. k \in Nat /\ k <= Len(unrecorded)
  BY <1>4 DEF k
<1>6. Live = SubSeq(unrecorded, k + 1, Len(unrecorded))
  BY DEF Live, k
<1>7. /\ Live \in Seq(1 .. Moments) /\ Len(Live) = Len(unrecorded) - k
      /\ \A i \in 1 .. Len(Live) : Live[i] = unrecorded[i + k]
  <2>1. /\ k + 1 \in Int /\ Len(unrecorded) \in Int
        /\ \A i \in k + 1 .. Len(unrecorded) : unrecorded[i] \in 1 .. Moments
    <3>1. unrecorded \in [1 .. Len(unrecorded) -> 1 .. Moments]
      BY <1>1, LenProperties, Zenon
    <3> QED
      BY <1>1, <1>5, <3>1, SecurityLogAssumption
  <2>2. /\ Live \in Seq(1 .. Moments)
        /\ Len(Live) = IF k + 1 <= Len(unrecorded)
                       THEN Len(unrecorded) - (k + 1) + 1 ELSE 0
        /\ \A i \in 1 .. Len(unrecorded) - (k + 1) + 1 :
             Live[i] = unrecorded[(k + 1) + i - 1]
    <3> DEFINE last == SubSeq(unrecorded, k + 1, Len(unrecorded))
    <3>1. /\ last \in Seq(1 .. Moments)
          /\ Len(last) = IF k + 1 <= Len(unrecorded)
                         THEN Len(unrecorded) - (k + 1) + 1 ELSE 0
          /\ \A i \in 1 .. Len(unrecorded) - (k + 1) + 1 :
               last[i] = unrecorded[(k + 1) + i - 1]
      BY <2>1, SubSeqProperties, SMT
    <3>2. Live = last
      BY <1>6
    <3> QED
      BY <3>1, <3>2, Zenon
  <2>3. Len(Live) = Len(unrecorded) - k
    BY <1>1, <1>5, <2>2
  <2>4. \A i \in 1 .. Len(Live) : i + k = (k + 1) + i - 1
    BY <1>5
  <2> QED
    BY <1>1, <1>5, <2>2, <2>3, <2>4
<1> QED
  BY <1>5, <1>7 DEF k

-----------------------------------------------------------------------------
(* Every step leaves the log as one of these does. *)
LEMMA LogStep ==
  ASSUME TypeOK, LogInv, [Next]_vars
  PROVE  LogTypeOK' /\ LogInv'
<1>1. LogTypeOK
  BY DEF TypeOK
<1>2. CASE UNCHANGED logVars
  BY <1>1, <1>2, SameLog
<1>3. CASE UNCHANGED vars
  BY <1>2, <1>3 DEF vars, logVars
<1>4. ASSUME NEW a \in Attempts,
             \/ ReadClearing(a) \/ Count(a) \/ Decide(a) \/ LetInUnread(a)
             \/ TurnAway(a) \/ Abandon(a) \/ Release(a)
      PROVE  UNCHANGED logVars
  BY <1>4 DEF ReadClearing, Count, Decide, LetInUnread, TurnAway, Abandon,
              Release
<1>5. ASSUME NEW a \in Attempts, Check(a) PROVE LogTypeOK' /\ LogInv'
  <2>1. PICK action \in {"sign-in.failed", "sign-in.succeeded"} :
          Begin(a, action,
                IF action = "sign-in.failed" THEN attempt[a].way ELSE "counted")
    BY <1>5 DEF Check
  <2> DEFINE way == IF action = "sign-in.failed" THEN attempt[a].way
                    ELSE "counted"
  <2>2. way \in Ways /\ a \in Writers /\ action \in Actions
    BY DEF TypeOK, Ways, Writers, Actions
  <2>3. UNCHANGED <<clock, log, written, holder, disordered, batch>>
    BY <1>5 DEF Check
  <2> QED
    BY <1>1, <2>1, <2>2, <2>3, BeginLog
<1>6. ASSUME NEW w \in Writers, WriteEntry(w) PROVE LogTypeOK' /\ LogInv'
  BY <1>1, <1>6, WriteLog DEF WriteEntry
<1>7. CASE Logging
  BY <1>1, <1>7, LinkLog, LoseLog, SweepBatchLog, SweepDeleteLog DEF Logging
<1>8. CASE Unlock
  <2>1. Desk \in Writers /\ "account.unlocked" \in Actions /\ "counted" \in Ways
    BY DEF Writers, Actions, Ways
  <2> QED
    BY <1>1, <1>8, <2>1, BeginLog DEF Unlock
<1>9. CASE Restart
  BY <1>1, <1>9, RestartLog
<1>10. CASE Tick
  BY <1>1, <1>10, TickLog
<1> QED
  BY <1>2, <1>3, <1>4, <1>5, <1>6, <1>7, <1>8, <1>9, <1>10 DEF Next

AttemptRecord ==
  [stage : {"idle", "counting", "deciding", "checking", "recording",
            "abandoned"},
   since : Int, failures : Nat, missed : SUBSET Attempts, way : Ways,
   in : 0 .. Moments]

LEMMA IdleTypes == Idle \in AttemptRecord
BY SecurityLogAssumption DEF Idle, AttemptRecord, Ways

(* The reservations are never more than the limit, and what is released is the
   oldest of those that are live. *)
LEMMA ReleasedIs ==
  ASSUME TypeOK, NEW a \in Attempts
  PROVE  /\ Released(a) \in Seq(1 .. Moments)
         /\ Len(Released(a)) <= Len(unrecorded)
<1>1. /\ Live \in Seq(1 .. Moments) /\ Len(Live) <= Len(unrecorded)
      /\ unrecorded \in Seq(1 .. Moments)
  BY LiveIs DEF TypeOK
<1>2. CASE Reserved(a) /\ Live # <<>>
  <2>1. Tail(Live) \in Seq(1 .. Moments) /\ Len(Tail(Live)) = Len(Live) - 1
    BY <1>1, <1>2, HeadTailProperties
  <2> QED
    BY <1>1, <1>2, <2>1 DEF Released
<1>3. CASE ~(Reserved(a) /\ Live # <<>>)
  BY <1>1, <1>3 DEF Released
<1> QED
  BY <1>2, <1>3

(* An attempt only ever counts, is let in or turned away, and goes back. *)
LEMMA AttemptTypes ==
  ASSUME TypeOK, LogInv, OnlyAttemptsFail, [Next]_vars
  PROVE  attempt' \in [Attempts -> AttemptRecord]
<1>1. attempt \in [Attempts -> AttemptRecord] /\ LogTypeOK
  BY DEF TypeOK, AttemptRecord
<1> USE <1>1, IdleTypes
<1>2. ASSUME NEW a \in Attempts, NEW new \in AttemptRecord,
             attempt' = [attempt EXCEPT ![a] = new]
      PROVE  attempt' \in [Attempts -> AttemptRecord]
  BY <1>2
<1>3. ASSUME NEW a \in Attempts, ReadClearing(a)
      PROVE  attempt' \in [Attempts -> AttemptRecord]
  <2> DEFINE new == [attempt[a] EXCEPT !.stage = "counting", !.since = Since]
  <2>1. Since \in Int
    BY SinceIs
  <2>2. new \in AttemptRecord
    BY <2>1 DEF AttemptRecord
  <2>3. attempt' = [attempt EXCEPT ![a] = new]
    BY <1>3 DEF ReadClearing
  <2> QED
    BY <1>2, <2>2, <2>3
<1>4. ASSUME NEW a \in Attempts, Count(a)
      PROVE  attempt' \in [Attempts -> AttemptRecord]
  <2> DEFINE many == Cardinality(Failures(attempt[a].since))
  <2> DEFINE new == [attempt[a] EXCEPT !.stage = "deciding", !.since = 0,
                                       !.failures = many]
  <2>1. many \in Nat
    BY FailuresAreFinite
  <2> HIDE DEF many
  <2>2. new \in AttemptRecord
    <3>1. \A one \in AttemptRecord, n \in Nat :
            [one EXCEPT !.stage = "deciding", !.since = 0, !.failures = n]
              \in AttemptRecord
      <4> TAKE one \in AttemptRecord, n \in Nat
      <4>1. [one EXCEPT !.stage = "deciding"] \in AttemptRecord
        BY DEF AttemptRecord
      <4>2. \A other \in AttemptRecord : [other EXCEPT !.since = 0] \in AttemptRecord
        BY DEF AttemptRecord
      <4>3. \A other \in AttemptRecord : [other EXCEPT !.failures = n] \in AttemptRecord
        BY DEF AttemptRecord
      <4> QED
        BY <4>1, <4>2, <4>3
    <3> QED
      BY <2>1, <3>1
  <2>3. attempt' = [attempt EXCEPT ![a] = new]
    BY <1>4 DEF Count, many
  <2> QED
    BY <1>2, <2>2, <2>3
<1>5. ASSUME NEW a \in Attempts, Decide(a)
      PROVE  attempt' \in [Attempts -> AttemptRecord]
  <2> DEFINE new == [Idle EXCEPT !.stage = "checking",
                                 !.way = attempt[a].way, !.in = clock]
  <2>1. clock \in 0 .. Moments
    BY SecurityLogAssumption DEF LogTypeOK
  <2>2. attempt[a].way \in Ways
    BY DEF AttemptRecord
  <2>3. new \in AttemptRecord
    BY <2>1, <2>2 DEF AttemptRecord, Idle
  <2>4. \/ attempt' = [attempt EXCEPT ![a] = new]
        \/ attempt' = [attempt EXCEPT ![a] = Idle]
    BY <1>5 DEF Decide
  <2> QED
    BY <1>2, <2>3, <2>4
<1>6. ASSUME NEW a \in Attempts, LetInUnread(a)
      PROVE  attempt' \in [Attempts -> AttemptRecord]
  <2> DEFINE new == [Idle EXCEPT !.stage = "checking", !.way = "unread"]
  <2>1. new \in AttemptRecord
    BY DEF AttemptRecord, Idle, Ways
  <2>2. attempt' = [attempt EXCEPT ![a] = new]
    BY <1>6 DEF LetInUnread
  <2> QED
    BY <1>2, <2>1, <2>2
<1>7. ASSUME NEW a \in Attempts, TurnAway(a) \/ Abandon(a)
      PROVE  attempt' \in [Attempts -> AttemptRecord]
  <2>1. [attempt[a] EXCEPT !.stage = "abandoned"] \in AttemptRecord
    BY DEF AttemptRecord
  <2> QED
    BY <1>2, <1>7, <2>1 DEF TurnAway, Abandon
<1>8. ASSUME NEW a \in Attempts, Check(a)
      PROVE  attempt' \in [Attempts -> AttemptRecord]
  <2> DEFINE new == [attempt[a] EXCEPT !.stage = "recording"]
  <2>1. new \in AttemptRecord
    BY DEF AttemptRecord
  <2>2. attempt' = [attempt EXCEPT ![a] = new]
    BY <1>8 DEF Check
  <2> QED
    BY <1>2, <2>1, <2>2
<1>9. ASSUME NEW a \in Attempts, Release(a)
      PROVE  attempt' \in [Attempts -> AttemptRecord]
  <2>1. \A b \in Attempts :
          [attempt[b] EXCEPT !.way = "overtaken"] \in AttemptRecord
    BY DEF AttemptRecord, Ways
  <2> QED
    BY <1>9, <2>1 DEF Release
<1>10. ASSUME NEW w \in Writers, WriteEntry(w)
      PROVE  attempt' \in [Attempts -> AttemptRecord]
  <2>1. ASSUME NEW b \in Attempts,
               attempt[b].stage = "deciding",
               entry[w].action = "sign-in.failed"
        PROVE  [attempt[b] EXCEPT !.missed = @ \cup {w}] \in AttemptRecord
    <3>1. w \in Attempts
      BY <1>10, <2>1 DEF OnlyAttemptsFail, WriteEntry, Write, Writers
    <3> QED
      BY <3>1 DEF AttemptRecord
  <2> QED
    BY <1>10, <2>1 DEF WriteEntry
<1> QED
  BY <1>3, <1>4, <1>5, <1>6, <1>7, <1>8, <1>9, <1>10
  DEF Next, vars, Logging, Unlock, Restart, Tick

LEMMA OnlyAttemptsFailStep ==
  ASSUME TypeOK, OnlyAttemptsFail, [Next]_vars
  PROVE  OnlyAttemptsFail'
<1>1. /\ entry \in [Writers -> EntryRecord] /\ Desk \in Writers /\ Sweep \in Writers
      /\ Desk \notin Attempts /\ Sweep \notin Attempts /\ Desk # Sweep
  BY SecurityLogAssumption DEF TypeOK, LogTypeOK, EntryRecord, Writers
<1>2. NoEntry.stage = "none"
  BY DEF NoEntry
<1>3. CASE UNCHANGED entry
  BY <1>3 DEF OnlyAttemptsFail
<1>4. ASSUME NEW w \in Writers, entry' = [entry EXCEPT ![w] = NoEntry]
      PROVE  OnlyAttemptsFail'
  BY <1>1, <1>2, <1>4 DEF OnlyAttemptsFail
<1>5. ASSUME NEW a \in Attempts, Check(a) PROVE OnlyAttemptsFail'
  <2>1. \A w \in {Desk, Sweep} : entry'[w] = entry[w]
    BY <1>1, <1>5 DEF Check, Begin
  <2> QED
    BY <2>1 DEF OnlyAttemptsFail
<1>6. ASSUME NEW w \in {Desk, Sweep}, NEW new,
             new.action # "sign-in.failed", entry' = [entry EXCEPT ![w] = new]
      PROVE  OnlyAttemptsFail'
  BY <1>1, <1>6 DEF OnlyAttemptsFail
<1>7. CASE Unlock \/ SweepBatch
  <2>1. PICK w \in {Desk, Sweep},
             action \in {"account.unlocked", "events.pruned"} :
               Begin(w, action, "counted")
    BY <1>7 DEF Unlock, SweepBatch
  <2> DEFINE new == [stage |-> "timed", action |-> action, at |-> clock,
                     after |-> 0, way |-> "counted"]
  <2>2. new.action # "sign-in.failed"
    OBVIOUS
  <2>3. entry' = [entry EXCEPT ![w] = new]
    BY <2>1 DEF Begin
  <2> QED
    BY <1>6, <2>2, <2>3
<1>8. ASSUME NEW w \in Writers, Link(w) PROVE OnlyAttemptsFail'
  <2>1. PICK id : entry' = [entry EXCEPT ![w].stage = "linked", ![w].after = id]
    BY <1>8 DEF Link
  <2>2. \A v \in Writers \ {w} : entry'[v] = entry[v]
    BY <1>1, <2>1
  <2>3. entry'[w].action = entry[w].action /\ entry[w].stage # "none"
    BY <1>1, <1>8, <2>1 DEF EntryRecord, Link
  <2> QED
    BY <1>1, <2>2, <2>3 DEF OnlyAttemptsFail
<1>9. CASE Restart
  BY <1>1, <1>2, <1>9 DEF Restart, OnlyAttemptsFail
<1>10. ASSUME NEW a \in Attempts,
              \/ ReadClearing(a) \/ Count(a) \/ Decide(a) \/ LetInUnread(a)
              \/ TurnAway(a) \/ Abandon(a) \/ Release(a)
       PROVE  UNCHANGED entry
  BY <1>10 DEF ReadClearing, Count, Decide, LetInUnread, TurnAway, Abandon,
               Release, logVars
<1>11. CASE SweepDelete \/ Tick \/ UNCHANGED vars
  BY <1>3, <1>11 DEF SweepDelete, Tick, vars
<1>12. ASSUME NEW w \in Writers, WriteEntry(w) \/ Lose(w)
       PROVE  OnlyAttemptsFail'
  BY <1>4, <1>12 DEF WriteEntry, Write, Lose
<1> QED
  BY <1>3, <1>5, <1>7, <1>8, <1>9, <1>10, <1>11, <1>12 DEF Next, Logging

LEMMA UnrecordedTypes ==
  ASSUME TypeOK, LogInv, [Next]_vars
  PROVE  unrecorded' \in Seq(1 .. Moments) /\ Len(unrecorded') <= Limit
<1>1. /\ unrecorded \in Seq(1 .. Moments) /\ Len(unrecorded) \in Nat
      /\ Len(unrecorded) <= Limit /\ Limit \in Nat
  BY SignInsAssumption DEF TypeOK
<1>2. CASE UNCHANGED unrecorded
  BY <1>1, <1>2
<1>3. ASSUME NEW a \in Attempts, unrecorded' = Released(a)
      PROVE  unrecorded' \in Seq(1 .. Moments) /\ Len(unrecorded') <= Limit
  BY <1>1, <1>3, ReleasedIs
<1>4. ASSUME NEW a \in Attempts, Decide(a)
      PROVE  unrecorded' \in Seq(1 .. Moments) /\ Len(unrecorded') <= Limit
  <2>1. /\ Live \in Seq(1 .. Moments) /\ Len(Live) <= Len(unrecorded)
        /\ Len(Live) \in Nat
    BY LiveIs, <1>1
  <2>2. CASE unrecorded' = Live
    BY <1>1, <2>1, <2>2
  <2>3. CASE unrecorded' = Append(Live, clock) /\ Len(Live) < Limit
    <3>1. clock \in 1 .. Moments
      BY DEF TypeOK, LogTypeOK
    <3>2. /\ Append(Live, clock) \in Seq(1 .. Moments)
          /\ Len(Append(Live, clock)) = Len(Live) + 1
      BY <2>1, <3>1, AppendProperties
    <3> QED
      BY <1>1, <2>1, <2>3, <3>2
  <2>4. attempt[a].failures \in Nat
    BY DEF TypeOK
  <2> QED
    BY <1>1, <1>4, <2>1, <2>2, <2>3, <2>4 DEF Decide
<1>5. CASE Restart
  <2>1. unrecorded' = <<>>
    BY <1>5 DEF Restart
  <2> QED
    BY <1>1, <2>1
<1> QED
  BY <1>2, <1>3, <1>4, <1>5
  DEF Next, vars, ReadClearing, Count, LetInUnread, TurnAway, Check, Abandon,
      Release, WriteEntry, Logging, Unlock, Tick

TypesInv == TypeOK /\ LogInv /\ OnlyAttemptsFail

LEMMA TypesInit == Init => TypesInv
<1> SUFFICES ASSUME Init PROVE TypesInv
  OBVIOUS
<1>1. LogTypeOK /\ LogInv
  BY LogInitHolds DEF Init
<1>2. attempt \in [Attempts -> AttemptRecord]
  BY IdleTypes DEF Init
<1>3. unrecorded \in Seq(1 .. Moments) /\ Len(unrecorded) <= Limit
  BY SignInsAssumption DEF Init
<1>4. OnlyAttemptsFail
  <2>1. \A w \in {Desk, Sweep} : entry[w].stage = "none"
    BY DEF Init, LogInit, NoEntry, Writers
  <2> QED
    BY <2>1 DEF OnlyAttemptsFail
<1> QED
  BY <1>1, <1>2, <1>3, <1>4 DEF TypesInv, TypeOK, AttemptRecord

LEMMA TypesStep == TypesInv /\ [Next]_vars => TypesInv'
<1> SUFFICES ASSUME TypesInv, [Next]_vars PROVE TypesInv'
  OBVIOUS
<1>1. LogTypeOK' /\ LogInv' /\ OnlyAttemptsFail'
  BY LogStep, OnlyAttemptsFailStep DEF TypesInv
<1>2. attempt' \in [Attempts -> AttemptRecord]
  BY AttemptTypes DEF TypesInv
<1>3. unrecorded' \in Seq(1 .. Moments) /\ Len(unrecorded') <= Limit
  BY UnrecordedTypes DEF TypesInv
<1>4. TypeOK'
  BY <1>1, <1>2, <1>3 DEF TypeOK, AttemptRecord
<1> QED
  BY <1>1, <1>4 DEF TypesInv

LEMMA TypesHold == Spec => []TypesInv
<1>1. Init => TypesInv
  BY TypesInit
<1>2. TypesInv /\ [Next]_vars => TypesInv'
  BY TypesStep
<1> QED
  BY <1>1, <1>2, PTL DEF Spec

(* The guard (db/src/lockout.ts, auth/src/sign-in-events.ts) and the log
   (db/src/security-events.ts) stay what they are declared to be, and the
   attempts that are remembered are never more than the limit. *)
THEOREM SignInsTypes == Spec => []TypeOK
<1>1. TypesInv => TypeOK
  BY DEF TypesInv
<1> QED
  BY <1>1, TypesHold, PTL

(* However many write to it and wherever the sweep cuts it, the log does not
   fork; and it verifies if no row was written after one of its own time or
   later (record, verifyChain, pruneSecurityEvents). *)
THEOREM TheLogVerifies == Spec => []UntouchedLogVerifies
<1>1. TypesInv => UntouchedLogVerifies
  BY DEF TypesInv, LogInv, ChainInv, UntouchedLogVerifies
<1> QED
  BY <1>1, TypesHold, PTL

(* What is past the retention is past the window the lock is read from, for
   the policy does not let the retention be shorter. *)
LEMMA PrunedIsPastTheWindow ==
  ASSUME TypeOK, LogInv, SweepDelete, NEW row \in log, row \notin log'
  PROVE  row.at <= WindowStart
<1>1. row.id \in batch
  BY DEF SweepDelete
<1>2. Retention > 0 /\ row.at < clock - Retention
  BY <1>1 DEF LogInv, BatchInv
<1>3. row.at \in Int /\ clock \in Int
  BY DEF TypeOK, LogTypeOK, Row
<1> QED
  BY <1>2, <1>3, SecurityLogAssumption, SignInsAssumption DEF WindowStart

LEMMA PruningLeavesTheCount ==
  ASSUME TypeOK, LogInv, SweepDelete
  PROVE  Since' = Since /\ Failures(Since)' = Failures(Since)
<1>1. clock' = clock /\ log' \subseteq log
  BY DEF SweepDelete
<1>2. \A row \in log : row.at \in Int
  BY DEF TypeOK, LogTypeOK, Row
<1>3. /\ Since \in Int /\ WindowStart \in Int /\ WindowStart <= Since
  BY SinceIs DEF TypeOK
<1>4. \A row \in log \ log' : row.at <= WindowStart
  BY PrunedIsPastTheWindow
<1>5. WindowStart' = WindowStart
  BY <1>1 DEF WindowStart
<1>6. Clearings' = Clearings
  BY <1>1, <1>2, <1>3, <1>4, <1>5 DEF Clearings
<1>7. Since' = Since
  BY <1>5, <1>6 DEF Since
<1> HIDE DEF Since
<1>8. \A row \in log \ log' : ~(row.at > Since)
  BY <1>2, <1>3, <1>4
<1> QED
  BY <1>1, <1>7, <1>8 DEF Failures

(* The nightly sweep (pruneSecurityEvents, under the policy's retention) takes
   nothing that lockState reads. *)
THEOREM WhatIsPrunedDecidesNothing == Spec => PruningDecidesNothing
<1>1. TypesInv /\ [Next]_vars =>
        [SweepDelete => Failures(Since)' = Failures(Since)]_log
  BY PruningLeavesTheCount DEF TypesInv
<1> QED
  BY <1>1, TypesHold, PTL DEF Spec, PruningDecidesNothing

-----------------------------------------------------------------------------
(* Fewer of the last times of a sequence are as late as more of them. *)
LEMMA FewerAreCovered ==
  ASSUME NEW s \in Seq(1 .. Moments), Sorted(s), NEW n \in Nat, NEW m \in Nat,
         m <= n, NEW t \in 1 .. Moments, Covers(s, n, t)
  PROVE  Covers(s, m, t)
<1> SUFFICES ASSUME m > 0 PROVE m <= Len(s) /\ s[Len(s) - m + 1] >= t
  BY DEF Covers
<1>1. n <= Len(s) /\ s[Len(s) - n + 1] >= t /\ Len(s) \in Nat
  BY DEF Covers
<1> DEFINE i == Len(s) - n + 1
<1> DEFINE j == Len(s) - m + 1
<1>2. i \in 1 .. Len(s) /\ j \in 1 .. Len(s) /\ i <= j
  BY <1>1
<1>3. s[i] >= t
  BY <1>1
<1> HIDE DEF i, j
<1>4. s[i] <= s[j]
  BY <1>2 DEF Sorted
<1>5. s[i] \in Int /\ s[j] \in Int /\ t \in Int
  BY <1>2, SecurityLogAssumption
<1>6. s[j] >= t
  BY <1>3, <1>4, <1>5
<1> QED
  BY <1>1, <1>6 DEF j

(* Taking the first of them away leaves the last ones. *)
LEMMA TailCovers ==
  ASSUME NEW s \in Seq(1 .. Moments), s # <<>>, Sorted(s), NEW n \in Nat,
         n < Len(s), NEW t \in 1 .. Moments, Covers(s, n, t)
  PROVE  Covers(Tail(s), n, t)
<1>1. /\ Tail(s) \in Seq(1 .. Moments) /\ Len(Tail(s)) = Len(s) - 1
      /\ \A i \in 1 .. Len(Tail(s)) : Tail(s)[i] = s[i + 1]
  BY HeadTailProperties
<1> SUFFICES ASSUME n > 0
             PROVE  n <= Len(Tail(s)) /\ Tail(s)[Len(Tail(s)) - n + 1] >= t
  BY DEF Covers
<1>2. Len(s) \in Nat /\ s[Len(s) - n + 1] >= t
  BY DEF Covers
<1> DEFINE i == Len(Tail(s)) - n + 1
<1>3. i \in 1 .. Len(Tail(s)) /\ i + 1 = Len(s) - n + 1
  BY <1>1, <1>2
<1>4. Tail(s)[i] = s[i + 1]
  BY <1>1, <1>3
<1>5. Tail(s)[i] >= t
  BY <1>2, <1>3, <1>4
<1> QED
  BY <1>1, <1>2, <1>5

LEMMA TailSorted ==
  ASSUME NEW s \in Seq(1 .. Moments), s # <<>>, Sorted(s), NEW c,
         \A i \in 1 .. Len(s) : s[i] <= c
  PROVE  Sorted(Tail(s)) /\ \A i \in 1 .. Len(Tail(s)) : Tail(s)[i] <= c
<1>1. /\ Tail(s) \in Seq(1 .. Moments) /\ Len(Tail(s)) = Len(s) - 1
      /\ \A i \in 1 .. Len(Tail(s)) : Tail(s)[i] = s[i + 1]
  BY HeadTailProperties
<1>2. \A i \in 1 .. Len(Tail(s)) : i + 1 \in 1 .. Len(s) /\ i \in Int
  BY <1>1
<1>3. Sorted(Tail(s))
  <2> SUFFICES ASSUME NEW i \in 1 .. Len(Tail(s)), NEW j \in 1 .. Len(Tail(s)),
                      i <= j
               PROVE  Tail(s)[i] <= Tail(s)[j]
    BY DEF Sorted
  <2>1. i + 1 \in 1 .. Len(s) /\ j + 1 \in 1 .. Len(s) /\ i + 1 <= j + 1
    BY <1>2
  <2> QED
    BY <1>1, <2>1 DEF Sorted
<1> QED
  BY <1>1, <1>2, <1>3

(* One more reservation, made now, and its time. *)
LEMMA AppendCovers ==
  ASSUME NEW s \in Seq(1 .. Moments), NEW n \in Nat, NEW t \in 1 .. Moments,
         Covers(s, n, t), NEW c \in 1 .. Moments, t <= c
  PROVE  Covers(Append(s, c), n + 1, t)
<1>1. /\ Len(Append(s, c)) = Len(s) + 1 /\ Len(s) \in Nat
      /\ \A i \in 1 .. Len(s) : Append(s, c)[i] = s[i]
      /\ Append(s, c)[Len(s) + 1] = c
  BY AppendProperties
<1>2. CASE n = 0
  BY <1>1, <1>2, SecurityLogAssumption DEF Covers
<1>3. CASE n > 0
  <2>1. n <= Len(s) /\ s[Len(s) - n + 1] >= t
    BY <1>3 DEF Covers
  <2> DEFINE i == Len(s) - n + 1
  <2>2. i \in 1 .. Len(s) /\ Len(s) + 1 - (n + 1) + 1 = i
    BY <1>1, <1>3, <2>1
  <2>3. Append(s, c)[i] >= t
    BY <1>1, <2>1, <2>2
  <2> HIDE DEF i
  <2> QED
    BY <1>1, <2>1, <2>2, <2>3 DEF Covers
<1> QED
  BY <1>2, <1>3

LEMMA AppendSorted ==
  ASSUME NEW s \in Seq(1 .. Moments), Sorted(s), NEW c \in 1 .. Moments,
         \A i \in 1 .. Len(s) : s[i] <= c
  PROVE  /\ Sorted(Append(s, c))
         /\ \A i \in 1 .. Len(Append(s, c)) : Append(s, c)[i] <= c
<1>1. /\ Len(Append(s, c)) = Len(s) + 1 /\ Len(s) \in Nat
      /\ \A i \in 1 .. Len(s) : Append(s, c)[i] = s[i]
      /\ Append(s, c)[Len(s) + 1] = c /\ c \in Int
  BY AppendProperties, SecurityLogAssumption
<1> DEFINE longer == Append(s, c)
<1> HIDE DEF longer
<1>2. \A i \in 1 .. Len(longer) : longer[i] <= c
  <2> TAKE i \in 1 .. Len(longer)
  <2>1. CASE i \in 1 .. Len(s)
    BY <1>1, <2>1 DEF longer
  <2>2. CASE i = Len(s) + 1
    BY <1>1, <2>2 DEF longer
  <2> QED
    BY <1>1, <2>1, <2>2 DEF longer
<1>3. ASSUME NEW i \in 1 .. Len(longer), NEW j \in 1 .. Len(longer), i <= j
      PROVE  longer[i] <= longer[j]
  <2>1. CASE j \in 1 .. Len(s)
    <3>1. i \in 1 .. Len(s)
      BY <1>1, <1>3, <2>1 DEF longer
    <3> QED
      BY <1>1, <1>3, <2>1, <3>1 DEF longer, Sorted
  <2>2. CASE j = Len(s) + 1
    BY <1>1, <1>2, <2>2 DEF longer
  <2> QED
    BY <1>1, <2>1, <2>2 DEF longer
<1> QED
  BY <1>2, <1>3 DEF longer, Sorted

LEMMA ReservedIsFinite ==
  ASSUME NEW R, R \subseteq Attempts
  PROVE  IsFiniteSet(R) /\ Cardinality(R) \in Nat
<1>1. R \in SUBSET Attempts
  OBVIOUS
<1>2. IsFiniteSet(R)
  BY <1>1, SecurityLogAssumption, FS_Subset, Zenon
<1> QED
  BY <1>2, FS_CardinalityType

LEMMA Smaller ==
  ASSUME NEW R, R \subseteq Attempts, NEW Q, Q \subseteq R
  PROVE  Cardinality(Q) <= Cardinality(R)
<1>1. IsFiniteSet(R) /\ Q \in SUBSET R
  BY ReservedIsFinite
<1> QED
  BY <1>1, FS_Subset, Zenon

(* No reservation an attempt still needs has lapsed. *)
LEMMA LiveCovers ==
  ASSUME TypeOK, OldestFirst, Covered, \A a \in Attempts : AttemptInv(a),
         NEW t \in 1 .. Moments
  PROVE  Covers(Live, Cardinality(ReservedFrom(t)), t)
<1>1. PICK n \in Nat : n = Cardinality(ReservedFrom(t))
  BY ReservedIsFinite DEF ReservedFrom
<1> SUFFICES ASSUME n > 0
             PROVE  n <= Len(Live) /\ Live[Len(Live) - n + 1] >= t
  BY <1>1 DEF Covers
<1>2. /\ unrecorded \in Seq(1 .. Moments) /\ Len(unrecorded) \in Nat
      /\ clock \in 1 .. Moments /\ Lapse \in Nat \ {0} /\ Moments \in Nat
      /\ \A i \in 1 .. Len(unrecorded) : unrecorded[i] \in Nat
  BY SignInsAssumption, SecurityLogAssumption DEF TypeOK, LogTypeOK
<1>3. n <= Len(unrecorded) /\ unrecorded[Len(unrecorded) - n + 1] >= t
  BY <1>1 DEF Covered, Covers
<1>4. PICK from \in 1 .. Moments :
        /\ from > clock - Lapse
        /\ \A past \in 1 .. Moments : past > clock - Lapse => from <= past
  <2>1. PICK c \in Int : c = clock - Lapse
    BY <1>2
  <2>2. c < Moments
    BY <1>2, <2>1
  <2>3. \E from \in 1 .. Moments :
          from > c /\ \A past \in 1 .. Moments : past > c => from <= past
    <3>1. CASE c < 1
      <4>1. 1 \in 1 .. Moments /\ 1 > c /\ \A past \in 1 .. Moments : 1 <= past
        BY <1>2, <3>1
      <4> QED
        BY <4>1
    <3>2. CASE c >= 1
      <4>1. /\ c + 1 \in 1 .. Moments /\ c + 1 > c
            /\ \A past \in 1 .. Moments : past > c => c + 1 <= past
        BY <1>2, <2>2, <3>2
      <4> QED
        BY <4>1
    <3> QED
      BY <3>1, <3>2
  <2> QED
    BY <2>1, <2>3
<1>5. \A a \in ReservedFrom(t) : attempt[a].in >= from
  <2> SUFFICES ASSUME NEW a \in Attempts, attempt[a].in >= t
               PROVE  attempt[a].in >= from
    BY DEF ReservedFrom
  <2>1. attempt[a].in \in 1 .. Moments
    BY SecurityLogAssumption DEF TypeOK
  <2>2. clock - attempt[a].in < Lapse
    BY <2>1 DEF AttemptInv, LetIn, Reserved
  <2> QED
    BY <1>2, <1>4, <2>1, <2>2
<1>6. unrecorded[Len(unrecorded) - n + 1] >= from
  <2>1. ReservedFrom(t) \subseteq ReservedFrom(from)
    BY <1>5 DEF ReservedFrom
  <2>2. ReservedFrom(from) \subseteq Attempts
    BY DEF ReservedFrom
  <2>3. PICK m \in Nat : m = Cardinality(ReservedFrom(from))
    BY <2>2, ReservedIsFinite
  <2>4. n <= m
    BY <1>1, <2>1, <2>2, <2>3, Smaller
  <2>5. Covers(unrecorded, m, from) /\ Sorted(unrecorded)
    BY <2>3 DEF Covered, OldestFirst
  <2>6. Covers(unrecorded, n, from)
    BY <1>2, <2>4, <2>5, FewerAreCovered
  <2> QED
    BY <2>6 DEF Covers
<1>7. Lapsed \subseteq 1 .. Len(unrecorded) - n
  <2> SUFFICES ASSUME NEW i \in 1 .. Len(unrecorded), i > Len(unrecorded) - n,
                      clock - unrecorded[i] >= Lapse
               PROVE  FALSE
    <3>1. DOMAIN unrecorded = 1 .. Len(unrecorded)
      BY <1>2
    <3>2. \A i \in Lapsed :
            i \in 1 .. Len(unrecorded) /\ clock - unrecorded[i] >= Lapse
      BY <3>1 DEF Lapsed
    <3>3. \A i \in Lapsed : ~(i > Len(unrecorded) - n)
      BY <3>2
    <3> QED
      BY <1>2, <1>3, <3>2, <3>3
  <2> DEFINE first == Len(unrecorded) - n + 1
  <2>1. first \in 1 .. Len(unrecorded) /\ first <= i
    BY <1>2, <1>3
  <2> HIDE DEF first
  <2>2. unrecorded[first] <= unrecorded[i]
    BY <2>1 DEF OldestFirst, Sorted
  <2>3. unrecorded[first] >= from
    BY <1>6 DEF first
  <2> QED
    BY <1>2, <1>4, <2>1, <2>2, <2>3
<1>8. Cardinality(Lapsed) <= Len(unrecorded) - n
  <2>1. /\ IsFiniteSet(1 .. Len(unrecorded) - n)
        /\ Cardinality(1 .. Len(unrecorded) - n) = Len(unrecorded) - n
    <3>1. PICK len \in Nat : len = Len(unrecorded)
      BY <1>2, Zenon
    <3>2. n <= len
      BY <1>3, <3>1
    <3>3. PICK m \in Nat : m = len - n
      BY <3>2
    <3>4. IsFiniteSet(1 .. m) /\ Cardinality(1 .. m) = m
      BY FS_Interval
    <3> QED
      BY <3>1, <3>3, <3>4
  <2>2. Lapsed \in SUBSET (1 .. Len(unrecorded) - n)
    BY <1>7
  <2>3. Cardinality(Lapsed) <= Cardinality(1 .. Len(unrecorded) - n)
    BY <2>1, <2>2, FS_Subset, Zenon
  <2> QED
    BY <2>1, <2>3
<1>9. PICK k \in Nat : k = Cardinality(Lapsed)
  <2>1. Cardinality(Lapsed) \in 0 .. Len(unrecorded)
    BY LiveIs
  <2>2. Cardinality(Lapsed) \in Nat
    BY <1>2, <2>1
  <2> QED
    BY <2>2
<1>10. /\ Len(Live) = Len(unrecorded) - k /\ k <= Len(unrecorded) - n
       /\ \A i \in 1 .. Len(Live) : Live[i] = unrecorded[i + k]
  BY <1>8, <1>9, LiveIs
<1> DEFINE i == Len(Live) - n + 1
<1>11. i \in 1 .. Len(Live) /\ i + k = Len(unrecorded) - n + 1
  <2>1. PICK len \in Nat, live \in Nat : len = Len(unrecorded) /\ live = Len(Live)
    BY <1>2
  <2>2. live = len - k /\ k <= len - n
    BY <1>10, <2>1
  <2>3. live - n + 1 \in 1 .. live /\ (live - n + 1) + k = len - n + 1
    BY <1>9, <2>1, <2>2
  <2> QED
    BY <2>1, <2>3
<1>12. Live[i] >= t
  BY <1>3, <1>10, <1>11
<1> QED
  BY <1>2, <1>10, <1>11, <1>12

LEMMA LiveSorted ==
  ASSUME TypeOK, OldestFirst
  PROVE  Sorted(Live) /\ \A i \in 1 .. Len(Live) : Live[i] <= clock
<1>1. PICK k \in Nat : k = Cardinality(Lapsed)
  <2>1. Cardinality(Lapsed) \in 0 .. Len(unrecorded) /\ Len(unrecorded) \in Nat
    BY LiveIs DEF TypeOK
  <2>2. Cardinality(Lapsed) \in Nat
    BY <2>1
  <2> QED
    BY <2>2
<1>2. /\ Len(Live) = Len(unrecorded) - k /\ Len(unrecorded) \in Nat
      /\ \A i \in 1 .. Len(Live) : Live[i] = unrecorded[i + k]
  BY <1>1, LiveIs DEF TypeOK
<1>3. \A i \in 1 .. Len(Live) : i \in Int /\ i + k \in 1 .. Len(unrecorded)
  BY <1>1, <1>2
<1>4. ASSUME NEW i \in 1 .. Len(Live), NEW j \in 1 .. Len(Live), i <= j
      PROVE  Live[i] <= Live[j]
  <2>1. i + k <= j + k /\ i + k \in 1 .. Len(unrecorded)
        /\ j + k \in 1 .. Len(unrecorded)
    BY <1>1, <1>3, <1>4
  <2> QED
    BY <1>2, <2>1 DEF OldestFirst, Sorted
<1> QED
  BY <1>2, <1>3, <1>4 DEF OldestFirst, Sorted

(* As far as reservations go, an attempt keeps the one it has or has none. *)
LEMMA StillCovered ==
  ASSUME TypeOK, NEW s \in Seq(1 .. Moments), Sorted(s),
         \A t \in 1 .. Moments : Covers(s, Cardinality(ReservedFrom(t)), t),
         \A a \in Attempts : attempt'[a].in \in {0, attempt[a].in}
  PROVE  \A t \in 1 .. Moments : Covers(s, Cardinality(ReservedFrom(t)'), t)
<1> TAKE t \in 1 .. Moments
<1>1. ReservedFrom(t)' \subseteq ReservedFrom(t)
  <2>1. t > 0 /\ t \in Int
    BY SecurityLogAssumption
  <2> QED
    BY <2>1 DEF ReservedFrom
<1>2. ReservedFrom(t) \subseteq Attempts
  BY DEF ReservedFrom
<1>3. PICK n \in Nat : n = Cardinality(ReservedFrom(t))
  BY <1>2, ReservedIsFinite
<1>4. PICK m \in Nat : m = Cardinality(ReservedFrom(t)')
  BY <1>1, <1>2, ReservedIsFinite
<1>5. m <= n
  BY <1>1, <1>2, <1>3, <1>4, Smaller
<1>6. Covers(s, n, t)
  BY <1>3
<1> QED
  BY <1>4, <1>5, <1>6, FewerAreCovered

LEMMA StillRemembered ==
  ASSUME TypeOK, OldestFirst, Covered, UNCHANGED unrecorded,
         clock' \in Int, clock <= clock',
         \A a \in Attempts : attempt'[a].in \in {0, attempt[a].in}
  PROVE  OldestFirst' /\ Covered'
<1>1. PICK s \in Seq(1 .. Moments) : s = unrecorded
  BY DEF TypeOK
<1>2. \A t \in 1 .. Moments : Covers(s, Cardinality(ReservedFrom(t)'), t)
  BY <1>1, StillCovered DEF Covered, OldestFirst
<1>3. \A i \in 1 .. Len(s) : s[i] \in Int
  BY <1>1, SecurityLogAssumption
<1>4. clock \in Int
  BY DEF TypeOK, LogTypeOK
<1> QED
  BY <1>1, <1>2, <1>3, <1>4 DEF Covered, OldestFirst

(* Whoever's reservation is given back, as many are left as there are attempts
   that have made one. *)
LEMMA ReleaseRemembers ==
  ASSUME TypeOK, OldestFirst, Covered, \A b \in Attempts : AttemptInv(b),
         NEW a \in Attempts, unrecorded' = Released(a), clock' = clock,
         attempt'[a].in = 0,
         \A b \in Attempts \ {a} : attempt'[b].in = attempt[b].in
  PROVE  OldestFirst' /\ Covered'
<1>1. \A b \in Attempts : attempt'[b].in \in {0, attempt[b].in}
  OBVIOUS
<1>2. CASE ~Reserved(a)
  <2>1. UNCHANGED unrecorded /\ clock' \in Int /\ clock <= clock'
    BY <1>2 DEF Released, TypeOK, LogTypeOK
  <2> QED
    BY <1>1, <2>1, StillRemembered
<1>3. CASE Reserved(a)
  <2>1. PICK s \in Seq(1 .. Moments) : s = Live
    BY LiveIs
  <2>2. Sorted(s) /\ \A i \in 1 .. Len(s) : s[i] <= clock
    BY <2>1, LiveSorted
  <2>3. \A t \in 1 .. Moments : Covers(s, Cardinality(ReservedFrom(t)), t)
    BY <2>1, LiveCovers
  <2>4. \A t \in 1 .. Moments : Covers(s, Cardinality(ReservedFrom(t)'), t)
    BY <1>1, <2>2, <2>3, StillCovered
  <2>5. 1 \in 1 .. Moments /\ Len(s) \in Nat
    BY SecurityLogAssumption
  <2> DEFINE All == ReservedFrom(1)
  <2>6. a \in All /\ All \subseteq Attempts
    <3>1. attempt[a].in \in Nat
      BY SecurityLogAssumption DEF TypeOK
    <3> QED
      BY <1>3, <3>1 DEF ReservedFrom, Reserved
  <2>7. PICK n \in Nat : n = Cardinality(All)
    BY <2>6, ReservedIsFinite
  <2>8. Cardinality(All \ {a}) = n - 1
    BY <2>6, <2>7, ReservedIsFinite, FS_RemoveElement
  <2>9. n > 0 /\ n <= Len(s)
    <3>1. n # 0
      BY <2>6, <2>7, ReservedIsFinite, FS_EmptySet
    <3> QED
      BY <2>3, <2>5, <2>7, <3>1 DEF Covers
  <2>10. ASSUME NEW t \in 1 .. Moments PROVE Cardinality(ReservedFrom(t)') <= n - 1
    <3>1. \A b \in Attempts : attempt'[b].in \in Int /\ t \in Int /\ t >= 1
      BY <1>1, SecurityLogAssumption DEF TypeOK
    <3>2. ReservedFrom(t)' \subseteq All \ {a}
      BY <3>1 DEF ReservedFrom
    <3>3. All \ {a} \subseteq Attempts
      BY <2>6
    <3> QED
      BY <2>8, <3>2, <3>3, Smaller
  <2>11. s # <<>>
    BY <2>9
  <2>12. unrecorded' = Tail(s)
    BY <1>3, <2>1, <2>11 DEF Released
  <2>13. ASSUME NEW t \in 1 .. Moments
         PROVE  Covers(Tail(s), Cardinality(ReservedFrom(t)'), t)
    <3>1. PICK m \in Nat : m = Cardinality(ReservedFrom(t)')
      <4>1. ReservedFrom(t)' \subseteq Attempts
        BY DEF ReservedFrom
      <4> QED
        BY <4>1, ReservedIsFinite
    <3>2. Covers(s, m, t)
      BY <2>4, <3>1
    <3>3. m < Len(s)
      BY <2>5, <2>9, <2>10, <3>1
    <3> QED
      BY <2>2, <2>11, <3>1, <3>2, <3>3, TailCovers
  <2>14. Sorted(Tail(s)) /\ \A i \in 1 .. Len(Tail(s)) : Tail(s)[i] <= clock
    BY <2>2, <2>11, TailSorted
  <2> QED
    BY <2>12, <2>13, <2>14 DEF Covered, OldestFirst
<1> QED
  BY <1>2, <1>3

(* A decision drops the reservations that lapsed and may make one. *)
LEMMA DecideRemembers ==
  ASSUME TypeOK, OldestFirst, Covered, \A b \in Attempts : AttemptInv(b),
         NEW a \in Attempts, Decide(a)
  PROVE  OldestFirst' /\ Covered'
<1>1. PICK s \in Seq(1 .. Moments) : s = Live
  BY LiveIs
<1>2. Sorted(s) /\ \A i \in 1 .. Len(s) : s[i] <= clock
  BY <1>1, LiveSorted
<1>3. \A t \in 1 .. Moments : Covers(s, Cardinality(ReservedFrom(t)), t)
  BY <1>1, LiveCovers
<1>4. clock' = clock /\ clock \in 1 .. Moments /\ attempt[a].in = 0
  <2>1. attempt[a].in \in Nat
    BY SecurityLogAssumption DEF TypeOK
  <2>2. attempt[a].stage = "deciding"
    BY DEF Decide
  <2>3. ~Reserved(a)
    BY <2>2 DEF AttemptInv, LetIn
  <2>4. clock' = clock
    BY DEF Decide, logVars
  <2> QED
    BY <2>1, <2>3, <2>4 DEF Reserved, TypeOK, LogTypeOK
<1>5. CASE unrecorded' = Live /\ attempt' = [attempt EXCEPT ![a] = Idle]
  <2>1. \A b \in Attempts : attempt'[b].in \in {0, attempt[b].in}
    BY <1>5 DEF Idle, TypeOK
  <2>2. \A t \in 1 .. Moments : Covers(s, Cardinality(ReservedFrom(t)'), t)
    BY <1>2, <1>3, <2>1, StillCovered
  <2> QED
    BY <1>1, <1>2, <1>4, <1>5, <2>2 DEF Covered, OldestFirst
<1>6. CASE /\ unrecorded' = Append(Live, clock)
           /\ attempt' = [attempt EXCEPT ![a] =
                [Idle EXCEPT !.stage = "checking", !.way = attempt[a].way,
                             !.in = clock]]
  <2>1. PICK c \in 1 .. Moments : c = clock
    BY <1>4
  <2>2. /\ attempt'[a].in = c
        /\ \A b \in Attempts \ {a} : attempt'[b] = attempt[b]
    BY <1>6, <2>1 DEF Idle, TypeOK
  <2>3. ASSUME NEW t \in 1 .. Moments
        PROVE  Covers(Append(s, c), Cardinality(ReservedFrom(t)'), t)
    <3>1. ReservedFrom(t) \subseteq Attempts /\ ReservedFrom(t)' \subseteq Attempts
      BY DEF ReservedFrom
    <3>2. PICK n \in Nat : n = Cardinality(ReservedFrom(t))
      BY <3>1, ReservedIsFinite
    <3>3. CASE t <= c
      <4>1. a \notin ReservedFrom(t)
        BY <1>4, SecurityLogAssumption DEF ReservedFrom
      <4>2. ReservedFrom(t)' = ReservedFrom(t) \cup {a}
        BY <2>1, <2>2, <3>3, SecurityLogAssumption DEF ReservedFrom
      <4>3. Cardinality(ReservedFrom(t)') = n + 1
        BY <3>1, <3>2, <4>1, <4>2, ReservedIsFinite, FS_AddElement
      <4> QED
        BY <1>3, <3>2, <3>3, <4>3, AppendCovers
    <3>4. CASE ~(t <= c)
      <4>1. \A b \in Attempts : attempt'[b].in <= c
        <5>1. \A b \in Attempts : attempt[b].in \in Nat /\ c \in Nat /\ c >= 0
          BY SecurityLogAssumption DEF TypeOK
        <5>2. \A b \in Attempts : attempt[b].in <= c
          BY <2>1, <5>1 DEF AttemptInv, LetIn, Reserved
        <5> QED
          BY <2>2, <5>1, <5>2
      <4>2. \A b \in Attempts : attempt'[b].in \in Int
        <5>1. \A b \in Attempts : attempt[b].in \in Int
          BY SecurityLogAssumption DEF TypeOK
        <5>2. c \in Int
          BY SecurityLogAssumption
        <5> QED
          BY <2>2, <5>1, <5>2
      <4>3. ReservedFrom(t)' = {}
        BY <3>4, <4>1, <4>2, SecurityLogAssumption DEF ReservedFrom
      <4>4. Cardinality(ReservedFrom(t)') = 0
        BY <4>3, FS_EmptySet
      <4> QED
        BY <4>4 DEF Covers
    <3> QED
      BY <3>3, <3>4
  <2>4. /\ Sorted(Append(s, c))
        /\ \A i \in 1 .. Len(Append(s, c)) : Append(s, c)[i] <= c
    BY <1>2, <2>1, AppendSorted
  <2>5. unrecorded' = Append(s, c) /\ clock' = c
    BY <1>1, <1>4, <1>6, <2>1
  <2> QED
    BY <2>3, <2>4, <2>5 DEF Covered, OldestFirst
<1> QED
  BY <1>5, <1>6 DEF Decide

-----------------------------------------------------------------------------
SinceFacts ==
  /\ Since \in Int /\ WindowStart \in Int /\ WindowStart <= Since
  /\ \A row \in Clearings : row.at <= Since
  /\ Since = WindowStart \/ \E row \in Clearings : row.at = Since

LEMMA SinceFactsHold == TypesInv => SinceFacts
BY SinceIs DEF TypesInv, TypeOK, SinceFacts

LEMMA SinceFactsHoldNext == TypesInv' => SinceFacts'
BY SinceFactsHold, PTL

LEMMA LogChanges ==
  ASSUME [Next]_vars
  PROVE  /\ clock' = clock \/ Tick
         /\ \/ UNCHANGED log \/ SweepDelete
            \/ \E w \in Writers : WriteEntry(w)
<1>1. ASSUME NEW a \in Attempts,
             \/ ReadClearing(a) \/ Count(a) \/ Decide(a) \/ LetInUnread(a)
             \/ TurnAway(a) \/ Check(a) \/ Abandon(a) \/ Release(a)
      PROVE  UNCHANGED <<clock, log>>
  BY <1>1 DEF ReadClearing, Count, Decide, LetInUnread, TurnAway, Check,
              Abandon, Release, logVars
<1>2. ASSUME NEW w \in Writers, WriteEntry(w) PROVE clock' = clock
  BY <1>2 DEF WriteEntry, Write
<1>3. CASE Logging
  BY <1>3 DEF Logging, Link, Lose, SweepBatch, SweepDelete
<1>4. CASE Unlock \/ Restart \/ UNCHANGED vars
  BY <1>4 DEF Unlock, Restart, vars
<1>5. CASE Tick
  BY <1>5 DEF Tick
<1> QED
  BY <1>1, <1>2, <1>3, <1>4, <1>5 DEF Next

(* The question is never opened again from further back. *)
LEMMA SinceGrows ==
  ASSUME TypesInv, TypesInv', [Next]_vars
  PROVE  Since \in Int /\ Since' \in Int /\ Since <= Since'
<1>1. SinceFacts /\ SinceFacts'
  BY SinceFactsHold, SinceFactsHoldNext
<1>2. Since \in Int /\ Since' \in Int
  BY <1>1 DEF SinceFacts
<1>3. CASE SweepDelete
  BY <1>2, <1>3, PruningLeavesTheCount DEF TypesInv
<1>4. CASE ~SweepDelete
  <2>1. log \subseteq log'
    BY <1>4, LogChanges DEF WriteEntry, Write
  <2>2. clock <= clock' /\ clock \in Int /\ clock' \in Int
    BY LogChanges DEF Tick, TypesInv, TypeOK, LogTypeOK
  <2>3. WindowStart <= WindowStart'
    <3>1. PICK c \in Int, d \in Int : c = clock /\ d = clock'
      BY <2>2
    <3>2. Window \in Int
      BY SignInsAssumption
    <3>3. c <= d
      BY <2>2, <3>1
    <3>4. c - Window <= d - Window
      BY <3>2, <3>3
    <3> QED
      BY <3>1, <3>4 DEF WindowStart
  <2>4. CASE Since = WindowStart
    BY <1>1, <2>3, <2>4 DEF SinceFacts
  <2>5. ASSUME NEW row \in Clearings, row.at = Since PROVE Since <= Since'
    <3>1. CASE row \in Clearings'
      BY <1>1, <2>5, <3>1 DEF SinceFacts
    <3>2. CASE row \notin Clearings'
      <4>1. ~(row.at > WindowStart')
        BY <2>1, <3>2 DEF Clearings
      <4> QED
        BY <1>1, <2>5, <4>1 DEF SinceFacts
    <3> QED
      BY <3>1, <3>2
  <2> QED
    BY <1>1, <2>4, <2>5 DEF SinceFacts
<1> QED
  BY <1>2, <1>3, <1>4

Failing(w) == WriteEntry(w) /\ entry[w].action = "sign-in.failed"

(* Nothing counts against an address that did not, but for a failure whose
   entry is written. *)
LEMMA AgainstGrows ==
  ASSUME TypesInv, TypesInv', [Next]_vars
  PROVE  \/ Against' \subseteq Against
         \/ \E w \in Attempts : \E row :
              /\ Failing(w) /\ entry[w].way = "counted"
              /\ Against' \subseteq Against \cup {row}
<1>1. Since \in Int /\ Since' \in Int /\ Since <= Since'
  BY SinceGrows
<1> HIDE DEF Since
<1>2. \A row \in log' : row.at \in Int
  BY DEF TypesInv, TypeOK, LogTypeOK, Row
<1>3. ASSUME NEW row \in Against', row \in log PROVE row \in Against
  BY <1>1, <1>2, <1>3 DEF Against, Failures
<1>4. Against' \subseteq log'
  BY DEF Against, Failures
<1>5. CASE log' \subseteq log
  BY <1>3, <1>4, <1>5
<1>6. ASSUME NEW w \in Writers, WriteEntry(w)
      PROVE  \/ Against' \subseteq Against
             \/ \E v \in Attempts : \E row :
                  /\ Failing(v) /\ entry[v].way = "counted"
                  /\ Against' \subseteq Against \cup {row}
  <2>1. PICK new :
          new = [id |-> written + 1, action |-> entry[w].action,
                 at |-> entry[w].at, after |-> entry[w].after,
                 way |-> entry[w].way]
    OBVIOUS
  <2>2. /\ log' = log \cup {new} /\ entry[w].stage = "linked"
        /\ new.action = entry[w].action /\ new.way = entry[w].way
    BY <1>6, <2>1 DEF WriteEntry, Write
  <2>3. Against' \subseteq Against \cup {new}
    BY <1>3, <1>4, <2>2
  <2>4. CASE new \in Against'
    <3>1. new.action = "sign-in.failed" /\ new.way = "counted"
      BY <2>4 DEF Against, Failures
    <3>2. w \in Attempts
      BY <2>2, <3>1 DEF TypesInv, OnlyAttemptsFail, Writers
    <3> QED
      BY <1>6, <2>2, <2>3, <3>1, <3>2 DEF Failing
  <2>5. CASE new \notin Against'
    BY <2>3, <2>5
  <2> QED
    BY <2>4, <2>5
<1> QED
  BY <1>5, <1>6, LogChanges DEF SweepDelete

(* An entry is still what it was, or gone. *)
GoesOn(b) ==
  entry'[b].stage # "none" =>
    /\ entry[b].stage # "none"
    /\ entry'[b].action = entry[b].action /\ entry'[b].way = entry[b].way

LEMMA AttemptKept ==
  ASSUME TypesInv, TypesInv', [Next]_vars, NEW b \in Attempts, AttemptInv(b),
         UNCHANGED attempt[b], GoesOn(b), clock' = clock
  PROVE  AttemptInv(b)'
<1>1. Since \in Int /\ Since' \in Int /\ Since <= Since'
  BY SinceGrows
<1>2. attempt[b].since \in Int
  BY DEF TypesInv, TypeOK
<1> HIDE DEF Since
<1>3. attempt[b].stage = "counting" => attempt[b].since <= Since'
  BY <1>1, <1>2 DEF AttemptInv, LetIn
<1>4. Reserved(b)' <=> Reserved(b)
  BY DEF Reserved
<1> QED
  BY <1>3, <1>4 DEF AttemptInv, LetIn, GoesOn

LEMMA CountKept ==
  ASSUME LogInv, TypeOK, NEW b \in Attempts, CountedAll(b),
         Against' \subseteq Against,
         attempt[b].stage = "deciding" => UNCHANGED attempt[b],
         attempt'[b].stage = "deciding" => attempt[b].stage = "deciding",
         \A c \in attempt[b].missed :
           entry[c].stage = "none" /\ attempt[c].stage = "recording" =>
             entry'[c].stage = "none" /\ UNCHANGED attempt[c]
  PROVE  CountedAll(b)'
<1> SUFFICES ASSUME attempt'[b].stage = "deciding", attempt'[b].way = "counted"
             PROVE  /\ \A c \in attempt'[b].missed :
                         /\ attempt'[c].stage = "recording"
                         /\ entry'[c].stage = "none"
                    /\ Cardinality(Against')
                         <= attempt'[b].failures + Cardinality(MissedBy(b)')
  BY DEF CountedAll
<1>1. UNCHANGED attempt[b] /\ attempt[b].stage = "deciding"
  OBVIOUS
<1>2. /\ \A c \in attempt[b].missed :
           attempt[c].stage = "recording" /\ entry[c].stage = "none"
      /\ Cardinality(Against) <= attempt[b].failures + Cardinality(MissedBy(b))
  BY <1>1 DEF CountedAll
<1>3. \A c \in attempt[b].missed : UNCHANGED attempt[c] /\ entry'[c].stage = "none"
  BY <1>2
<1>4. MissedBy(b)' = MissedBy(b)
  BY <1>1, <1>3 DEF MissedBy
<1>5. Cardinality(Against') <= Cardinality(Against)
  <2>1. Against' \in SUBSET Against /\ Against \subseteq Failures(Since)
    BY DEF Against
  <2>2. IsFiniteSet(Against)
    BY <2>1, FailuresAreFinite
  <2> QED
    BY <2>1, <2>2, FS_Subset, Zenon
<1>6. /\ Cardinality(Against) \in Nat /\ Cardinality(Against') \in Nat
      /\ Cardinality(MissedBy(b)) \in Nat /\ attempt[b].failures \in Nat
  <2>1. Against \subseteq Failures(Since) /\ Against' \subseteq Failures(Since)
    BY DEF Against
  <2>2. MissedBy(b) \subseteq Attempts
    BY DEF MissedBy, TypeOK
  <2> QED
    BY <2>1, <2>2, FailuresAreFinite, ReservedIsFinite DEF TypeOK
<1>7. Cardinality(Against')
        <= attempt[b].failures + Cardinality(MissedBy(b))
  BY <1>2, <1>5, <1>6
<1> QED
  BY <1>1, <1>2, <1>3, <1>4, <1>7

LEMMA GuessesAre ==
  GuessesWithinTheLimit <=> Cardinality(Against) + Cardinality(Guessers) <= Limit
BY DEF GuessesWithinTheLimit, GuessesLet, Against, Guessers

LEMMA GuessesAreNext ==
  GuessesWithinTheLimit'
    <=> Cardinality(Against') + Cardinality(Guessers') <= Limit
BY DEF GuessesWithinTheLimit, GuessesLet, Against, Guessers

LEMMA GuessesKept ==
  ASSUME LogInv, GuessesWithinTheLimit, Against' \subseteq Against,
         Guessers' \subseteq Guessers
  PROVE  GuessesWithinTheLimit'
<1>1. /\ IsFiniteSet(Against) /\ Against' \in SUBSET Against
      /\ Cardinality(Against) \in Nat
  BY FailuresAreFinite DEF Against
<1>2. Cardinality(Against') <= Cardinality(Against) /\ Cardinality(Against') \in Nat
  BY <1>1, FS_Subset, FS_CardinalityType
<1>3. Guessers \subseteq Attempts
  BY DEF Guessers, Guessing
<1>4. /\ Cardinality(Guessers') <= Cardinality(Guessers)
      /\ Cardinality(Guessers) \in Nat /\ Cardinality(Guessers') \in Nat
  BY <1>3, Smaller, ReservedIsFinite
<1> QED
  BY <1>1, <1>2, <1>4, GuessesAre, GuessesAreNext, SignInsAssumption

Guarded ==
  /\ \A a \in Attempts : AttemptInv(a) /\ CountedAll(a)
  /\ GuessesWithinTheLimit

(* A step of the log that writes no failure, and what becomes of the
   attempts is nothing. *)
LEMMA LogGoesOn ==
  ASSUME TypesInv, TypesInv', [Next]_vars, Guarded, UNCHANGED attempt,
         Against' \subseteq Against, clock' = clock,
         \A b \in Attempts : GoesOn(b)
  PROVE  Guarded'
<1>1. \A b \in Attempts : AttemptInv(b)'
  BY AttemptKept DEF Guarded
<1>2. TypeOK /\ LogInv
  BY DEF TypesInv
<1>3. \A b \in Attempts : CountedAll(b)'
  <2> TAKE b \in Attempts
  <2>1. \A c \in attempt[b].missed :
          entry[c].stage = "none" => entry'[c].stage = "none"
    BY <1>2 DEF GoesOn, TypeOK
  <2> QED
    BY <1>2, <2>1, CountKept DEF Guarded
<1>4. Guessers' \subseteq Guessers
  BY DEF Guessers, Guessing, GoesOn
<1> QED
  BY <1>1, <1>2, <1>3, <1>4, GuessesKept DEF Guarded

(* Of a step of one attempt that writes nothing, what is left to show. *)
LEMMA AttemptGoesOn ==
  ASSUME TypesInv, TypesInv', [Next]_vars, Guarded, Against' \subseteq Against,
         NEW a \in Attempts, clock' = clock,
         \A b \in Attempts \ {a} : UNCHANGED <<attempt[b], entry[b]>>,
         attempt[a].stage # "deciding" \/ attempt'[a].stage # "deciding",
         attempt[a].stage # "recording",
         AttemptInv(a)', CountedAll(a)'
  PROVE  \A b \in Attempts : AttemptInv(b)' /\ CountedAll(b)'
<1>1. TypeOK /\ LogInv
  BY DEF TypesInv
<1> TAKE b \in Attempts
<1>2. CASE b = a
  BY <1>2
<1>3. CASE b # a
  <2>1. AttemptInv(b)'
    <3>1. GoesOn(b) /\ AttemptInv(b)
      BY <1>3 DEF GoesOn, Guarded
    <3> QED
      BY <1>3, <3>1, AttemptKept
  <2>2. ASSUME NEW c \in attempt[b].missed,
               entry[c].stage = "none", attempt[c].stage = "recording"
        PROVE  entry'[c].stage = "none" /\ UNCHANGED attempt[c]
    <3>1. c \in Attempts \ {a}
      BY <1>1, <2>2 DEF TypeOK
    <3> QED
      BY <2>2, <3>1
  <2>3. CountedAll(b)'
    BY <1>1, <1>3, <2>2, CountKept DEF Guarded
  <2> QED
    BY <2>1, <2>3
<1> QED
  BY <1>2, <1>3

LEMMA AttemptFacts ==
  ASSUME TypesInv, Guarded, NEW a \in Attempts
  PROVE  /\ attempt[a].in \in Nat
         /\ attempt[a].stage \in {"idle", "counting", "deciding"} =>
              attempt[a].in = 0 /\ entry[a].stage = "none"
<1>1. attempt[a].in \in Nat
  BY SecurityLogAssumption DEF TypesInv, TypeOK
<1>2. AttemptInv(a)
  BY DEF Guarded
<1> QED
  BY <1>1, <1>2 DEF AttemptInv, LetIn, Reserved

LEMMA SameLogSameCount ==
  ASSUME UNCHANGED logVars
  PROVE  /\ clock' = clock /\ log' = log /\ entry' = entry
         /\ Since' = Since /\ Against' = Against
<1>1. UNCHANGED <<clock, log, entry>>
  BY DEF logVars
<1>2. Clearings' = Clearings /\ WindowStart' = WindowStart
  BY <1>1 DEF Clearings, WindowStart
<1>3. Since' = Since
  BY <1>2 DEF Since
<1> HIDE DEF Since
<1>4. Against' = Against
  BY <1>1, <1>3 DEF Against, Failures
<1> QED
  BY <1>1, <1>3, <1>4

LEMMA ReadClearingGuards ==
  ASSUME TypesInv, TypesInv', [Next]_vars, Guarded, NEW a \in Attempts,
         ReadClearing(a)
  PROVE  Guarded'
<1>1. /\ attempt[a] = Idle /\ UNCHANGED logVars
      /\ attempt' = [attempt EXCEPT ![a].stage = "counting", ![a].since = Since]
  BY DEF ReadClearing
<1>2. /\ clock' = clock /\ entry' = entry /\ Since' = Since
      /\ Against' = Against /\ Since \in Int
  BY <1>1, SameLogSameCount, SinceGrows
<1> HIDE DEF Since
<1>3. /\ \A b \in Attempts \ {a} : attempt'[b] = attempt[b]
      /\ attempt'[a].stage = "counting" /\ attempt'[a].since = Since
      /\ attempt'[a].in = 0 /\ attempt'[a].missed = {}
      /\ attempt[a].stage = "idle"
  BY <1>1 DEF Idle, TypesInv, TypeOK
<1>4. entry[a].stage = "none"
  BY <1>3, AttemptFacts
<1>5. AttemptInv(a)'
  BY <1>2, <1>3, <1>4 DEF AttemptInv, LetIn, Reserved
<1>6. CountedAll(a)'
  BY <1>3 DEF CountedAll
<1>7. \A b \in Attempts : AttemptInv(b)' /\ CountedAll(b)'
  BY <1>2, <1>3, <1>5, <1>6, AttemptGoesOn
<1>8. Guessers' \subseteq Guessers
  BY <1>2, <1>3, <1>4 DEF Guessers, Guessing
<1> QED
  BY <1>2, <1>7, <1>8, GuessesKept DEF Guarded, TypesInv

(* What is counted from a time before the question was settled is no less than
   what is counted from then. *)
LEMMA CountGuards ==
  ASSUME TypesInv, TypesInv', [Next]_vars, Guarded, NEW a \in Attempts, Count(a)
  PROVE  Guarded'
<1>1. /\ attempt[a].stage = "counting" /\ UNCHANGED logVars
      /\ attempt' = [attempt EXCEPT ![a] =
           [@ EXCEPT !.stage = "deciding", !.since = 0,
                     !.failures = Cardinality(Failures(attempt[a].since))]]
  BY DEF Count
<1>2. /\ clock' = clock /\ entry' = entry /\ Against' = Against
      /\ Since' = Since /\ Since \in Int
  BY <1>1, SameLogSameCount, SinceGrows
<1> HIDE DEF Since
<1>3. /\ attempt[a].in = 0 /\ entry[a].stage = "none" /\ attempt[a].missed = {}
      /\ attempt[a].since <= Since /\ attempt[a].since \in Int
  BY <1>1, AttemptFacts DEF Guarded, AttemptInv, LetIn, TypesInv, TypeOK
<1>4. /\ \A b \in Attempts \ {a} : attempt'[b] = attempt[b]
      /\ attempt'[a].stage = "deciding" /\ attempt'[a].in = 0
      /\ attempt'[a].missed = {}
      /\ attempt'[a].failures = Cardinality(Failures(attempt[a].since))
  BY <1>1, <1>3 DEF TypesInv, TypeOK
<1>5. AttemptInv(a)'
  BY <1>2, <1>3, <1>4 DEF AttemptInv, LetIn, Reserved
<1>6. Cardinality(Against) <= Cardinality(Failures(attempt[a].since))
  <2>1. \A row \in log : row.at \in Int
    BY DEF TypesInv, TypeOK, LogTypeOK, Row
  <2>2. Against \in SUBSET Failures(attempt[a].since)
    BY <1>2, <1>3, <2>1 DEF Against, Failures
  <2>3. IsFiniteSet(Failures(attempt[a].since))
    BY FailuresAreFinite DEF TypesInv
  <2> QED
    BY <2>2, <2>3, FS_Subset, Zenon
<1>7. CountedAll(a)'
  <2>1. MissedBy(a)' = {}
    BY <1>4 DEF MissedBy
  <2>2. Cardinality(MissedBy(a)') = 0
    BY <2>1, FS_EmptySet
  <2>3. Cardinality(Failures(attempt[a].since)) \in Nat
    BY FailuresAreFinite DEF TypesInv
  <2>4. Cardinality(Against')
          <= attempt'[a].failures + Cardinality(MissedBy(a)')
    BY <1>2, <1>4, <1>6, <2>2, <2>3
  <2> QED
    BY <1>4, <2>4 DEF CountedAll
<1>8. \A b \in Attempts : AttemptInv(b)' /\ CountedAll(b)'
  BY <1>1, <1>2, <1>4, <1>5, <1>7, AttemptGoesOn
<1>9. Guessers' \subseteq Guessers
  BY <1>2, <1>3, <1>4 DEF Guessers, Guessing
<1> QED
  BY <1>2, <1>8, <1>9, GuessesKept DEF Guarded, TypesInv

(* An attempt goes back, or in where the guard could not read. *)
LEMMA LeavesGuards ==
  ASSUME TypesInv, TypesInv', [Next]_vars, Guarded, NEW a \in Attempts,
         UNCHANGED logVars, attempt[a].stage # "recording",
         entry[a].stage = "none",
         \A b \in Attempts \ {a} : attempt'[b] = attempt[b],
         attempt'[a].stage # "deciding", attempt'[a].stage # "counting",
         attempt'[a].in = 0, attempt'[a].missed = {},
         attempt'[a].stage = "idle" \/ attempt'[a].way = "unread"
  PROVE  Guarded'
<1>1. /\ clock' = clock /\ entry' = entry /\ Against' = Against
  BY SameLogSameCount
<1>2. attempt'[a].stage \in LetIn => attempt'[a].way = "unread"
  BY DEF LetIn
<1>3. AttemptInv(a)'
  BY <1>1, <1>2 DEF AttemptInv, LetIn, Reserved
<1>4. CountedAll(a)'
  BY DEF CountedAll
<1>5. \A b \in Attempts : AttemptInv(b)' /\ CountedAll(b)'
  BY <1>1, <1>3, <1>4, AttemptGoesOn
<1>6. Guessers' \subseteq Guessers
  BY <1>1 DEF Guessers, Guessing
<1> QED
  BY <1>1, <1>5, <1>6, GuessesKept DEF Guarded, TypesInv

(* An attempt that is abandoned holds what it held. *)
LEMMA AbandonGuards ==
  ASSUME TypesInv, TypesInv', [Next]_vars, Guarded, NEW a \in Attempts,
         attempt[a].stage = "checking", UNCHANGED logVars,
         attempt' = [attempt EXCEPT ![a].stage = "abandoned"]
  PROVE  Guarded'
<1>1. clock' = clock /\ entry' = entry /\ Against' = Against
  BY SameLogSameCount
<1>2. attempt \in [Attempts -> AttemptRecord]
  BY DEF TypesInv, TypeOK, AttemptRecord
<1>3. /\ \A b \in Attempts \ {a} : attempt'[b] = attempt[b]
      /\ attempt'[a].stage = "abandoned" /\ attempt'[a].in = attempt[a].in
      /\ attempt'[a].way = attempt[a].way
      /\ attempt'[a].missed = attempt[a].missed
  BY <1>2 DEF AttemptRecord
<1>4. AttemptInv(a) /\ (Reserved(a)' <=> Reserved(a))
  BY <1>3 DEF Guarded, Reserved
<1>5. entry[a].stage = "none" /\ attempt[a].missed = {}
  BY <1>4 DEF AttemptInv
<1>6. AttemptInv(a)'
  BY <1>1, <1>3, <1>4, <1>5 DEF AttemptInv, LetIn
<1>7. CountedAll(a)'
  BY <1>3 DEF CountedAll
<1>8. \A b \in Attempts : AttemptInv(b)' /\ CountedAll(b)'
  BY <1>1, <1>3, <1>6, <1>7, AttemptGoesOn
<1>9. Guessers' \subseteq Guessers
  BY <1>1, <1>3 DEF Guessers, Guessing
<1> QED
  BY <1>1, <1>8, <1>9, GuessesKept DEF Guarded, TypesInv

(* The failures an attempt has missed and the guesses under way all hold a
   reservation that is live, and they are not the same ones. *)
LEMMA GuessesFit ==
  ASSUME TypesInv, OldestFirst, Covered, Guarded, NEW a \in Attempts,
         attempt[a].stage = "deciding", attempt[a].way = "counted"
  PROVE  Cardinality(Guessers) + Cardinality(MissedBy(a)) <= Len(Live)
<1>1. \A b \in Guessers : /\ b \in Attempts /\ Reserved(b)
                          /\ \/ attempt[b].stage \in {"checking", "abandoned"}
                             \/ entry[b].stage # "none"
  BY DEF Guessers, Guessing, Guarded, AttemptInv, LetIn
<1>2. \A b \in MissedBy(a) :
        /\ b \in Attempts /\ Reserved(b)
        /\ attempt[b].stage = "recording" /\ entry[b].stage = "none"
  <2>1. MissedBy(a) \subseteq Attempts
    BY DEF MissedBy, TypesInv, TypeOK
  <2>2. \A b \in MissedBy(a) : attempt[b].stage = "recording" /\ entry[b].stage = "none"
    BY DEF MissedBy, Guarded, CountedAll
  <2> QED
    BY <2>1, <2>2 DEF MissedBy, Guarded, AttemptInv, LetIn
<1>3. Guessers \cap MissedBy(a) = {}
  BY <1>1, <1>2
<1>4. Guessers \cup MissedBy(a) \subseteq ReservedFrom(1)
  <2>1. \A b \in Attempts : attempt[b].in \in Nat
    BY AttemptFacts
  <2> QED
    BY <1>1, <1>2, <2>1 DEF ReservedFrom, Reserved
<1>5. ReservedFrom(1) \subseteq Attempts
  BY DEF ReservedFrom
<1>6. /\ IsFiniteSet(Guessers) /\ Cardinality(Guessers) \in Nat
      /\ IsFiniteSet(MissedBy(a)) /\ Cardinality(MissedBy(a)) \in Nat
  BY <1>4, <1>5, ReservedIsFinite
<1>7. Cardinality(Guessers \cup MissedBy(a))
        = Cardinality(Guessers) + Cardinality(MissedBy(a))
  <2>1. Cardinality(Guessers \cup MissedBy(a))
          = Cardinality(Guessers) + Cardinality(MissedBy(a))
              - Cardinality(Guessers \cap MissedBy(a))
    BY <1>6, FS_Union, Zenon
  <2>2. Cardinality(Guessers \cap MissedBy(a)) = 0
    BY <1>3, FS_EmptySet
  <2> QED
    BY <1>6, <2>1, <2>2
<1>8. PICK n \in Nat : n = Cardinality(ReservedFrom(1))
  BY <1>5, ReservedIsFinite
<1>9. Cardinality(Guessers) + Cardinality(MissedBy(a)) <= n
  BY <1>4, <1>5, <1>7, <1>8, Smaller
<1>10. Covers(Live, n, 1)
  <2>1. 1 \in 1 .. Moments
    BY SecurityLogAssumption
  <2> QED
    BY <1>8, <2>1, LiveCovers DEF TypesInv, Guarded
<1>11. n <= Len(Live)
  <2>1. Len(Live) \in Nat
    BY LiveIs DEF TypesInv
  <2> QED
    BY <1>8, <1>10, <2>1 DEF Covers
<1>12. Len(Live) \in Nat
  BY LiveIs DEF TypesInv
<1> QED
  BY <1>6, <1>8, <1>9, <1>11, <1>12

LEMMA DecideGuards ==
  ASSUME TypesInv, TypesInv', [Next]_vars, OldestFirst, Covered, Guarded,
         NEW a \in Attempts, Decide(a)
  PROVE  Guarded'
<1>1. attempt[a].stage = "deciding" /\ UNCHANGED logVars
  BY DEF Decide
<1>2. /\ clock' = clock /\ entry' = entry /\ Against' = Against
  BY <1>1, SameLogSameCount
<1>3. attempt[a].in = 0 /\ entry[a].stage = "none"
  BY <1>1, AttemptFacts
<1>4. CASE attempt' = [attempt EXCEPT ![a] = Idle]
  <2>1. /\ \A b \in Attempts \ {a} : attempt'[b] = attempt[b]
        /\ attempt'[a].stage = "idle" /\ attempt'[a].in = 0
        /\ attempt'[a].missed = {}
    BY <1>4 DEF Idle, TypesInv, TypeOK
  <2> QED
    BY <1>1, <1>3, <2>1, LeavesGuards
<1>5. CASE /\ attempt[a].failures + Len(Live) < Limit
           /\ attempt' = [attempt EXCEPT ![a] =
                [Idle EXCEPT !.stage = "checking", !.way = attempt[a].way,
                             !.in = clock]]
  <2>1. /\ \A b \in Attempts \ {a} : attempt'[b] = attempt[b]
        /\ attempt'[a].stage = "checking" /\ attempt'[a].in = clock
        /\ attempt'[a].missed = {} /\ attempt'[a].way = attempt[a].way
    BY <1>5 DEF Idle, TypesInv, TypeOK
  <2>2. clock \in Int /\ clock > 0 /\ clock - clock < Lapse
    BY SignInsAssumption, SecurityLogAssumption DEF TypesInv, TypeOK, LogTypeOK
  <2>3. AttemptInv(a)'
    BY <1>2, <1>3, <2>1, <2>2 DEF AttemptInv, LetIn, Reserved
  <2>4. CountedAll(a)'
    BY <2>1 DEF CountedAll
  <2>5. \A b \in Attempts : AttemptInv(b)' /\ CountedAll(b)'
    BY <1>1, <1>2, <2>1, <2>3, <2>4, AttemptGoesOn
  <2>6. CASE attempt[a].way # "counted"
    <3>1. Guessers' \subseteq Guessers
      BY <1>2, <2>1, <2>6 DEF Guessers, Guessing
    <3> QED
      BY <1>2, <2>5, <3>1, GuessesKept DEF Guarded, TypesInv
  <2>7. CASE attempt[a].way = "counted"
    <3>1. Cardinality(Guessers) + Cardinality(MissedBy(a)) <= Len(Live)
      BY <1>1, <2>7, GuessesFit
    <3>2. Cardinality(Against) <= attempt[a].failures + Cardinality(MissedBy(a))
      BY <1>1, <2>7 DEF Guarded, CountedAll
    <3>3. /\ Cardinality(Against) \in Nat /\ Cardinality(MissedBy(a)) \in Nat
          /\ Cardinality(Guessers) \in Nat /\ IsFiniteSet(Guessers)
      <4>1. Against \subseteq Failures(Since) /\ Guessers \subseteq Attempts
            /\ MissedBy(a) \subseteq Attempts
        BY DEF Against, Guessers, Guessing, MissedBy, TypesInv, TypeOK
      <4> QED
        BY <4>1, FailuresAreFinite, ReservedIsFinite DEF TypesInv
    <3>4. Len(Live) \in Nat /\ attempt[a].failures \in Nat /\ Limit \in Nat
      BY LiveIs, SignInsAssumption DEF TypesInv, TypeOK
    <3>5. Cardinality(Against) + Cardinality(Guessers) + 1 <= Limit
      BY <1>5, <3>1, <3>2, <3>3, <3>4
    <3>6. Guessers' \subseteq Guessers \cup {a}
      BY <1>2, <2>1 DEF Guessers, Guessing
    <3>7. Cardinality(Guessers \cup {a}) <= Cardinality(Guessers) + 1
      BY <3>3, FS_AddElement
    <3>8. Guessers \cup {a} \subseteq Attempts
      BY DEF Guessers, Guessing
    <3>9. /\ Cardinality(Guessers') <= Cardinality(Guessers \cup {a})
          /\ Cardinality(Guessers') \in Nat /\ Cardinality(Guessers \cup {a}) \in Nat
      BY <3>6, <3>8, Smaller, ReservedIsFinite
    <3>10. Cardinality(Against') + Cardinality(Guessers') <= Limit
      BY <1>2, <3>3, <3>4, <3>5, <3>7, <3>9
    <3> QED
      BY <2>5, <3>10, GuessesAreNext DEF Guarded
  <2> QED
    BY <2>6, <2>7
<1> QED
  <2>1. attempt[a].failures + Len(Live) \in Int /\ Limit \in Int
    BY LiveIs, SignInsAssumption DEF TypesInv, TypeOK
  <2> QED
    BY <1>4, <1>5, <2>1 DEF Decide

LEMMA CheckGuards ==
  ASSUME TypesInv, TypesInv', [Next]_vars, Guarded, NEW a \in Attempts, Check(a)
  PROVE  Guarded'
<1>1. /\ attempt[a].stage = "checking" /\ UNCHANGED <<clock, log>>
      /\ attempt' = [attempt EXCEPT ![a].stage = "recording"]
  BY DEF Check
<1>2. PICK action \in {"sign-in.failed", "sign-in.succeeded"} :
        Begin(a, action,
              IF action = "sign-in.failed" THEN attempt[a].way ELSE "counted")
  BY DEF Check
<1>3. /\ entry \in [Writers -> EntryRecord] /\ a \in Writers
      /\ attempt \in [Attempts -> AttemptRecord]
  BY DEF TypesInv, TypeOK, LogTypeOK, EntryRecord, AttemptRecord, Writers
<1>4. /\ \A w \in Writers \ {a} : entry'[w] = entry[w]
      /\ entry'[a].action = "sign-in.failed" => entry'[a].way = attempt[a].way
  BY <1>2, <1>3 DEF Begin
<1>5. /\ \A b \in Attempts \ {a} : attempt'[b] = attempt[b]
      /\ attempt'[a].stage = "recording" /\ attempt'[a].in = attempt[a].in
      /\ attempt'[a].way = attempt[a].way /\ attempt'[a].missed = attempt[a].missed
  BY <1>1, <1>3 DEF AttemptRecord
<1>6. Since' = Since /\ Against' = Against
  <2>1. Clearings' = Clearings /\ WindowStart' = WindowStart
    BY <1>1 DEF Clearings, WindowStart
  <2>2. Since' = Since
    BY <2>1 DEF Since
  <2> HIDE DEF Since
  <2> QED
    BY <1>1, <2>2 DEF Against, Failures
<1> HIDE DEF Since
<1>7. AttemptInv(a)'
  <2>1. Reserved(a)' <=> Reserved(a)
    BY <1>5 DEF Reserved
  <2>2. AttemptInv(a)
    BY DEF Guarded
  <2> QED
    BY <1>1, <1>4, <1>5, <2>1, <2>2 DEF AttemptInv, LetIn
<1>8. CountedAll(a)'
  BY <1>5 DEF CountedAll
<1>9. \A b \in Attempts : AttemptInv(b)' /\ CountedAll(b)'
  <2>1. \A b \in Attempts \ {a} : UNCHANGED <<attempt[b], entry[b]>>
    BY <1>4, <1>5 DEF Writers
  <2> QED
    BY <1>1, <1>5, <1>6, <1>7, <1>8, <2>1, AttemptGoesOn
<1>10. Guessers' \subseteq Guessers
  <2>1. \A b \in Attempts \ {a} : attempt'[b] = attempt[b] /\ entry'[b] = entry[b]
    BY <1>4, <1>5 DEF Writers
  <2> QED
    BY <1>1, <1>5, <2>1 DEF Guessers, Guessing
<1> QED
  BY <1>6, <1>9, <1>10, GuessesKept DEF Guarded, TypesInv

(* What a row that is written leaves of the attempts and their entries. *)
LEMMA WriteFacts ==
  ASSUME TypesInv, TypesInv', [Next]_vars, Guarded, NEW w \in Writers,
         WriteEntry(w)
  PROVE  /\ clock' = clock /\ entry[w].stage = "linked"
         /\ entry'[w].stage = "none" /\ \A b \in Attempts : GoesOn(b)
         /\ \A b \in Attempts :
              /\ attempt[b].stage # "deciding" => attempt'[b] = attempt[b]
              /\ attempt'[b].stage = attempt[b].stage
              /\ attempt'[b].way = attempt[b].way
              /\ attempt'[b].failures = attempt[b].failures
              /\ attempt'[b].in = attempt[b].in
              /\ attempt'[b].missed =
                   IF attempt[b].stage = "deciding" /\ Failing(w)
                   THEN attempt[b].missed \cup {w} ELSE attempt[b].missed
         /\ \A b \in Attempts : AttemptInv(b)'
         /\ \A b \in Attempts : attempt[b].stage = "deciding"
              /\ attempt[b].way = "counted" =>
                \A c \in attempt'[b].missed :
                  attempt'[c].stage = "recording" /\ entry'[c].stage = "none"
         /\ Guessers' \subseteq Guessers
<1>1. /\ entry[w].stage = "linked" /\ clock' = clock
      /\ entry' = [entry EXCEPT ![w] = NoEntry]
      /\ attempt' = [a \in Attempts |->
           IF attempt[a].stage = "deciding" /\ entry[w].action = "sign-in.failed"
           THEN [attempt[a] EXCEPT !.missed = @ \cup {w}] ELSE attempt[a]]
  BY DEF WriteEntry, Write
<1>2. /\ entry \in [Writers -> EntryRecord]
      /\ attempt \in [Attempts -> AttemptRecord] /\ NoEntry.stage = "none"
  BY DEF TypesInv, TypeOK, LogTypeOK, EntryRecord, AttemptRecord, NoEntry
<1>3. entry'[w].stage = "none" /\ \A v \in Writers \ {w} : entry'[v] = entry[v]
  BY <1>1, <1>2
<1>4. \A b \in Attempts : GoesOn(b)
  BY <1>3 DEF GoesOn, Writers
<1>5. ASSUME NEW b \in Attempts
      PROVE  /\ attempt[b].stage # "deciding" => attempt'[b] = attempt[b]
             /\ attempt'[b].stage = attempt[b].stage
             /\ attempt'[b].way = attempt[b].way
             /\ attempt'[b].failures = attempt[b].failures
             /\ attempt'[b].in = attempt[b].in
             /\ attempt'[b].missed =
                  IF attempt[b].stage = "deciding" /\ Failing(w)
                  THEN attempt[b].missed \cup {w} ELSE attempt[b].missed
  <2>1. CASE attempt[b].stage = "deciding" /\ entry[w].action = "sign-in.failed"
    <3>1. attempt'[b] = [attempt[b] EXCEPT !.missed = @ \cup {w}]
      BY <1>1, <2>1
    <3>2. attempt[b] \in AttemptRecord
      BY <1>2
    <3> QED
      BY <2>1, <3>1, <3>2 DEF Failing, AttemptRecord
  <2>2. CASE ~(attempt[b].stage = "deciding" /\ entry[w].action = "sign-in.failed")
    <3>1. attempt'[b] = attempt[b]
      BY <1>1, <2>2
    <3> QED
      BY <2>2, <3>1 DEF Failing
  <2> QED
    BY <2>1, <2>2
<1>6. ASSUME NEW b \in Attempts PROVE AttemptInv(b)'
  <2>1. CASE attempt[b].stage = "deciding"
    <3>1. attempt[b].in = 0 /\ entry[b].stage = "none"
      BY <2>1, AttemptFacts
    <3>2. attempt'[b].in = 0 /\ entry'[b].stage = "none"
          /\ attempt'[b].stage = "deciding"
      BY <1>4, <1>5, <2>1, <3>1 DEF GoesOn
    <3> QED
      BY <3>2 DEF AttemptInv, LetIn, Reserved
  <2>2. CASE attempt[b].stage # "deciding"
    BY <1>1, <1>4, <1>5, <2>2, AttemptKept DEF Guarded
  <2> QED
    BY <2>1, <2>2
<1>7. ASSUME NEW b \in Attempts, attempt[b].stage = "deciding",
             attempt[b].way = "counted", NEW c \in attempt'[b].missed
      PROVE  attempt'[c].stage = "recording" /\ entry'[c].stage = "none"
  <2>1. CASE c \in attempt[b].missed
    <3>1. c \in Attempts
      BY <1>2, <2>1 DEF AttemptRecord
    <3>2. attempt[c].stage = "recording" /\ entry[c].stage = "none"
      BY <1>7, <2>1 DEF Guarded, CountedAll
    <3> QED
      BY <1>4, <1>5, <3>1, <3>2 DEF GoesOn
  <2>2. CASE c \notin attempt[b].missed
    <3>1. Failing(w) /\ c = w
      BY <1>5, <1>7, <2>2
    <3>2. w \in Attempts
      BY <1>1, <3>1 DEF Failing, TypesInv, OnlyAttemptsFail, Writers
    <3>3. attempt[w].stage = "recording"
      BY <1>1, <3>2 DEF Guarded, AttemptInv, LetIn
    <3> QED
      BY <1>3, <1>5, <3>1, <3>2, <3>3
  <2> QED
    BY <2>1, <2>2
<1>8. Guessers' \subseteq Guessers
  <2> SUFFICES ASSUME NEW b \in Guessers' PROVE b \in Guessers
    OBVIOUS
  <2>1. /\ b \in Attempts /\ attempt'[b].way \in {"counted"}
        /\ \/ attempt'[b].stage \in {"checking", "abandoned"}
           \/ entry'[b].stage # "none" /\ entry'[b].action = "sign-in.failed"
    BY DEF Guessers, Guessing
  <2>2. /\ attempt[b].way \in {"counted"}
        /\ \/ attempt[b].stage \in {"checking", "abandoned"}
           \/ entry[b].stage # "none" /\ entry[b].action = "sign-in.failed"
    BY <1>4, <1>5, <2>1 DEF GoesOn
  <2> QED
    BY <2>1, <2>2 DEF Guessers, Guessing
<1> QED
  BY <1>1, <1>3, <1>4, <1>5, <1>6, <1>7, <1>8

LEMMA WriteGuards ==
  ASSUME TypesInv, TypesInv', [Next]_vars, Guarded, NEW w \in Writers,
         WriteEntry(w), Against' \subseteq Against
  PROVE  Guarded'
<1>1. ASSUME NEW b \in Attempts, attempt'[b].stage = "deciding",
             attempt'[b].way = "counted"
      PROVE  Cardinality(Against')
               <= attempt'[b].failures + Cardinality(MissedBy(b)')
  <2>1. /\ attempt[b].stage = "deciding" /\ attempt[b].way = "counted"
        /\ attempt'[b].failures = attempt[b].failures
        /\ attempt[b].missed \subseteq attempt'[b].missed
    BY <1>1, WriteFacts
  <2>2. /\ attempt[b].missed \subseteq Attempts
        /\ attempt'[b].missed \subseteq Attempts /\ attempt[b].failures \in Nat
    BY DEF TypesInv, TypeOK
  <2>3. MissedBy(b) \subseteq MissedBy(b)'
    BY <2>1, <2>2, WriteFacts DEF MissedBy
  <2>4. MissedBy(b)' \subseteq Attempts
    BY <2>2 DEF MissedBy
  <2>5. /\ Cardinality(MissedBy(b)) <= Cardinality(MissedBy(b)')
        /\ Cardinality(MissedBy(b)) \in Nat /\ Cardinality(MissedBy(b)') \in Nat
    BY <2>3, <2>4, Smaller, ReservedIsFinite
  <2>6. Cardinality(Against) <= attempt[b].failures + Cardinality(MissedBy(b))
    BY <2>1 DEF Guarded, CountedAll
  <2>7. /\ IsFiniteSet(Against) /\ Cardinality(Against) \in Nat
        /\ Against' \in SUBSET Against /\ Cardinality(Against') \in Nat
    <3>1. Against \subseteq Failures(Since) /\ Against' \subseteq Failures(Since)
      BY DEF Against
    <3> QED
      BY <3>1, FailuresAreFinite DEF TypesInv
  <2>8. Cardinality(Against') <= Cardinality(Against)
    BY <2>7, FS_Subset, Zenon
  <2> QED
    BY <2>1, <2>2, <2>5, <2>6, <2>7, <2>8
<1>2. \A b \in Attempts : CountedAll(b)'
  <2> SUFFICES ASSUME NEW b \in Attempts, attempt'[b].stage = "deciding",
                      attempt'[b].way = "counted"
               PROVE  /\ \A c \in attempt'[b].missed :
                           /\ attempt'[c].stage = "recording"
                           /\ entry'[c].stage = "none"
                      /\ Cardinality(Against')
                           <= attempt'[b].failures + Cardinality(MissedBy(b)')
    BY DEF CountedAll
  <2>1. attempt[b].stage = "deciding" /\ attempt[b].way = "counted"
    BY WriteFacts
  <2>2. \A c \in attempt'[b].missed :
          attempt'[c].stage = "recording" /\ entry'[c].stage = "none"
    BY <2>1, WriteFacts
  <2> QED
    BY <1>1, <2>2
<1>3. GuessesWithinTheLimit'
  BY WriteFacts, GuessesKept DEF Guarded, TypesInv
<1> QED
  BY <1>2, <1>3, WriteFacts DEF Guarded

(* A guess whose failure is written is a failure, and whoever had counted has
   missed it. *)
LEMMA FailingGuards ==
  ASSUME TypesInv, TypesInv', [Next]_vars, Guarded, NEW w \in Attempts,
         Failing(w), entry[w].way = "counted", NEW row,
         Against' \subseteq Against \cup {row}
  PROVE  Guarded'
<1>1. w \in Writers /\ WriteEntry(w) /\ entry[w].action = "sign-in.failed"
  BY DEF Failing, Writers
<1>2. /\ entry[w].stage = "linked" /\ attempt[w].stage = "recording"
      /\ attempt[w].way = "counted"
  BY <1>1, WriteFacts DEF Guarded, AttemptInv, LetIn
<1>3. Cardinality(Against') <= Cardinality(Against) + 1
      /\ Cardinality(Against') \in Nat /\ Cardinality(Against) \in Nat
  <2>1. IsFiniteSet(Against) /\ Cardinality(Against) \in Nat
    BY FailuresAreFinite DEF TypesInv, Against
  <2>2. /\ IsFiniteSet(Against \cup {row})
        /\ Cardinality(Against \cup {row}) <= Cardinality(Against) + 1
    BY <2>1, FS_AddElement
  <2>3. Against' \in SUBSET (Against \cup {row})
    OBVIOUS
  <2>4. /\ IsFiniteSet(Against')
        /\ Cardinality(Against') <= Cardinality(Against \cup {row})
    BY <2>2, <2>3, FS_Subset, Zenon
  <2> QED
    BY <2>1, <2>2, <2>4, FS_CardinalityType
<1>4. ASSUME NEW b \in Attempts, attempt'[b].stage = "deciding",
             attempt'[b].way = "counted"
      PROVE  Cardinality(Against')
               <= attempt'[b].failures + Cardinality(MissedBy(b)')
  <2>1. /\ attempt[b].stage = "deciding" /\ attempt[b].way = "counted"
        /\ attempt'[b].failures = attempt[b].failures
        /\ attempt'[b].missed = attempt[b].missed \cup {w}
    <3>1. /\ attempt'[b].stage = attempt[b].stage
          /\ attempt'[b].way = attempt[b].way
          /\ attempt'[b].failures = attempt[b].failures
          /\ attempt'[b].missed =
               IF attempt[b].stage = "deciding" /\ Failing(w)
               THEN attempt[b].missed \cup {w} ELSE attempt[b].missed
      BY <1>1, WriteFacts
    <3> QED
      BY <1>4, <3>1
  <2>2. /\ attempt[b].missed \subseteq Attempts /\ attempt[b].failures \in Nat
    <3>1. TypeOK
      BY DEF TypesInv
    <3>2. attempt \in [Attempts -> AttemptRecord]
      BY <3>1 DEF TypeOK, AttemptRecord
    <3>3. attempt[b] \in AttemptRecord
      BY <3>2
    <3> QED
      BY <3>3 DEF AttemptRecord
  <2>3. w \notin MissedBy(b) /\ MissedBy(b) \subseteq Attempts
    BY <1>2, <2>1, <2>2 DEF MissedBy, Guarded, CountedAll
  <2>4. MissedBy(b)' = MissedBy(b) \cup {w}
    <3>1. \A c \in Attempts : attempt'[c].way = attempt[c].way
      BY <1>1, WriteFacts
    <3> QED
      BY <1>2, <2>1, <2>2, <3>1 DEF MissedBy
  <2>5. /\ Cardinality(MissedBy(b)') = Cardinality(MissedBy(b)) + 1
        /\ Cardinality(MissedBy(b)) \in Nat
    BY <2>3, <2>4, ReservedIsFinite, FS_AddElement
  <2>6. Cardinality(Against) <= attempt[b].failures + Cardinality(MissedBy(b))
    BY <2>1 DEF Guarded, CountedAll
  <2> QED
    BY <1>3, <2>1, <2>2, <2>5, <2>6
<1>5. \A b \in Attempts : CountedAll(b)'
  <2> SUFFICES ASSUME NEW b \in Attempts, attempt'[b].stage = "deciding",
                      attempt'[b].way = "counted"
               PROVE  /\ \A c \in attempt'[b].missed :
                           /\ attempt'[c].stage = "recording"
                           /\ entry'[c].stage = "none"
                      /\ Cardinality(Against')
                           <= attempt'[b].failures + Cardinality(MissedBy(b)')
    BY DEF CountedAll
  <2>1. attempt[b].stage = "deciding" /\ attempt[b].way = "counted"
    BY <1>1, WriteFacts
  <2>2. \A c \in attempt'[b].missed :
          attempt'[c].stage = "recording" /\ entry'[c].stage = "none"
    BY <1>1, <2>1, WriteFacts
  <2> QED
    BY <1>4, <2>2
<1>6. w \in Guessers
  BY <1>1, <1>2 DEF Guessers, Guessing
<1>7. Guessers' \subseteq Guessers \ {w}
  <2>1. Guessers' \subseteq Guessers
    BY <1>1, WriteFacts
  <2>2. attempt'[w].stage = "recording" /\ entry'[w].stage = "none"
    BY <1>1, <1>2, WriteFacts
  <2>3. w \notin Guessers'
    BY <2>2 DEF Guessers, Guessing
  <2> QED
    BY <2>1, <2>3
<1>8. /\ Cardinality(Guessers') <= Cardinality(Guessers) - 1
      /\ Cardinality(Guessers) \in Nat /\ Cardinality(Guessers') \in Nat
  <2>1. Guessers \subseteq Attempts
    BY DEF Guessers, Guessing
  <2>2. Cardinality(Guessers \ {w}) = Cardinality(Guessers) - 1
    BY <1>6, <2>1, ReservedIsFinite, FS_RemoveElement
  <2>3. Cardinality(Guessers') <= Cardinality(Guessers \ {w})
    BY <1>7, <2>1, Smaller
  <2>4. Guessers' \subseteq Attempts
    BY DEF Guessers, Guessing
  <2> QED
    BY <2>1, <2>2, <2>3, <2>4, ReservedIsFinite
<1>9. GuessesWithinTheLimit'
  <2>1. Cardinality(Against) + Cardinality(Guessers) <= Limit
    BY GuessesAre DEF Guarded
  <2>2. Cardinality(Against') + Cardinality(Guessers') <= Limit
    BY <1>3, <1>8, <2>1, SignInsAssumption
  <2> QED
    BY <2>2, GuessesAreNext
<1> QED
  BY <1>1, <1>5, <1>9, WriteFacts DEF Guarded

(* What has been given back has overtaken whoever had counted before it was
   logged, and counts for them no more. *)
LEMMA ReleaseGuards ==
  ASSUME TypesInv, TypesInv', [Next]_vars, Guarded, NEW a \in Attempts, Release(a)
  PROVE  Guarded'
<1>1. /\ attempt[a].stage = "recording" /\ entry[a] = NoEntry
      /\ UNCHANGED logVars
      /\ attempt' = [b \in Attempts |->
           IF b = a THEN Idle
           ELSE IF Overtaken(b, a) THEN [attempt[b] EXCEPT !.way = "overtaken"]
           ELSE attempt[b]]
  BY DEF Release
<1>2. /\ clock' = clock /\ entry' = entry /\ Against' = Against
      /\ entry[a].stage = "none"
  BY <1>1, SameLogSameCount DEF NoEntry
<1>3. attempt \in [Attempts -> AttemptRecord] /\ TypeOK /\ LogInv
  BY DEF TypesInv, TypeOK, AttemptRecord
<1>4. /\ attempt'[a].stage = "idle" /\ attempt'[a].in = 0
      /\ attempt'[a].missed = {}
  BY <1>1 DEF Idle
<1>5. ASSUME NEW b \in Attempts \ {a}, ~Overtaken(b, a)
      PROVE  attempt'[b] = attempt[b]
  BY <1>1, <1>5
<1>6. ASSUME NEW b \in Attempts \ {a}, Overtaken(b, a)
      PROVE  /\ attempt'[b].stage = "deciding" /\ attempt'[b].way = "overtaken"
             /\ attempt'[b].in = attempt[b].in /\ attempt[b].stage = "deciding"
  <2>1. attempt'[b] = [attempt[b] EXCEPT !.way = "overtaken"]
    BY <1>1, <1>6
  <2>2. attempt[b] \in AttemptRecord /\ attempt[b].stage = "deciding"
    BY <1>3, <1>6 DEF Overtaken
  <2> QED
    BY <2>1, <2>2 DEF AttemptRecord
<1>7. ASSUME NEW b \in Attempts PROVE AttemptInv(b)'
  <2>1. CASE b = a
    BY <1>2, <1>4, <2>1 DEF AttemptInv, LetIn, Reserved
  <2>2. CASE b # a /\ Overtaken(b, a)
    <3>1. attempt[b].in = 0 /\ entry[b].stage = "none"
      BY <1>6, <2>2, AttemptFacts
    <3> QED
      BY <1>2, <1>6, <2>2, <3>1 DEF AttemptInv, LetIn, Reserved
  <2>3. CASE b # a /\ ~Overtaken(b, a)
    <3>1. UNCHANGED attempt[b] /\ GoesOn(b)
      BY <1>2, <1>5, <2>3 DEF GoesOn
    <3> QED
      BY <1>2, <3>1, AttemptKept DEF Guarded
  <2> QED
    BY <2>1, <2>2, <2>3
<1>8. ASSUME NEW b \in Attempts PROVE CountedAll(b)'
  <2>1. CASE b = a
    BY <1>4, <2>1 DEF CountedAll
  <2>2. CASE b # a /\ Overtaken(b, a)
    BY <1>6, <2>2 DEF CountedAll
  <2>3. CASE b # a /\ ~Overtaken(b, a)
    <3>1. attempt'[b] = attempt[b]
      BY <1>5, <2>3
    <3>2. CASE attempt[b].stage = "deciding"
      <4>1. a \notin attempt[b].missed
        BY <2>3, <3>2 DEF Overtaken
      <4>2. ASSUME NEW c \in attempt[b].missed, attempt[c].stage = "recording"
            PROVE  UNCHANGED attempt[c]
        <5>1. c \in Attempts \ {a} /\ ~Overtaken(c, a)
          BY <1>3, <4>1, <4>2 DEF AttemptRecord, Overtaken
        <5> QED
          BY <1>5, <5>1
      <4>3. CountedAll(b) /\ Against' \subseteq Against
        BY <1>2 DEF Guarded
      <4> QED
        BY <1>2, <1>3, <3>1, <4>2, <4>3, CountKept
    <3>3. CASE attempt[b].stage # "deciding"
      BY <3>1, <3>3 DEF CountedAll
    <3> QED
      BY <3>2, <3>3
  <2> QED
    BY <2>1, <2>2, <2>3
<1>9. Guessers' \subseteq Guessers
  <2> SUFFICES ASSUME NEW b \in Guessers' PROVE b \in Guessers
    OBVIOUS
  <2>1. /\ b \in Attempts /\ attempt'[b].way \in {"counted"}
        /\ \/ attempt'[b].stage \in {"checking", "abandoned"}
           \/ entry'[b].stage # "none" /\ entry'[b].action = "sign-in.failed"
    BY DEF Guessers, Guessing
  <2>2. b # a
    BY <1>2, <1>4, <2>1
  <2>3. ~Overtaken(b, a)
    BY <1>6, <2>1, <2>2
  <2> QED
    BY <1>2, <1>5, <2>1, <2>2, <2>3 DEF Guessers, Guessing
<1> QED
  BY <1>2, <1>3, <1>7, <1>8, <1>9, GuessesKept DEF Guarded

LEMMA RestartGuards ==
  ASSUME TypesInv, TypesInv', [Next]_vars, Guarded, Restart
  PROVE  Guarded'
<1>1. /\ \A b \in Attempts : attempt'[b] = Idle /\ entry'[b].stage = "none"
      /\ UNCHANGED <<clock, log>>
  BY DEF Restart, NoEntry, Writers
<1>2. Against' = Against
  <2>1. Clearings' = Clearings /\ WindowStart' = WindowStart
    BY <1>1 DEF Clearings, WindowStart
  <2>2. Since' = Since
    BY <2>1 DEF Since
  <2> HIDE DEF Since
  <2> QED
    BY <1>1, <2>2 DEF Against, Failures
<1>3. \A b \in Attempts : AttemptInv(b)' /\ CountedAll(b)'
  BY <1>1 DEF AttemptInv, LetIn, CountedAll, Idle, Reserved
<1>4. Guessers' \subseteq Guessers
  BY <1>1 DEF Guessers, Guessing, Idle
<1> QED
  BY <1>2, <1>3, <1>4, GuessesKept DEF Guarded, TypesInv

(* Of the attempts the clock only ends those that were abandoned. *)
LEMMA TickGuards ==
  ASSUME TypesInv, TypesInv', [Next]_vars, Guarded, Tick
  PROVE  Guarded'
<1>1. /\ UNCHANGED <<log, entry>> /\ clock' = clock + 1
      /\ \A a \in Attempts : Outlasts(a) => attempt[a].stage = "abandoned"
      /\ attempt' = [a \in Attempts |->
                       IF Outlasts(a) THEN Idle ELSE attempt[a]]
  BY DEF Tick
<1>2. Against' \subseteq Against
  <2>1. ~\E w \in Attempts : Failing(w)
    BY <1>1 DEF Failing, WriteEntry, Write, TypesInv, TypeOK, LogTypeOK
  <2> QED
    BY <2>1, AgainstGrows
<1>3. Since \in Int /\ Since' \in Int /\ Since <= Since' /\ clock \in Int
  BY SinceGrows DEF TypesInv, TypeOK, LogTypeOK
<1> HIDE DEF Since
<1>4. ASSUME NEW b \in Attempts, ~Outlasts(b)
      PROVE  attempt'[b] = attempt[b] /\ AttemptInv(b)'
  <2>1. AttemptInv(b) /\ attempt[b].in \in Nat /\ attempt[b].since \in Int
    BY AttemptFacts DEF Guarded, TypesInv, TypeOK
  <2>2. attempt'[b] = attempt[b]
    BY <1>1, <1>4
  <2>3. Reserved(b)' <=> Reserved(b)
    BY <2>2 DEF Reserved
  <2>4. Reserved(b) => clock + 1 - attempt[b].in < Lapse
    BY <1>3, <1>4, <2>1, SignInsAssumption DEF Outlasts
  <2>5. Reserved(b) =>
          attempt[b].in <= clock' /\ clock' - attempt[b].in < Lapse
    BY <1>1, <1>3, <2>1, <2>4 DEF AttemptInv
  <2>6. attempt[b].stage = "counting" => attempt[b].since <= Since'
    BY <1>3, <2>1 DEF AttemptInv
  <2> QED
    BY <1>1, <2>1, <2>2, <2>3, <2>5, <2>6 DEF AttemptInv
<1>5. ASSUME NEW b \in Attempts, Outlasts(b)
      PROVE  attempt'[b] = Idle /\ attempt[b].stage = "abandoned" /\ AttemptInv(b)'
  <2>1. attempt'[b] = Idle /\ attempt[b].stage = "abandoned"
    BY <1>1, <1>5
  <2>2. entry'[b].stage = "none"
    BY <1>1, <2>1 DEF Guarded, AttemptInv
  <2> QED
    BY <2>1, <2>2 DEF AttemptInv, LetIn, Idle, Reserved
<1>6. \A b \in Attempts : AttemptInv(b)'
  BY <1>4, <1>5
<1>7. ASSUME NEW b \in Attempts PROVE CountedAll(b)'
  <2>1. CASE Outlasts(b)
    BY <1>5, <2>1 DEF CountedAll, Idle
  <2>2. CASE ~Outlasts(b)
    <3>1. ASSUME NEW c \in attempt[b].missed, attempt[c].stage = "recording"
          PROVE  UNCHANGED attempt[c]
      <4>1. c \in Attempts
        BY DEF TypesInv, TypeOK
      <4> QED
        BY <1>4, <1>5, <3>1, <4>1
    <3>2. CountedAll(b) /\ attempt'[b] = attempt[b] /\ entry' = entry
      BY <1>1, <1>4, <2>2 DEF Guarded
    <3> QED
      BY <1>2, <3>1, <3>2, CountKept DEF TypesInv
  <2> QED
    BY <2>1, <2>2
<1>8. Guessers' \subseteq Guessers
  <2> SUFFICES ASSUME NEW b \in Guessers' PROVE b \in Guessers
    OBVIOUS
  <2>1. b \in Attempts /\ entry' = entry
    BY <1>1 DEF Guessers, Guessing
  <2>2. CASE Outlasts(b)
    <3>1. attempt'[b].stage = "idle" /\ entry'[b].stage = "none"
      BY <1>1, <1>5, <2>1, <2>2 DEF Idle, Guarded, AttemptInv
    <3> QED
      BY <3>1 DEF Guessers, Guessing
  <2>3. CASE ~Outlasts(b)
    BY <1>4, <2>1, <2>3 DEF Guessers, Guessing
  <2> QED
    BY <2>2, <2>3
<1> QED
  BY <1>2, <1>6, <1>7, <1>8, GuessesKept DEF Guarded, TypesInv

LEMMA NothingWritten ==
  ASSUME TypesInv, TypesInv', [Next]_vars, written' = written
  PROVE  Against' \subseteq Against
<1>1. ~\E w \in Attempts : Failing(w)
  BY DEF Failing, WriteEntry, Write, TypesInv, TypeOK, LogTypeOK
<1> QED
  BY <1>1, AgainstGrows

LEMMA LoggingGuards ==
  ASSUME TypesInv, TypesInv', [Next]_vars, Guarded, Logging \/ Unlock
  PROVE  Guarded'
<1>1. UNCHANGED <<clock, written, attempt>>
  BY DEF Logging, Unlock, Link, Lose, SweepBatch, SweepDelete
<1>2. entry \in [Writers -> EntryRecord]
  BY DEF TypesInv, TypeOK, LogTypeOK, EntryRecord
<1>3. ASSUME NEW b \in Attempts PROVE GoesOn(b)
  <2>1. b \in Writers /\ b # Desk /\ b # Sweep
    BY SecurityLogAssumption DEF Writers
  <2>2. CASE entry'[b] = entry[b]
    BY <2>2 DEF GoesOn
  <2>3. CASE Unlock \/ SweepBatch
    BY <1>2, <2>1, <2>2, <2>3 DEF Unlock, SweepBatch, Begin
  <2>4. CASE SweepDelete
    BY <2>2, <2>4 DEF SweepDelete
  <2>5. ASSUME NEW w \in Writers, Lose(w) PROVE GoesOn(b)
    <3>1. entry' = [entry EXCEPT ![w] = NoEntry] /\ NoEntry.stage = "none"
      BY <2>5 DEF Lose, NoEntry
    <3> QED
      BY <1>2, <2>1, <3>1 DEF GoesOn
  <2>6. ASSUME NEW w \in Writers, Link(w) PROVE GoesOn(b)
    <3>1. PICK id :
            entry' = [entry EXCEPT ![w].stage = "linked", ![w].after = id]
      BY <2>6 DEF Link
    <3>2. CASE b # w
      BY <1>2, <2>1, <2>2, <3>1, <3>2
    <3>3. CASE b = w
      <4>1. /\ entry'[b].action = entry[b].action
            /\ entry'[b].way = entry[b].way
        BY <1>2, <2>1, <3>1, <3>3 DEF EntryRecord
      <4>2. entry[b].stage = "timed"
        BY <2>6, <3>3 DEF Link
      <4> QED
        BY <4>1, <4>2 DEF GoesOn
    <3> QED
      BY <3>2, <3>3
  <2> QED
    BY <2>3, <2>4, <2>5, <2>6 DEF Logging
<1> QED
  BY <1>1, <1>3, NothingWritten, LogGoesOn

LEMMA GuardedStep ==
  ASSUME TypesInv, TypesInv', [Next]_vars, GuardInv
  PROVE  Guarded'
<1>1. Guarded /\ OldestFirst /\ Covered
  BY DEF GuardInv, Guarded
<1>2. ASSUME NEW a \in Attempts, LetInUnread(a) PROVE Guarded'
  <2>1. /\ attempt[a].stage \in {"idle", "counting"} /\ UNCHANGED logVars
        /\ attempt' = [attempt EXCEPT ![a] =
             [Idle EXCEPT !.stage = "checking", !.way = "unread"]]
    BY <1>2 DEF LetInUnread
  <2>2. /\ \A b \in Attempts \ {a} : attempt'[b] = attempt[b]
        /\ attempt'[a].stage = "checking" /\ attempt'[a].in = 0
        /\ attempt'[a].missed = {} /\ attempt'[a].way = "unread"
    BY <2>1 DEF Idle, TypesInv, TypeOK
  <2>3. entry[a].stage = "none"
    BY <1>1, <2>1, AttemptFacts
  <2> QED
    BY <1>1, <2>1, <2>2, <2>3, LeavesGuards
<1>3. ASSUME NEW a \in Attempts, TurnAway(a) \/ (Abandon(a) /\ ~Reserved(a))
      PROVE  Guarded'
  <2>1. /\ attempt[a].stage = "checking" /\ UNCHANGED logVars
        /\ attempt' = [attempt EXCEPT ![a] = Idle]
    BY <1>3 DEF TurnAway, Abandon
  <2>2. /\ \A b \in Attempts \ {a} : attempt'[b] = attempt[b]
        /\ attempt'[a].stage = "idle" /\ attempt'[a].in = 0
        /\ attempt'[a].missed = {}
    BY <2>1 DEF Idle, TypesInv, TypeOK
  <2>3. entry[a].stage = "none"
    BY <1>1, <2>1 DEF Guarded, AttemptInv, LetIn
  <2> QED
    BY <1>1, <2>1, <2>2, <2>3, LeavesGuards
<1>4. ASSUME NEW a \in Attempts, Abandon(a), Reserved(a) PROVE Guarded'
  <2>1. /\ attempt[a].stage = "checking" /\ UNCHANGED logVars
        /\ attempt' = [attempt EXCEPT ![a].stage = "abandoned"]
    BY <1>4 DEF Abandon
  <2> QED
    BY <1>1, <2>1, AbandonGuards
<1>5. ASSUME NEW a \in Attempts,
             ReadClearing(a) \/ Count(a) \/ Decide(a) \/ Check(a) \/ Release(a)
      PROVE  Guarded'
  BY <1>1, <1>5, ReadClearingGuards, CountGuards, DecideGuards, CheckGuards,
     ReleaseGuards
<1>6. ASSUME NEW w \in Writers, WriteEntry(w) PROVE Guarded'
  <2>1. CASE Against' \subseteq Against
    BY <1>1, <1>6, <2>1, WriteGuards
  <2>2. CASE \E v \in Attempts : \E row :
               /\ Failing(v) /\ entry[v].way = "counted"
               /\ Against' \subseteq Against \cup {row}
    BY <1>1, <2>2, FailingGuards
  <2> QED
    BY <2>1, <2>2, AgainstGrows
<1>7. CASE Logging \/ Unlock
  BY <1>1, <1>7, LoggingGuards
<1>8. CASE Restart
  BY <1>1, <1>8, RestartGuards
<1>9. CASE Tick
  BY <1>1, <1>9, TickGuards
<1>10. CASE UNCHANGED vars
  <2>1. /\ UNCHANGED <<clock, written, attempt, entry>>
    BY <1>10 DEF vars
  <2>2. \A b \in Attempts : GoesOn(b)
    BY <2>1 DEF GoesOn
  <2> QED
    BY <1>1, <2>1, <2>2, NothingWritten, LogGoesOn
<1> QED
  BY <1>2, <1>3, <1>5, <1>6, <1>7, <1>8, <1>9, <1>10, <1>4 DEF Next

LEMMA RememberedStep ==
  ASSUME TypesInv, TypesInv', [Next]_vars, GuardInv
  PROVE  OldestFirst' /\ Covered'
<1>1. /\ TypeOK /\ OldestFirst /\ Covered /\ \A b \in Attempts : AttemptInv(b)
      /\ attempt \in [Attempts -> AttemptRecord]
  BY DEF GuardInv, TypesInv, TypeOK, AttemptRecord
<1>2. clock \in Int /\ clock' \in Int /\ clock <= clock'
  BY LogChanges DEF Tick, TypesInv, TypeOK, LogTypeOK
<1>3. CASE /\ UNCHANGED unrecorded
           /\ \A b \in Attempts : attempt'[b].in \in {0, attempt[b].in}
  BY <1>1, <1>2, <1>3, StillRemembered
<1>4. ASSUME NEW a \in Attempts, ReadClearing(a) \/ Count(a) \/ Check(a)
      PROVE  OldestFirst' /\ Covered'
  <2>1. /\ UNCHANGED unrecorded
        /\ \A b \in Attempts \ {a} : attempt'[b] = attempt[b]
    BY <1>1, <1>4 DEF ReadClearing, Count, Check
  <2>2. attempt'[a].in = attempt[a].in
    BY <1>1, <1>4 DEF ReadClearing, Count, Check, AttemptRecord
  <2> QED
    BY <1>3, <2>1, <2>2
<1>5. ASSUME NEW a \in Attempts, LetInUnread(a) \/ Abandon(a)
      PROVE  OldestFirst' /\ Covered'
  <2>1. /\ UNCHANGED unrecorded
        /\ \A b \in Attempts \ {a} : attempt'[b] = attempt[b]
    BY <1>1, <1>5 DEF LetInUnread, Abandon
  <2>2. attempt'[a].in \in {0, attempt[a].in}
    <3>1. CASE LetInUnread(a)
      BY <1>1, <3>1 DEF LetInUnread, Idle
    <3>2. CASE Abandon(a)
      BY <1>1, <3>2 DEF Abandon, Idle, AttemptRecord
    <3> QED
      BY <1>5, <3>1, <3>2
  <2> QED
    BY <1>3, <2>1, <2>2
<1>6. ASSUME NEW a \in Attempts, TurnAway(a) \/ Release(a)
      PROVE  OldestFirst' /\ Covered'
  <2>1. unrecorded' = Released(a) /\ clock' = clock
    BY <1>6 DEF TurnAway, Release, logVars
  <2>2. attempt'[a].in = 0
    BY <1>1, <1>6 DEF TurnAway, Release, Idle
  <2>3. ASSUME NEW b \in Attempts \ {a} PROVE attempt'[b].in = attempt[b].in
    <3>1. CASE TurnAway(a)
      BY <1>1, <3>1 DEF TurnAway
    <3>2. CASE Release(a)
      BY <1>1, <3>2 DEF Release, AttemptRecord
    <3> QED
      BY <1>6, <3>1, <3>2
  <2> QED
    BY <1>1, <2>1, <2>2, <2>3, ReleaseRemembers
<1>7. ASSUME NEW a \in Attempts, Decide(a) PROVE OldestFirst' /\ Covered'
  BY <1>1, <1>7, DecideRemembers
<1>8. ASSUME NEW w \in Writers, WriteEntry(w) PROVE OldestFirst' /\ Covered'
  <2>1. UNCHANGED unrecorded
    BY <1>8 DEF WriteEntry
  <2>2. \A b \in Attempts : attempt'[b].in = attempt[b].in
    BY <1>8, WriteFacts DEF GuardInv, Guarded
  <2> QED
    BY <1>3, <2>1, <2>2
<1>9. CASE Restart
  <2>1. unrecorded' = <<>> /\ \A b \in Attempts : attempt'[b].in = 0
    BY <1>9 DEF Restart, Idle
  <2>2. Len(unrecorded') = 0
    BY <2>1
  <2>3. ASSUME NEW t \in 1 .. Moments
        PROVE  Covers(unrecorded', Cardinality(ReservedFrom(t)'), t)
    <3>1. ReservedFrom(t)' = {}
      BY <2>1, SecurityLogAssumption DEF ReservedFrom
    <3>2. Cardinality(ReservedFrom(t)') = 0
      BY <3>1, FS_EmptySet
    <3> QED
      BY <3>2 DEF Covers
  <2> QED
    BY <2>2, <2>3 DEF Covered, OldestFirst, Sorted
<1>10. CASE Logging \/ Unlock \/ UNCHANGED vars
  BY <1>3, <1>10 DEF Logging, Unlock, vars
<1>11. CASE Tick
  <2>1. \A b \in Attempts : attempt'[b].in \in {0, attempt[b].in}
    BY <1>11 DEF Tick, Idle
  <2>2. UNCHANGED unrecorded
    BY <1>11 DEF Tick
  <2> QED
    BY <1>3, <2>1, <2>2
<1> QED
  BY <1>4, <1>5, <1>6, <1>7, <1>8, <1>9, <1>10, <1>11 DEF Next

GuessInv == TypesInv /\ GuardInv

LEMMA GuessInit == Init => GuessInv
<1> SUFFICES ASSUME Init PROVE GuessInv
  OBVIOUS
<1>1. TypesInv
  BY TypesInit
<1>2. /\ \A a \in Attempts : attempt[a] = Idle /\ entry[a].stage = "none"
      /\ unrecorded = <<>> /\ log = {}
  BY DEF Init, LogInit, NoEntry, Writers
<1>3. OldestFirst
  BY <1>2 DEF OldestFirst, Sorted
<1>4. Covered
  <2>1. ASSUME NEW t \in 1 .. Moments
        PROVE  Covers(unrecorded, Cardinality(ReservedFrom(t)), t)
    <3>1. ReservedFrom(t) = {}
      BY <1>2, SecurityLogAssumption DEF ReservedFrom, Idle
    <3>2. Cardinality(ReservedFrom(t)) = 0
      BY <3>1, FS_EmptySet
    <3> QED
      BY <3>2 DEF Covers
  <2> QED
    BY <2>1 DEF Covered
<1>5. \A a \in Attempts : AttemptInv(a) /\ CountedAll(a)
  BY <1>2 DEF AttemptInv, LetIn, CountedAll, Idle, Reserved
<1>6. GuessesWithinTheLimit
  <2>1. Against = {} /\ Guessers = {}
    BY <1>2 DEF Against, Failures, Guessers, Guessing, Idle
  <2>2. Cardinality(Against) + Cardinality(Guessers) <= Limit
    BY <2>1, FS_EmptySet, SignInsAssumption
  <2> QED
    BY <2>2, GuessesAre
<1> QED
  BY <1>1, <1>3, <1>4, <1>5, <1>6 DEF GuessInv, GuardInv

LEMMA GuessStep == GuessInv /\ [Next]_vars => GuessInv'
<1> SUFFICES ASSUME GuessInv, [Next]_vars PROVE GuessInv'
  OBVIOUS
<1>1. TypesInv /\ TypesInv' /\ GuardInv
  BY TypesStep DEF GuessInv
<1>2. Guarded' /\ OldestFirst' /\ Covered'
  BY <1>1, GuardedStep, RememberedStep
<1> QED
  BY <1>1, <1>2 DEF GuessInv, GuardInv, Guarded

(* However attempts overlap, are abandoned, lapse or give back each other's
   reservations, the failures logged and the guesses under way are no more
   than the limit, but for those the property names (lockState,
   signInLockGuard, releaseAttempt). *)
THEOREM NoMoreGuessesThanTheLimit == Spec => []GuessesWithinTheLimit
<1>1. Init => GuessInv
  BY GuessInit
<1>2. GuessInv /\ [Next]_vars => GuessInv'
  BY GuessStep
<1>3. GuessInv => GuessesWithinTheLimit
  BY DEF GuessInv, GuardInv
<1> QED
  BY <1>1, <1>2, <1>3, PTL DEF Spec
=============================================================================
