----------------------------- MODULE SecurityLog -----------------------------
(***************************************************************************)
(* One business's security events (db/src/security-events.ts) and the      *)
(* nightly sweep that removes the old ones (db/src/retention.ts under the  *)
(* policy in modules-free/users/src/retention.ts).  Every entry carries a  *)
(* keyed hash of itself and of the entry before it.  Its time is chosen    *)
(* when it is begun; which entry is before it is read, and the row         *)
(* written, under the business's advisory lock.                            *)
(*                                                                         *)
(* A hash is modelled by the entry it stands for: two entries have one     *)
(* hash only if they are one entry.  The instance has its secret key.      *)
(***************************************************************************)
EXTENDS Integers, FiniteSetsExt

CONSTANTS
  Attempts,     \* the sign-ins that write to it
  Desk,         \* an administrator, or the host's unlock command
  Sweep,
  NoOne,
  Moments,      \* bound on the clock
  Retention,    \* eventRetentionDays; 0 keeps everything
  MaxRows       \* bound on the entries ever begun

Writers == Attempts \cup {Desk, Sweep}

ASSUME SecurityLogAssumption ==
  /\ IsFiniteSet(Attempts)
  /\ Desk \notin Attempts /\ Sweep \notin Attempts \cup {Desk}
  /\ NoOne \notin Writers
  /\ Moments \in Nat \ {0} /\ Retention \in Nat /\ MaxRows \in Nat

VARIABLES
  clock,
  log,          \* the rows; a row's id is its seq
  written,      \* the last seq given out
  holder,       \* who holds the advisory lock
  entry,        \* the record() each writer is in
  batch,        \* the ids the sweep is about to delete
  disordered    \* a row was once written after one of its own time or later

logVars == <<clock, log, written, holder, entry, batch, disordered>>

Actions == {"sign-in.failed", "sign-in.succeeded", "account.unlocked",
            "events.pruned"}

(* How the guard let an attempt in goes on its row, for the properties. *)
Ways == {"counted", "overtaken", "unread"}

Row == [id : Nat \ {0}, action : Actions, at : 1 .. Moments, after : Nat,
        way : Ways]
NoEntry == [stage |-> "none", action |-> "events.pruned", at |-> 1,
            after |-> 0, way |-> "counted"]

LogTypeOK ==
  /\ clock \in 1 .. Moments
  /\ log \subseteq Row
  /\ written \in 0 .. MaxRows
  /\ holder \in Writers \cup {NoOne}
  /\ entry \in [Writers ->
       [stage : {"none", "timed", "linked"}, action : Actions,
        at : 1 .. Moments, after : Nat, way : Ways]]
  /\ batch \subseteq 1 .. MaxRows
  /\ disordered \in BOOLEAN

Writing == {w \in Writers : entry[w].stage # "none"}
Room == written + Cardinality(Writing) < MaxRows

LogInit ==
  /\ clock = 1
  /\ log = {}
  /\ written = 0
  /\ holder = NoOne
  /\ entry = [w \in Writers |-> NoEntry]
  /\ batch = {}
  /\ disordered = FALSE

-----------------------------------------------------------------------------
(* record(): the entry is timed... *)
Begin(w, action, way) ==
  /\ entry[w] = NoEntry /\ Room
  /\ entry' = [entry EXCEPT ![w] =
       [stage |-> "timed", action |-> action, at |-> clock, after |-> 0,
        way |-> way]]

(* The row written last of those still there, or none of them. *)
IsLast(id) ==
  /\ id \in {0} \cup {row.id : row \in log}
  /\ \A row \in log : row.id <= id

(* Mutant: the last row is read without the lock. *)
LinkUnlocked(w) ==
  /\ entry[w].stage = "timed"
  /\ \E id \in 0 .. written :
       /\ IsLast(id)
       /\ entry' = [entry EXCEPT ![w].stage = "linked", ![w].after = id]
  /\ UNCHANGED <<clock, log, written, holder, batch, disordered>>

(* ... linked to the last row under the lock... *)
Link(w) ==
  /\ entry[w].stage = "timed" /\ holder = NoOne
  /\ holder' = w
  /\ \E id \in 0 .. written :
       /\ IsLast(id)
       /\ entry' = [entry EXCEPT ![w].stage = "linked", ![w].after = id]
  /\ UNCHANGED <<clock, log, written, batch, disordered>>

(* ... and written, which lets the lock go. *)
Write(w) ==
  /\ entry[w].stage = "linked"
  /\ written' = written + 1
  /\ log' = log \cup
       {[id |-> written + 1, action |-> entry[w].action, at |-> entry[w].at,
         after |-> entry[w].after, way |-> entry[w].way]}
  /\ disordered' = (disordered \/ \E row \in log : row.at >= entry[w].at)
  /\ entry' = [entry EXCEPT ![w] = NoEntry]
  /\ holder' = NoOne
  /\ UNCHANGED <<clock, batch>>

(* A database that fails is logged to the console and nothing else. *)
Lose(w) ==
  /\ entry[w].stage # "none"
  /\ entry' = [entry EXCEPT ![w] = NoEntry]
  /\ holder' = IF holder = w THEN NoOne ELSE holder
  /\ UNCHANGED <<clock, log, written, batch, disordered>>

-----------------------------------------------------------------------------
(* Mutant: the window is not held to the lock's. *)
DueUnasked(row) == row.at < clock /\ row.action # "events.pruned"

(* Past the window, and not the trace an earlier sweep left. *)
Due(row) ==
  /\ Retention > 0 /\ row.at < clock - Retention
  /\ row.action # "events.pruned"

(* The oldest that are due, as many as a batch takes; the marker is recorded
   first... *)
SweepBatch ==
  /\ batch = {}
  /\ \E some \in SUBSET {row \in log : Due(row)} :
       /\ some # {}
       /\ \A row \in some, other \in log \ some :
            Due(other) => row.at <= other.at
       /\ batch' = {row.id : row \in some}
  /\ Begin(Sweep, "events.pruned", "counted")
  /\ UNCHANGED <<clock, log, written, holder, disordered>>

(* ... and then, recorded or not, they are deleted. *)
SweepDelete ==
  /\ batch # {} /\ entry[Sweep] = NoEntry
  /\ log' = {row \in log : row.id \notin batch}
  /\ batch' = {}
  /\ UNCHANGED <<clock, written, holder, entry, disordered>>

-----------------------------------------------------------------------------
(* verifyChain: every row follows the one before it, but for the row after a
   prune. *)
Intact ==
  \A row, next \in log :
    /\ row.id < next.id
    /\ ~\E between \in log : row.id < between.id /\ between.id < next.id
    /\ row.action # "events.pruned"
    => next.after = row.id
=============================================================================
