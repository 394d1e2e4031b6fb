------------------------------- MODULE SignIns -------------------------------
(***************************************************************************)
(* Signing in to one address of one business                               *)
(* (auth/src/sign-in-events.ts), and the lock that is read off the security *)
(* log (db/src/lockout.ts).  The guard counts the failures that are logged, *)
(* adds the attempts it has let in that are not logged yet, and lets the    *)
(* attempt in or turns it away; the log is written after the password is    *)
(* checked.  The attempts it has let in are in the process's memory.        *)
(*                                                                          *)
(* An attempt that is answered at all is answered within the minute its     *)
(* reservation lasts: see Tick.  A code of the second factor goes the same  *)
(* way as a password.                                                       *)
(***************************************************************************)
EXTENDS SecurityLog, Sequences

CONSTANTS
  Limit,        \* lockoutAfterAttempts; 0 is off
  Window,       \* lockoutMinutes
  Lapse         \* UNRECORDED_MS

ASSUME SignInsAssumption ==
  /\ Limit \in Nat \ {0} /\ Window \in Nat \ {0} /\ Lapse \in Nat \ {0}
  (* What PUT /api/users/policy refuses to break. *)
  /\ Retention > 0 => Retention >= Window

VARIABLES
  attempt,
  unrecorded    \* when each attempt that is let in was, oldest first

vars == <<clock, log, written, holder, entry, batch, disordered,
          attempt, unrecorded>>

(* since, failures: what lockState read; missed: attempts whose failure was
   logged after that; in: when it was let in. *)
Idle == [stage |-> "idle", since |-> 0, failures |-> 0, missed |-> {},
         way |-> "counted", in |-> 0]

TypeOK ==
  /\ LogTypeOK
  /\ attempt \in [Attempts ->
       [stage : {"idle", "counting", "deciding", "checking", "recording",
                 "abandoned"},
        since : Int, failures : Nat, missed : SUBSET Attempts, way : Ways,
        in : 0 .. Moments]]
  /\ unrecorded \in Seq(1 .. Moments) /\ Len(unrecorded) <= Limit

WindowStart == clock - Window

Clearings == {row \in log : row.action \in {"account.unlocked",
                                             "sign-in.succeeded"}
                             /\ row.at > WindowStart}

Since == Max({WindowStart} \cup {row.at : row \in Clearings})

Failures(since) ==
  {row \in log : row.action = "sign-in.failed" /\ row.at > since}

(* unrecordedAt: those that lapsed are the oldest, and they are dropped. *)
Lapsed == {i \in DOMAIN unrecorded : clock - unrecorded[i] >= Lapse}
Live == SubSeq(unrecorded, Cardinality(Lapsed) + 1, Len(unrecorded))

Reserved(a) == attempt[a].in > 0

-----------------------------------------------------------------------------
(* lockState: the last thing that settled the question... *)
ReadClearing(a) ==
  /\ attempt[a] = Idle
  /\ attempt' = [attempt EXCEPT ![a].stage = "counting", ![a].since = Since]
  /\ UNCHANGED <<logVars, unrecorded>>

(* ... and the failures since. *)
Count(a) ==
  /\ attempt[a].stage = "counting"
  /\ attempt' = [attempt EXCEPT ![a] =
       [@ EXCEPT !.stage = "deciding", !.since = 0,
                 !.failures = Cardinality(Failures(attempt[a].since))]]
  /\ UNCHANGED <<logVars, unrecorded>>

(* Mutant: only what is logged is counted. *)
DecideByTheLog(a) ==
  /\ attempt[a].stage = "deciding"
  /\ IF attempt[a].failures >= Limit
     THEN attempt' = [attempt EXCEPT ![a] = Idle] /\ unrecorded' = Live
     ELSE /\ attempt' = [attempt EXCEPT ![a] =
               [Idle EXCEPT !.stage = "checking", !.way = attempt[a].way,
                            !.in = clock]]
          /\ unrecorded' = Append(Live, clock)
  /\ UNCHANGED logVars

(* The decision and the reservation, with no await between them. *)
Decide(a) ==
  /\ attempt[a].stage = "deciding"
  /\ IF attempt[a].failures + Len(Live) >= Limit
     THEN attempt' = [attempt EXCEPT ![a] = Idle] /\ unrecorded' = Live
     ELSE /\ attempt' = [attempt EXCEPT ![a] =
               [Idle EXCEPT !.stage = "checking", !.way = attempt[a].way,
                            !.in = clock]]
          /\ unrecorded' = Append(Live, clock)
  /\ UNCHANGED logVars

(* A guard that cannot read lets the attempt in. *)
LetInUnread(a) ==
  /\ attempt[a].stage \in {"idle", "counting"}
  /\ attempt' = [attempt EXCEPT ![a] =
       [Idle EXCEPT !.stage = "checking", !.way = "unread"]]
  /\ UNCHANGED <<logVars, unrecorded>>

(* releaseAttempt, which takes the oldest reservation, whoever's it is. *)
Released(a) ==
  IF Reserved(a) /\ Live # <<>> THEN Tail(Live)
  ELSE IF Reserved(a) THEN Live ELSE unrecorded

(* Nothing was logged: a member who is suspended or unverified, or a password
   that was right and waits for its second factor. *)
TurnAway(a) ==
  /\ attempt[a].stage = "checking"
  /\ unrecorded' = Released(a)
  /\ attempt' = [attempt EXCEPT ![a] = Idle]
  /\ UNCHANGED logVars

(* The password is checked and what came of it goes to the log. *)
Check(a) ==
  /\ attempt[a].stage = "checking"
  /\ \E action \in {"sign-in.failed", "sign-in.succeeded"} :
       Begin(a, action,
             IF action = "sign-in.failed" THEN attempt[a].way ELSE "counted")
  /\ attempt' = [attempt EXCEPT ![a].stage = "recording"]
  /\ UNCHANGED <<clock, log, written, holder, batch, disordered, unrecorded>>

(* An attempt whose after-hook never runs leaves its reservation to lapse;
   one the guard could not read for has none. *)
Abandon(a) ==
  /\ attempt[a].stage = "checking"
  /\ attempt' = [attempt EXCEPT ![a] =
       IF Reserved(a) THEN [@ EXCEPT !.stage = "abandoned"] ELSE Idle]
  /\ UNCHANGED <<logVars, unrecorded>>

(* A row is written; a failure has then been missed by whoever had counted. *)
WriteEntry(w) ==
  /\ Write(w)
  /\ attempt' = [a \in Attempts |->
       IF attempt[a].stage = "deciding" /\ entry[w].action = "sign-in.failed"
       THEN [attempt[a] EXCEPT !.missed = @ \cup {w}]
       ELSE attempt[a]]
  /\ UNCHANGED unrecorded

Overtaken(b, a) == attempt[b].stage = "deciding" /\ a \in attempt[b].missed

(* Mutant: the reservation goes back before the failure is written. *)
ReleaseFirst(a) ==
  /\ attempt[a].stage = "recording"
  /\ unrecorded' = Released(a)
  /\ attempt' = [b \in Attempts |->
       IF b = a THEN Idle
       ELSE IF Overtaken(b, a) THEN [attempt[b] EXCEPT !.way = "overtaken"]
       ELSE attempt[b]]
  /\ UNCHANGED logVars

(* Written or lost, the reservation goes back. *)
Release(a) ==
  /\ attempt[a].stage = "recording" /\ entry[a] = NoEntry
  /\ unrecorded' = Released(a)
  /\ attempt' = [b \in Attempts |->
       IF b = a THEN Idle
       ELSE IF Overtaken(b, a) THEN [attempt[b] EXCEPT !.way = "overtaken"]
       ELSE attempt[b]]
  /\ UNCHANGED logVars

-----------------------------------------------------------------------------
Unlock ==
  /\ Begin(Desk, "account.unlocked", "counted")
  /\ UNCHANGED <<clock, log, written, holder, batch, disordered,
                 attempt, unrecorded>>

(* The process comes back: what was in memory is gone, and so is what had not
   committed. *)
Restart ==
  /\ attempt' = [a \in Attempts |-> Idle]
  /\ unrecorded' = <<>>
  /\ entry' = [w \in Writers |-> NoEntry]
  /\ holder' = NoOne
  /\ batch' = {}
  /\ UNCHANGED <<clock, log, written, disordered>>

(* No attempt that will be answered outlives its reservation; one that was
   abandoned is over when its own would have lapsed. *)
Outlasts(a) == Reserved(a) /\ clock + 1 - attempt[a].in >= Lapse

Tick ==
  /\ clock < Moments
  /\ \A a \in Attempts : Outlasts(a) => attempt[a].stage = "abandoned"
  /\ clock' = clock + 1
  /\ attempt' = [a \in Attempts |->
                  IF Outlasts(a) THEN Idle ELSE attempt[a]]
  /\ UNCHANGED <<log, written, holder, entry, batch, disordered, unrecorded>>

Init ==
  /\ LogInit
  /\ attempt = [a \in Attempts |-> Idle]
  /\ unrecorded = <<>>

Logging ==
  /\ \/ \E w \in Writers : Link(w) \/ Lose(w)
     \/ SweepBatch
     \/ SweepDelete
  /\ UNCHANGED <<attempt, unrecorded>>

Next ==
  \/ \E a \in Attempts :
       \/ ReadClearing(a) \/ Count(a) \/ Decide(a) \/ LetInUnread(a)
       \/ TurnAway(a) \/ Check(a) \/ Abandon(a) \/ Release(a)
  \/ \E w \in Writers : WriteEntry(w)
  \/ Logging
  \/ Unlock
  \/ Restart
  \/ Tick

Spec == Init /\ [][Next]_vars

-----------------------------------------------------------------------------
(* Those whose password is being checked or was when they were abandoned, and
   those whose failure is on its way to the log. *)
Guessing ==
  {a \in Attempts :
     \/ attempt[a].stage \in {"checking", "abandoned"}
     \/ entry[a].stage # "none" /\ entry[a].action = "sign-in.failed"}

GuessesLet(ways) ==
  Cardinality({row \in Failures(Since) : row.way \in ways})
    + Cardinality({a \in Guessing : attempt[a].way \in ways})

(* However attempts overlap and whoever's reservation is given back, the
   failures logged against an address since the question was last settled,
   with the guesses let in and not logged yet, are no more than the limit.
   Not counted, and so let in over it: a guess the guard could not read for; a
   guess of an attempt that counted before a failure was logged and looked at
   the reservations after it was given back; a guess whose failure the log
   could not be made to take (the error is swallowed); an attempt abandoned a
   Lapse ago; and the attempts under way when the process went down. *)
GuessesWithinTheLimit == GuessesLet({"counted"}) <= Limit

(* No two rows follow one: the chain does not fork, however many write. *)
NothingForks ==
  \A one, other \in log : one.after = other.after => one = other

(* A log nobody has edited does not fork and, so long as every row is later
   than the rows before it, it verifies, whatever the sweep took from it and
   wherever it was cut short: the sweep goes by the times, and the chain by
   the rows. *)
UntouchedLogVerifies == NothingForks /\ (~disordered => Intact)

(* The sweep neither locks an address nor lets one in: it takes nothing the
   lock is read from. *)
PruningDecidesNothing ==
  [][SweepDelete => Failures(Since)' = Failures(Since)]_log
=============================================================================
