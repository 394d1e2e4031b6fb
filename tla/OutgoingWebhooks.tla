-------------------------- MODULE OutgoingWebhooks --------------------------
(***************************************************************************)
(* Telling a business's own systems that a record changed                  *)
(* (modules-free/crm/src/webhooks.ts).  Changes are written to a feed; a   *)
(* job that runs every minute, in more than one process and sometimes in   *)
(* two at once, queues each fresh one for each endpoint that wants it, and *)
(* then sends whatever is due.  Each action of a sweep is one statement of *)
(* that job, and it can die between any two of them.                       *)
(*                                                                         *)
(* The times of the delivery half are kept relative to the present: due is *)
(* how far off a delivery's next try is, not positive once it has come,    *)
(* and age how long ago a sweep took the time it compares with.  A tick is *)
(* the longest one attempt may take, and only attempts take time: what a   *)
(* sweep does between two of them is done between two ticks.               *)
(***************************************************************************)
EXTENDS Integers, Sequences, FiniteSets

CONSTANTS
  Events,         \* rows the feed of changes may get
  Hooks,          \* endpoints the business may add
  Wants,          \* the events of the entities each endpoint asks for
  Sweeps,         \* runs of the job that may overlap
  NoHook,
  NoDelivery,
  FanOutLimit,    \* FAN_OUT_LIMIT
  SweepLimit,     \* SWEEP_LIMIT
  Lease,          \* CLAIM_MS, in ticks
  Retry           \* RETRY_MINUTES, in ticks

Deliveries == Hooks \X Events

ASSUME NamesAssumption ==
  /\ IsFiniteSet(Hooks) /\ IsFiniteSet(Events)
  /\ NoHook \notin Hooks
  /\ NoDelivery \notin Deliveries
  /\ Wants \in [Hooks -> SUBSET Events]
ASSUME LimitsAssumption ==
  /\ FanOutLimit \in Nat \ {0} /\ SweepLimit \in Nat \ {0}
  /\ Lease \in Nat \ {0}
  /\ Retry \in Seq(Nat \ {0})

VARIABLES
  instant,   \* the database's clock, as far as the feed can tell
  at,        \* recordEvents.at; 0 before the change is made
  feed,      \* the events that are committed
  late,      \* those that were committed after one with a later stamp
  hook,      \* the endpoint's row, and whether its history is gone too
  bornAt,    \* where its cursor began
  cursorAt,  \* crmWebhooks.cursorAt
  status,    \* crmWebhookDeliveries.status, or that there is no row
  attempts,  \* .attempts
  due,       \* .nextAttemptAt; 0 in a row that is settled, where none reads it
  job,       \* the minute's job is still to be run
  pc,        \* where each sweep is
  todo,      \* the endpoints fanOutDue has still to take events for
  batch,     \* the events it has read for one of them
  listed,    \* the due deliveries deliverDue has still to send
  tried,     \* the attempts those it has yet to settle had when they were read
  sending,   \* the delivery it is waiting on
  waited,    \* that wait has lasted a tick
  age,       \* how old deliverDue's `now` is
  overrun    \* the deliveries in hand that an attempt outlived its lease at

feedVars == <<instant, at, feed, late>>
hookVars == <<hook, bornAt, cursorAt>>
rows == <<status, attempts, due>>
fanVars == <<todo, batch>>
sendVars == <<listed, tried, sending, waited, age, overrun>>
vars == <<feedVars, hookVars, rows, pc, fanVars, sendVars, job>>

NoBatch == [hook |-> NoHook, events |-> {}]

TypeOK ==
  /\ instant \in Nat
  /\ at \in [Events -> Nat]
  /\ late \subseteq feed /\ feed \subseteq Events
  /\ hook \in [Hooks -> {"none", "live", "deleted", "gone"}]
  /\ bornAt \in [Hooks -> Nat] /\ cursorAt \in [Hooks -> Nat]
  /\ status \in [Deliveries -> {"absent", "pending", "delivered", "abandoned"}]
  /\ attempts \in [Deliveries -> 0 .. Len(Retry) + 1]
  /\ due \in [Deliveries -> Int]
  /\ job \in [Sweeps -> BOOLEAN]
  /\ pc \in [Sweeps -> {"idle", "fanning", "queueing", "moving", "listing",
                        "claiming", "sending"}]
  /\ todo \in [Sweeps -> SUBSET [hook : Hooks, cursor : Nat]]
  /\ batch \in [Sweeps -> [hook : Hooks \cup {NoHook}, events : SUBSET Events]]
  /\ listed \in [Sweeps -> SUBSET Deliveries]
  /\ tried \in [Sweeps -> [Deliveries -> 0 .. Len(Retry) + 1]]
  /\ sending \in [Sweeps -> Deliveries \cup {NoDelivery}]
  /\ waited \in [Sweeps -> BOOLEAN]
  /\ age \in [Sweeps -> 0 .. SweepLimit]
  /\ overrun \subseteq Deliveries

(* A row that an UPDATE by its id finds: one queued after the endpoint's
   history was deleted is another row. *)
HasRow(d) == status[d] # "absent" /\ hook[d[1]] # "gone"

(* Mutant: the feed is read from after the cursor, not from it. *)
FreshAfter(read) ==
  {e \in feed \cap Wants[read.hook] :
     at[e] > read.cursor /\ status[<<read.hook, e>>] = "absent"}

(* What one read of the feed may take for an endpoint. *)
Fresh(read) ==
  {e \in feed \cap Wants[read.hook] :
     at[e] >= read.cursor /\ status[<<read.hook, e>>] = "absent"}

(* S is the first n of T, or all of it, by when. *)
FirstOf(S, T, n, when) ==
  /\ S \subseteq T
  /\ Cardinality(S) <= n
  /\ S = T \/ Cardinality(S) = n
  /\ \A x \in S, y \in T \ S : when[x] <= when[y]

-----------------------------------------------------------------------------
(* The feed.  The row is stamped by the database when its statement begins
   and seen when that commits, so one stamped earlier may be seen later; the
   changes of an import share an instant. *)
Change(e) ==
  /\ at[e] = 0
  /\ instant' \in {instant, instant + 1} \ {0}
  /\ at' = [at EXCEPT ![e] = instant']
  /\ UNCHANGED <<feed, late, hookVars, rows, pc, fanVars, sendVars, job>>

Commit(e) ==
  /\ at[e] > 0 /\ e \notin feed
  /\ feed' = feed \cup {e}
  /\ late' = IF \E f \in feed : at[f] > at[e] THEN late \cup {e} ELSE late
  /\ UNCHANGED <<instant, at, hookVars, rows, pc, fanVars, sendVars, job>>

(* The screens: an endpoint is told of what happens from now on, and deleted
   with its history in two statements. *)
AddHook(h) ==
  /\ hook[h] = "none"
  /\ instant' = instant + 1
  /\ hook' = [hook EXCEPT ![h] = "live"]
  /\ bornAt' = [bornAt EXCEPT ![h] = instant']
  /\ cursorAt' = [cursorAt EXCEPT ![h] = instant']
  /\ UNCHANGED <<at, feed, late, rows, pc, fanVars, sendVars, job>>

DeleteHook(h) ==
  /\ hook[h] = "live"
  /\ hook' = [hook EXCEPT ![h] = "deleted"]
  /\ UNCHANGED <<feedVars, bornAt, cursorAt, rows, pc, fanVars, sendVars,
                 job>>

DeleteHistory(h) ==
  /\ hook[h] = "deleted"
  /\ hook' = [hook EXCEPT ![h] = "gone"]
  /\ status' = [d \in Deliveries |-> IF d[1] = h THEN "absent" ELSE status[d]]
  /\ attempts' = [d \in Deliveries |-> IF d[1] = h THEN 0 ELSE attempts[d]]
  /\ due' = [d \in Deliveries |-> IF d[1] = h THEN 0 ELSE due[d]]
  /\ UNCHANGED <<feedVars, bornAt, cursorAt, pc, fanVars, sendVars, job>>

-----------------------------------------------------------------------------
(* fanOutDue *)
Start(s) ==
  /\ pc[s] = "idle" /\ job[s]
  /\ job' = [job EXCEPT ![s] = FALSE]
  /\ pc' = [pc EXCEPT ![s] = "fanning"]
  /\ todo' = [todo EXCEPT ![s] =
       {[hook |-> h, cursor |-> cursorAt[h]] :
          h \in {k \in Hooks : hook[k] = "live" /\ Wants[k] # {}}}]
  /\ UNCHANGED <<feedVars, hookVars, rows, batch, sendVars>>

ReadFeed(s, read) ==
  /\ pc[s] = "fanning" /\ read \in todo[s]
  /\ todo' = [todo EXCEPT ![s] = @ \ {read}]
  /\ \E events \in SUBSET Fresh(read) :
       /\ FirstOf(events, Fresh(read), FanOutLimit, at)
       /\ IF events = {}
          THEN UNCHANGED <<pc, batch>>
          ELSE /\ pc' = [pc EXCEPT ![s] = "queueing"]
               /\ batch' = [batch EXCEPT ![s] =
                    [hook |-> read.hook, events |-> events]]
  /\ UNCHANGED <<feedVars, hookVars, rows, sendVars, job>>

(* The event is somebody's already: the unique pair refuses a second row. *)
Queued(s) ==
  {d \in Deliveries : /\ d[1] = batch[s].hook /\ d[2] \in batch[s].events
                      /\ status[d] = "absent"}

Queue(s) ==
  /\ pc[s] = "queueing"
  /\ status' = [d \in Deliveries |->
       IF d \in Queued(s) THEN "pending" ELSE status[d]]
  /\ attempts' = [d \in Deliveries |->
       IF d \in Queued(s) THEN 0 ELSE attempts[d]]
  /\ due' = [d \in Deliveries |-> IF d \in Queued(s) THEN 0 ELSE due[d]]
  /\ pc' = [pc EXCEPT ![s] = "moving"]
  /\ UNCHANGED <<feedVars, hookVars, fanVars, sendVars, job>>

(* Mutant: the cursor is moved past what was queued. *)
MovePast(s) ==
  /\ pc[s] = "moving"
  /\ \E e \in batch[s].events :
       /\ \A f \in batch[s].events : at[f] <= at[e]
       /\ cursorAt' = [cursorAt EXCEPT ![batch[s].hook] =
            IF hook[batch[s].hook] = "live" THEN at[e] + 1 ELSE @]
  /\ pc' = [pc EXCEPT ![s] = "fanning"]
  /\ batch' = [batch EXCEPT ![s] = NoBatch]
  /\ UNCHANGED <<feedVars, hook, bornAt, rows, todo, sendVars, job>>

MoveCursor(s) ==
  /\ pc[s] = "moving"
  /\ \E e \in batch[s].events :
       /\ \A f \in batch[s].events : at[f] <= at[e]
       /\ cursorAt' = [cursorAt EXCEPT ![batch[s].hook] =
            IF hook[batch[s].hook] = "live" THEN at[e] ELSE @]
  /\ pc' = [pc EXCEPT ![s] = "fanning"]
  /\ batch' = [batch EXCEPT ![s] = NoBatch]
  /\ UNCHANGED <<feedVars, hook, bornAt, rows, todo, sendVars, job>>

-----------------------------------------------------------------------------
(* deliverDue *)

(* nextAttemptAt <= now, for a sweep that took its `now` some time ago. *)
Due(d, since) == status[d] = "pending" /\ due[d] <= -since

(* The oldest of what is due for an endpoint that is still there. *)
ReadDue(s) ==
  /\ pc[s] = "fanning" /\ todo[s] = {}
  /\ pc' = [pc EXCEPT ![s] = "claiming"]
  /\ LET ready == {d \in Deliveries : Due(d, 0) /\ hook[d[1]] = "live"}
     IN  \E some \in SUBSET ready :
           /\ FirstOf(some, ready, SweepLimit, due)
           /\ listed' = [listed EXCEPT ![s] = some]
           /\ tried' = [tried EXCEPT ![s] =
                [d \in Deliveries |-> IF d \in some THEN attempts[d] ELSE 0]]
  /\ UNCHANGED <<feedVars, hookVars, rows, fanVars, sending, waited, age,
                 overrun, job>>

(* An attempt is still going when its lease is up: from then on, and until
   nobody has the delivery in hand, others may send it too. *)
NoteOverruns ==
  overrun' = {d \in Deliveries : \E s \in Sweeps :
                sending'[s] = d /\ (age'[s] >= Lease \/ d \in overrun)}

(* Mutant: a delivery is claimed as it was read, due or not. *)
ClaimUnchecked(s, d) ==
  /\ pc[s] = "claiming" /\ d \in listed[s]
  /\ listed' = [listed EXCEPT ![s] = @ \ {d}]
  /\ IF HasRow(d)
     THEN /\ due' = [due EXCEPT ![d] = Lease - age[s]]
          /\ pc' = [pc EXCEPT ![s] = "sending"]
          /\ sending' = [sending EXCEPT ![s] = d]
     ELSE UNCHANGED <<due, pc, sending>>
  /\ tried' = IF sending'[s] = d THEN tried ELSE [tried EXCEPT ![s][d] = 0]
  /\ UNCHANGED <<feedVars, hookVars, status, attempts, fanVars, waited,
                 age, job>>
  /\ NoteOverruns

(* The lease is counted, like everything here, from the sweep's own `now`. *)
Claim(s, d) ==
  /\ pc[s] = "claiming" /\ d \in listed[s]
  /\ listed' = [listed EXCEPT ![s] = @ \ {d}]
  /\ IF HasRow(d) /\ Due(d, age[s])
     THEN /\ due' = [due EXCEPT ![d] = Lease - age[s]]
          /\ pc' = [pc EXCEPT ![s] = "sending"]
          /\ sending' = [sending EXCEPT ![s] = d]
     ELSE UNCHANGED <<due, pc, sending>>
  /\ tried' = IF sending'[s] = d THEN tried ELSE [tried EXCEPT ![s][d] = 0]
  /\ UNCHANGED <<feedVars, hookVars, status, attempts, fanVars, waited,
                 age, job>>
  /\ NoteOverruns

(* What was sent, or could not be, is written by the row's id alone. *)
Sent(s) ==
  /\ pc[s] = "sending"
  /\ pc' = [pc EXCEPT ![s] = "claiming"]
  /\ sending' = [sending EXCEPT ![s] = NoDelivery]
  /\ waited' = [waited EXCEPT ![s] = FALSE]
  /\ tried' = [tried EXCEPT ![s][sending[s]] = 0]
  /\ UNCHANGED <<feedVars, hookVars, fanVars, listed, age, job>>
  /\ NoteOverruns

Delivered(s) ==
  /\ Sent(s)
  /\ LET d == sending[s]
     IN  IF HasRow(d)
         THEN /\ status' = [status EXCEPT ![d] = "delivered"]
              /\ attempts' = [attempts EXCEPT ![d] = tried[s][d] + 1]
              /\ due' = [due EXCEPT ![d] = 0]
         ELSE UNCHANGED rows

(* Mutant: there is always another try. *)
FailedForEver(s) ==
  /\ Sent(s)
  /\ LET d == sending[s]
     IN  IF HasRow(d)
         THEN /\ attempts' = [attempts EXCEPT ![d] = tried[s][d] + 1]
              /\ due' = [due EXCEPT ![d] = Retry[1] - age[s]]
              /\ UNCHANGED status
         ELSE UNCHANGED rows

Failed(s) ==
  /\ Sent(s)
  /\ LET d == sending[s]
         tries == tried[s][d] + 1
         again == tries <= Len(Retry)
     IN  IF HasRow(d)
         THEN /\ status' = [status EXCEPT ![d] =
                   IF again THEN "pending" ELSE "abandoned"]
              /\ attempts' = [attempts EXCEPT ![d] = tries]
              /\ due' = [due EXCEPT ![d] =
                   IF again THEN Retry[tries] - age[s] ELSE 0]
         ELSE UNCHANGED rows

Leave(s) ==
  /\ pc' = [pc EXCEPT ![s] = "idle"]
  /\ todo' = [todo EXCEPT ![s] = {}]
  /\ batch' = [batch EXCEPT ![s] = NoBatch]
  /\ listed' = [listed EXCEPT ![s] = {}]
  /\ tried' = [tried EXCEPT ![s] = [d \in Deliveries |-> 0]]
  /\ sending' = [sending EXCEPT ![s] = NoDelivery]
  /\ waited' = [waited EXCEPT ![s] = FALSE]
  /\ age' = [age EXCEPT ![s] = 0]
  /\ UNCHANGED <<feedVars, hookVars, rows, job>>
  /\ NoteOverruns

Finish(s) ==
  /\ pc[s] = "claiming" /\ listed[s] = {}
  /\ Leave(s)

(* One with nothing left to do dies as it finishes. *)
Crash(s) ==
  /\ pc[s] # "idle" /\ ~(pc[s] = "claiming" /\ listed[s] = {})
  /\ Leave(s)

-----------------------------------------------------------------------------
(* No sweep is older when it claims, so nothing tells one due time before
   that from another. *)
Earlier(n) == IF n > 1 - SweepLimit THEN n - 1 ELSE n

Tick ==
  /\ \A s \in Sweeps : pc[s] = "idle" \/ (pc[s] = "sending" /\ ~waited[s])
  /\ due' = [d \in Deliveries |->
       IF status[d] = "pending" THEN Earlier(due[d]) ELSE due[d]]
  /\ age' = [s \in Sweeps |-> IF pc[s] = "sending" THEN age[s] + 1 ELSE 0]
  /\ waited' = [s \in Sweeps |-> pc[s] = "sending"]
  /\ job' = [s \in Sweeps |-> TRUE]
  /\ UNCHANGED <<feedVars, hookVars, status, attempts, pc, fanVars, listed,
                 tried, sending>>
  /\ NoteOverruns

-----------------------------------------------------------------------------
Init ==
  /\ instant = 0
  /\ at = [e \in Events |-> 0]
  /\ feed = {} /\ late = {}
  /\ hook = [h \in Hooks |-> "none"]
  /\ bornAt = [h \in Hooks |-> 0] /\ cursorAt = [h \in Hooks |-> 0]
  /\ status = [d \in Deliveries |-> "absent"]
  /\ attempts = [d \in Deliveries |-> 0]
  /\ due = [d \in Deliveries |-> 0]
  /\ job = [s \in Sweeps |-> TRUE]
  /\ pc = [s \in Sweeps |-> "idle"]
  /\ todo = [s \in Sweeps |-> {}]
  /\ batch = [s \in Sweeps |-> NoBatch]
  /\ listed = [s \in Sweeps |-> {}]
  /\ tried = [s \in Sweeps |-> [d \in Deliveries |-> 0]]
  /\ sending = [s \in Sweeps |-> NoDelivery]
  /\ waited = [s \in Sweeps |-> FALSE]
  /\ age = [s \in Sweeps |-> 0]
  /\ overrun = {}

Step(s) ==
  \/ Start(s) \/ Queue(s) \/ MoveCursor(s) \/ ReadDue(s)
  \/ \E read \in todo[s] : ReadFeed(s, read)
  \/ \E d \in listed[s] : Claim(s, d)
  \/ Delivered(s) \/ Failed(s) \/ Finish(s)

Next ==
  \/ \E e \in Events : Change(e) \/ Commit(e)
  \/ \E h \in Hooks : AddHook(h) \/ DeleteHook(h) \/ DeleteHistory(h)
  \/ \E s \in Sweeps : Step(s) \/ Crash(s)
  \/ Tick

Spec == Init /\ [][Next]_vars

(* The job runs every minute and its processes go on, or the runner starts
   the next one; time passes; the processes do not keep dying for ever.
   Nothing is assumed of the receivers, of the screens or of the changes. *)
FairSpec ==
  /\ Spec
  /\ \A s \in Sweeps : WF_vars(Step(s))
  /\ WF_vars(Tick)
  /\ <>[][\A s \in Sweeps : ~Crash(s)]_vars

-----------------------------------------------------------------------------
(* No two sweeps have one delivery in hand ("nobody else picks it up
   mid-send").  The lease is counted from the sweep's own `now`, and a page of
   slow receivers takes longer than that, so the code does not keep this. *)
OneSenderAtATime ==
  \A s, t \in Sweeps :
    sending[s] = sending[t] /\ sending[s] # NoDelivery => s = t

(* What the claim does give: two sweeps have one delivery in hand only if an
   attempt at it, since it was last in nobody's, outlived its lease. *)
OneSenderWithinTheLease ==
  \A s, t \in Sweeps :
    sending[s] = sending[t] /\ sending[s] # NoDelivery /\ s # t =>
      sending[s] \in overrun

Owed(h, e) ==
  hook[h] = "live" /\ e \in feed \cap Wants[h] /\ at[e] >= bornAt[h]

Promised(h, e) == Owed(h, e) /\ e \notin late

(* No change an endpoint should hear of is left behind its cursor, but for
   one committed after another with a later stamp: nothing looks back for it. *)
NothingPassedOver ==
  \A h \in Hooks, e \in Events :
    Promised(h, e) => at[e] >= cursorAt[h] \/ status[<<h, e>>] # "absent"

(* What each endpoint is promised of each change, and keeps. *)
Kept ==
  [d \in Deliveries |->
     CASE hook[d[1]] \in {"deleted", "gone"} -> "dropped"
       [] hook[d[1]] \in {"none", "live"} /\ status[d] = "pending" -> "queued"
       [] hook[d[1]] \in {"none", "live"} /\ status[d] = "absent" ->
            IF ~Owed(d[1], d[2]) THEN "absent"
            ELSE IF d[2] \in late THEN "late" ELSE "owed"
       [] OTHER -> status[d]]

Outbox == INSTANCE EventOutbox WITH state <- Kept, outlived <- overrun

PromiseIsKept == Outbox!Spec
=============================================================================
