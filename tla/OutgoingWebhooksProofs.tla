----------------------- MODULE OutgoingWebhooksProofs -----------------------
(***************************************************************************)
(* That a delivery has one sender until an attempt at it outlives its      *)
(* lease, that no change is left behind a cursor unless it was committed   *)
(* after one with a later stamp, and that an endpoint is told of each      *)
(* change as EventOutbox says: for every number of endpoints, changes and  *)
(* sweeps, and for leases shorter than a sweep as well as longer.          *)
(***************************************************************************)
EXTENDS OutgoingWebhooks, FiniteSetTheorems, TLAPS

(* The attempt a sweep is waiting for, until a tick has passed. *)
Waiting(s) == IF pc[s] = "sending" /\ ~waited[s] THEN 1 ELSE 0

(* What each sweep has in hand at its place in the job.  Its age and the
   attempts it has yet to make are no more than it listed. *)
InHand(s) ==
  /\ pc[s] = "sending" => sending[s] \in Deliveries
  /\ pc[s] # "sending" => sending[s] = NoDelivery /\ ~waited[s]
  /\ pc[s] \in {"queueing", "moving"} => batch[s].hook \in Hooks
  /\ pc[s] \notin {"claiming", "sending"} => age[s] = 0 /\ listed[s] = {}
  /\ Cardinality(listed[s]) + age[s] + Waiting(s) <= SweepLimit

(* A delivery that is still to be sent has a try left. *)
TriesLeft ==
  /\ \A d \in Deliveries : status[d] = "pending" => attempts[d] <= Len(Retry)
  /\ \A s \in Sweeps, d \in Deliveries : tried[s][d] <= Len(Retry)

WorkInv == TypeOK /\ TriesLeft /\ \A s \in Sweeps : InHand(s)

(* While a delivery is sent within the lease it is out of every other sweep's
   reach: it is pending, and due when its sender's lease is up. *)
Held(s) ==
  pc[s] = "sending" /\ sending[s] \notin overrun =>
    /\ age[s] < Lease
    /\ hook[sending[s][1]] # "gone" =>
         /\ status[sending[s]] = "pending"
         /\ due[sending[s]] = Lease - age[s]

LeaseInv == OneSenderWithinTheLease /\ \A s \in Sweeps : Held(s)

(* What is stamped is stamped by now, and only what is seen is queued. *)
FeedInv ==
  /\ \A e \in Events : at[e] <= instant /\ (e \in feed => at[e] > 0)
  /\ \A d \in Deliveries : status[d] # "absent" => d[2] \in feed

(* All that endpoint h is promised from before c is queued. *)
NothingBehind(h, c) ==
  \A e \in Events :
    Promised(h, e) /\ at[e] < c => status[<<h, e>>] # "absent"

(* A place in the feed to read from: where the endpoint began, or a change
   that is seen, with nothing promised from before it. *)
Place(h, c) ==
  /\ hook[h] # "none"
  /\ bornAt[h] <= c
  /\ c = bornAt[h] \/ \E f \in feed : c = at[f]
  /\ NothingBehind(h, c)

(* What a sweep has taken off the feed for an endpoint: only what the
   endpoint is owed, and nothing promised is skipped that is older. *)
Taken(h, events) ==
  /\ hook[h] # "none"
  /\ events \subseteq feed \cap Wants[h]
  /\ \A e \in events : bornAt[h] <= at[e]
  /\ \A e \in Events \ events, b \in events :
       Promised(h, e) /\ at[e] < at[b] => status[<<h, e>>] # "absent"

AllQueued(h, events) ==
  hook[h] = "live" => \A e \in events : status[<<h, e>>] # "absent"

(* What a sweep goes by in fanOutDue. *)
GoesBy(s) ==
  /\ \A read \in todo[s] : Place(read.hook, read.cursor)
  /\ pc[s] \in {"queueing", "moving"} =>
       Taken(batch[s].hook, batch[s].events)
  /\ pc[s] = "moving" => AllQueued(batch[s].hook, batch[s].events)

CursorInv ==
  /\ \A h \in Hooks : hook[h] # "none" => Place(h, cursorAt[h])
  /\ \A s \in Sweeps : GoesBy(s)

-----------------------------------------------------------------------------
LEMMA DeliveriesFinite == IsFiniteSet(Deliveries)
BY FS_Product, NamesAssumption DEF Deliveries

LEMMA ListedCounts ==
  ASSUME TypeOK, NEW s \in Sweeps
  PROVE  IsFiniteSet(listed[s]) /\ Cardinality(listed[s]) \in Nat
<1>1. listed[s] \subseteq Deliveries
  BY DEF TypeOK
<1>2. IsFiniteSet(listed[s])
  BY <1>1, DeliveriesFinite, FS_Subset, Zenon
<1> QED
  BY <1>2, FS_CardinalityType

LEMMA WorkInit == Init => WorkInv
<1> SUFFICES ASSUME Init PROVE WorkInv
  OBVIOUS
<1>1. 0 \in 0 .. Len(Retry) + 1 /\ 0 \in 0 .. SweepLimit /\ Len(Retry) \in Nat
  BY LimitsAssumption
<1>2. NoBatch \in [hook : Hooks \cup {NoHook}, events : SUBSET Events]
  BY DEF NoBatch
<1>3. TypeOK
  BY <1>1, <1>2 DEF Init, TypeOK
<1>4. TriesLeft
  BY <1>1 DEF Init, TriesLeft
<1>5. ASSUME NEW s \in Sweeps PROVE InHand(s)
  BY <1>1, FS_EmptySet, LimitsAssumption DEF Init, InHand, Waiting
<1> QED
  BY <1>3, <1>4, <1>5 DEF WorkInv

(* What every step of the sweeps, the screens and the clock keeps. *)
(* A sweep forgets the attempts of a delivery it has settled or passed by. *)
LEMMA TriedForgets ==
  ASSUME WorkInv, NEW s \in Sweeps, NEW d \in Deliveries,
         tried' = tried \/ tried' = [tried EXCEPT ![s][d] = 0]
  PROVE  /\ tried' \in [Sweeps -> [Deliveries -> 0 .. Len(Retry) + 1]]
         /\ \A t \in Sweeps, e \in Deliveries : tried'[t][e] <= Len(Retry)
<1>1. /\ tried \in [Sweeps -> [Deliveries -> 0 .. Len(Retry) + 1]]
      /\ \A t \in Sweeps, e \in Deliveries : tried[t][e] <= Len(Retry)
      /\ Len(Retry) \in Nat
  BY LimitsAssumption DEF WorkInv, TypeOK, TriesLeft
<1>2. CASE tried' = tried
  BY <1>1, <1>2
<1>3. CASE tried' = [tried EXCEPT ![s][d] = 0]
  <2>1. PICK row : row = [tried[s] EXCEPT ![d] = 0]
    OBVIOUS
  <2>2. tried' = [tried EXCEPT ![s] = row]
    BY <1>3, <2>1
  <2>3. /\ row \in [Deliveries -> 0 .. Len(Retry) + 1]
        /\ \A e \in Deliveries : row[e] <= Len(Retry)
    BY <1>1, <2>1
  <2> QED
    BY <1>1, <2>2, <2>3
<1> QED
  BY <1>2, <1>3

LEMMA TypeStep == WorkInv /\ [Next]_vars => TypeOK'
<1> SUFFICES ASSUME WorkInv, [Next]_vars PROVE TypeOK'
  OBVIOUS
<1> USE LimitsAssumption
<1>1. TypeOK /\ Len(Retry) \in Nat
  BY DEF WorkInv
<1>2. ASSUME NEW e \in Events, Change(e) PROVE TypeOK'
  BY <1>1, <1>2 DEF Change, TypeOK, hookVars, rows, fanVars, sendVars
<1>3. ASSUME NEW e \in Events, Commit(e) PROVE TypeOK'
  BY <1>1, <1>3 DEF Commit, TypeOK, hookVars, rows, fanVars, sendVars
<1>4. ASSUME NEW h \in Hooks, AddHook(h) PROVE TypeOK'
  BY <1>1, <1>4 DEF AddHook, TypeOK, rows, fanVars, sendVars
<1>5. ASSUME NEW h \in Hooks, DeleteHook(h) PROVE TypeOK'
  BY <1>1, <1>5 DEF DeleteHook, TypeOK, feedVars, rows, fanVars, sendVars
<1>6. ASSUME NEW h \in Hooks, DeleteHistory(h) PROVE TypeOK'
  <2>1. status' \in [Deliveries -> {"absent", "pending", "delivered", "abandoned"}]
    BY <1>1, <1>6 DEF DeleteHistory, TypeOK
  <2>2. attempts' \in [Deliveries -> 0 .. Len(Retry) + 1]
    BY <1>1, <1>6 DEF DeleteHistory, TypeOK
  <2>3. due' \in [Deliveries -> Int]
    BY <1>1, <1>6 DEF DeleteHistory, TypeOK
  <2> QED
    BY <1>1, <1>6, <2>1, <2>2, <2>3
    DEF DeleteHistory, TypeOK, feedVars, fanVars, sendVars
<1>7. ASSUME NEW s \in Sweeps, Start(s) PROVE TypeOK'
  <2>1. todo' \in [Sweeps -> SUBSET [hook : Hooks, cursor : Nat]]
    BY <1>1, <1>7 DEF Start, TypeOK
  <2> QED
    BY <1>1, <1>7, <2>1 DEF Start, TypeOK, feedVars, hookVars, rows, sendVars
<1>8. ASSUME NEW s \in Sweeps, NEW read \in todo[s], ReadFeed(s, read)
      PROVE  TypeOK'
  <2>1. read \in [hook : Hooks, cursor : Nat]
    BY <1>1 DEF TypeOK
  <2>2. todo' \in [Sweeps -> SUBSET [hook : Hooks, cursor : Nat]]
    BY <1>1, <1>8 DEF ReadFeed, TypeOK
  <2>3. PICK events \in SUBSET Fresh(read) :
          IF events = {} THEN UNCHANGED <<pc, batch>>
          ELSE /\ pc' = [pc EXCEPT ![s] = "queueing"]
               /\ batch' = [batch EXCEPT ![s] =
                    [hook |-> read.hook, events |-> events]]
    BY <1>8 DEF ReadFeed
  <2>4. [hook |-> read.hook, events |-> events]
          \in [hook : Hooks \cup {NoHook}, events : SUBSET Events]
    BY <1>1, <2>1 DEF Fresh, TypeOK
  <2>5. pc' \in [Sweeps -> {"idle", "fanning", "queueing", "moving", "listing",
                            "claiming", "sending"}]
    BY <1>1, <2>3 DEF TypeOK
  <2>6. batch' \in [Sweeps -> [hook : Hooks \cup {NoHook}, events : SUBSET Events]]
    BY <1>1, <2>3, <2>4 DEF TypeOK
  <2> QED
    BY <1>1, <1>8, <2>2, <2>5, <2>6
    DEF ReadFeed, TypeOK, feedVars, hookVars, rows, sendVars
<1>9. ASSUME NEW s \in Sweeps, Queue(s) PROVE TypeOK'
  <2>1. status' \in [Deliveries -> {"absent", "pending", "delivered", "abandoned"}]
    BY <1>1, <1>9 DEF Queue, TypeOK
  <2>2. attempts' \in [Deliveries -> 0 .. Len(Retry) + 1]
    BY <1>1, <1>9 DEF Queue, TypeOK
  <2>3. due' \in [Deliveries -> Int]
    BY <1>1, <1>9 DEF Queue, TypeOK
  <2> QED
    BY <1>1, <1>9, <2>1, <2>2, <2>3
    DEF Queue, TypeOK, feedVars, hookVars, fanVars, sendVars
<1>10. ASSUME NEW s \in Sweeps, MoveCursor(s) PROVE TypeOK'
  <2>1. batch[s].hook \in Hooks /\ batch[s].events \subseteq Events
    BY <1>1, <1>10 DEF MoveCursor, WorkInv, InHand, TypeOK
  <2>2. cursorAt' \in [Hooks -> Nat]
    BY <1>1, <1>10, <2>1 DEF MoveCursor, TypeOK
  <2>3. NoBatch \in [hook : Hooks \cup {NoHook}, events : SUBSET Events]
    BY DEF NoBatch
  <2>4. batch' \in [Sweeps -> [hook : Hooks \cup {NoHook}, events : SUBSET Events]]
    BY <1>1, <1>10, <2>3 DEF MoveCursor, TypeOK
  <2> QED
    BY <1>1, <1>10, <2>2, <2>4 DEF MoveCursor, TypeOK, feedVars, rows, sendVars
<1>11. ASSUME NEW s \in Sweeps, ReadDue(s) PROVE TypeOK'
  <2>1. listed' \in [Sweeps -> SUBSET Deliveries]
    BY <1>1, <1>11 DEF ReadDue, TypeOK
  <2>2. tried' \in [Sweeps -> [Deliveries -> 0 .. Len(Retry) + 1]]
    <3>1. PICK some : tried' = [tried EXCEPT ![s] =
            [d \in Deliveries |-> IF d \in some THEN attempts[d] ELSE 0]]
      BY <1>11 DEF ReadDue
    <3>2. [d \in Deliveries |-> IF d \in some THEN attempts[d] ELSE 0]
            \in [Deliveries -> 0 .. Len(Retry) + 1]
      BY <1>1 DEF TypeOK
    <3> QED
      BY <1>1, <3>1, <3>2 DEF TypeOK
  <2> QED
    BY <1>1, <1>11, <2>1, <2>2
    DEF ReadDue, TypeOK, feedVars, hookVars, rows, fanVars
<1>12. ASSUME NEW s \in Sweeps, NEW d \in listed[s], Claim(s, d) PROVE TypeOK'
  <2>1. d \in Deliveries
    BY <1>1 DEF TypeOK
  <2>2. due' \in [Deliveries -> Int]
    <3>1. Lease - age[s] \in Int
      BY <1>1 DEF TypeOK
    <3> QED
      BY <1>1, <1>12, <3>1 DEF Claim, TypeOK
  <2>3. /\ listed' \in [Sweeps -> SUBSET Deliveries]
        /\ sending' \in [Sweeps -> Deliveries \cup {NoDelivery}]
    BY <1>1, <1>12, <2>1 DEF Claim, TypeOK
  <2>4. pc' \in [Sweeps -> {"idle", "fanning", "queueing", "moving", "listing",
                            "claiming", "sending"}]
    <3>1. pc' = pc \/ pc' = [pc EXCEPT ![s] = "sending"]
      BY <1>12 DEF Claim
    <3> QED
      BY <1>1, <3>1 DEF TypeOK
  <2>5. UNCHANGED <<feedVars, hookVars, status, attempts, fanVars, waited, age, job>>
    BY <1>12 DEF Claim
  <2>6. tried' \in [Sweeps -> [Deliveries -> 0 .. Len(Retry) + 1]]
    <3>1. d \in Deliveries /\ (tried' = tried \/ tried' = [tried EXCEPT ![s][d] = 0])
      BY <1>1, <1>12 DEF Claim, TypeOK
    <3> QED
      BY <3>1, TriedForgets
  <2>7. overrun' \subseteq Deliveries
    BY <1>12 DEF Claim, NoteOverruns
  <2> QED
    BY <1>1, <2>2, <2>3, <2>4, <2>5, <2>7, <2>6 DEF TypeOK, feedVars, hookVars, fanVars
<1>13. ASSUME NEW s \in Sweeps, Delivered(s) \/ Failed(s) PROVE TypeOK'
  <2>1. /\ sending[s] \in Deliveries
        /\ tried[s][sending[s]] \in 0 .. Len(Retry)
    BY <1>1, <1>13
    DEF Delivered, Failed, Sent, WorkInv, InHand, TriesLeft, TypeOK
  <2>2. tried[s][sending[s]] + 1 \in 1 .. Len(Retry) + 1
    BY <1>1, <2>1
  <2>3. status' \in [Deliveries -> {"absent", "pending", "delivered", "abandoned"}]
    BY <1>1, <1>13 DEF Delivered, Failed, rows, TypeOK
  <2>4. attempts' \in [Deliveries -> 0 .. Len(Retry) + 1]
    <3>1. tried[s][sending[s]] + 1 \in 0 .. Len(Retry) + 1
      BY <1>1, <2>2
    <3> QED
      BY <1>1, <1>13, <3>1 DEF Delivered, Failed, rows, TypeOK
  <2>5. due' \in [Deliveries -> Int]
    <3>1. tried[s][sending[s]] + 1 <= Len(Retry) =>
            Retry[tried[s][sending[s]] + 1] - age[s] \in Int
      BY <1>1, <2>2 DEF TypeOK
    <3> QED
      BY <1>1, <1>13, <3>1 DEF Delivered, Failed, rows, TypeOK
  <2>6. /\ pc' \in [Sweeps -> {"idle", "fanning", "queueing", "moving",
                               "listing", "claiming", "sending"}]
        /\ sending' \in [Sweeps -> Deliveries \cup {NoDelivery}]
    BY <1>1, <1>13 DEF Delivered, Failed, Sent, TypeOK
  <2>7. waited' \in [Sweeps -> BOOLEAN]
    BY <1>1, <1>13 DEF Delivered, Failed, Sent, TypeOK
  <2>8. UNCHANGED <<feedVars, hookVars, fanVars, listed, age, job>>
    BY <1>13 DEF Delivered, Failed, Sent
  <2>9. tried' \in [Sweeps -> [Deliveries -> 0 .. Len(Retry) + 1]]
    <3>1. tried' = [tried EXCEPT ![s][sending[s]] = 0]
      BY <1>13 DEF Delivered, Failed, Sent
    <3> QED
      BY <2>1, <3>1, TriedForgets
  <2>10. overrun' \subseteq Deliveries
    BY <1>13 DEF Delivered, Failed, Sent, NoteOverruns
  <2> QED
    BY <1>1, <2>3, <2>4, <2>5, <2>6, <2>7, <2>8, <2>10, <2>9
    DEF TypeOK, feedVars, hookVars, fanVars
<1>14. ASSUME NEW s \in Sweeps, Leave(s) PROVE TypeOK'
  <2>1. /\ NoBatch \in [hook : Hooks \cup {NoHook}, events : SUBSET Events]
        /\ [d \in Deliveries |-> 0] \in [Deliveries -> 0 .. Len(Retry) + 1]
        /\ 0 \in 0 .. SweepLimit
    BY <1>1 DEF NoBatch
  <2>2. /\ batch' \in [Sweeps -> [hook : Hooks \cup {NoHook}, events : SUBSET Events]]
        /\ tried' \in [Sweeps -> [Deliveries -> 0 .. Len(Retry) + 1]]
        /\ age' \in [Sweeps -> 0 .. SweepLimit]
    BY <1>1, <1>14, <2>1 DEF Leave, TypeOK
  <2>3. /\ pc' \in [Sweeps -> {"idle", "fanning", "queueing", "moving",
                               "listing", "claiming", "sending"}]
        /\ todo' \in [Sweeps -> SUBSET [hook : Hooks, cursor : Nat]]
        /\ listed' \in [Sweeps -> SUBSET Deliveries]
        /\ sending' \in [Sweeps -> Deliveries \cup {NoDelivery}]
    BY <1>1, <1>14 DEF Leave, TypeOK
  <2>4. waited' \in [Sweeps -> BOOLEAN]
    BY <1>1, <1>14 DEF Leave, TypeOK
  <2>5. overrun' \subseteq Deliveries
    BY <1>14 DEF Leave, NoteOverruns
  <2>6. UNCHANGED <<feedVars, hookVars, rows, job>>
    BY <1>14 DEF Leave
  <2> QED
    BY <1>1, <2>2, <2>3, <2>4, <2>5, <2>6 DEF TypeOK, feedVars, hookVars, rows
<1>15. ASSUME Tick PROVE TypeOK'
  <2>1. due' \in [Deliveries -> Int]
    BY <1>1, <1>15 DEF Tick, Earlier, TypeOK
  <2>2. age' \in [Sweeps -> 0 .. SweepLimit]
    <3>1. ASSUME NEW s \in Sweeps, pc[s] = "sending"
          PROVE  age[s] + 1 \in 0 .. SweepLimit
      <4>1. Waiting(s) = 1
        BY <1>15, <3>1 DEF Tick, Waiting
      <4>2. Cardinality(listed[s]) + age[s] + 1 <= SweepLimit
        BY <4>1 DEF WorkInv, InHand
      <4> QED
        BY <1>1, <4>2, ListedCounts DEF TypeOK
    <3>2. 0 \in 0 .. SweepLimit
      OBVIOUS
    <3> QED
      BY <1>1, <1>15, <3>1, <3>2 DEF Tick, TypeOK
  <2>3. waited' \in [Sweeps -> BOOLEAN] /\ job' \in [Sweeps -> BOOLEAN]
    BY <1>15 DEF Tick
  <2>4. overrun' \subseteq Deliveries
    BY <1>15 DEF Tick, NoteOverruns
  <2>5. UNCHANGED <<feedVars, hookVars, status, attempts, pc, fanVars, listed,
                    tried, sending>>
    BY <1>15 DEF Tick
  <2> QED
    BY <1>1, <2>1, <2>2, <2>3, <2>4, <2>5
    DEF TypeOK, feedVars, hookVars, fanVars
<1>16. CASE UNCHANGED vars
  BY <1>1, <1>16 DEF TypeOK, vars, feedVars, hookVars, rows, fanVars, sendVars
<1> QED
  BY <1>2, <1>3, <1>4, <1>5, <1>6, <1>7, <1>8, <1>9, <1>10, <1>11, <1>12, <1>13,
     <1>14, <1>15, <1>16
  DEF Next, Step, Finish, Crash

(* A sweep keeps what it has in hand while nothing of its own is touched. *)
LEMMA InHandUntouched ==
  ASSUME NEW s \in Sweeps, InHand(s),
         pc'[s] = pc[s], sending'[s] = sending[s], waited'[s] = waited[s],
         batch'[s] = batch[s], listed'[s] = listed[s], age'[s] = age[s]
  PROVE  InHand(s)'
BY DEF InHand, Waiting

(* Each step leaves every sweep with what it should have in hand. *)
LEMMA InHandStep ==
  WorkInv /\ [Next]_vars => \A s \in Sweeps : InHand(s)'
<1> SUFFICES ASSUME WorkInv, [Next]_vars, NEW t \in Sweeps PROVE InHand(t)'
  OBVIOUS
<1> USE LimitsAssumption
<1>1. TypeOK /\ InHand(t)
  BY DEF WorkInv
<1>2. ASSUME UNCHANGED <<pc, sending, waited, batch, listed, age>>
      PROVE  InHand(t)'
  BY <1>1, <1>2, InHandUntouched
<1>3. ASSUME NEW s \in Sweeps, Start(s) PROVE InHand(t)'
  <2>1. CASE t # s
    BY <1>1, <1>3, <2>1, InHandUntouched DEF Start, TypeOK, sendVars
  <2>2. CASE t = s
    <3>1. pc[s] = "idle" /\ pc'[s] = "fanning"
      BY <1>1, <1>3 DEF Start, TypeOK
    <3>2. UNCHANGED <<sending, waited, listed, age>>
      BY <1>3 DEF Start, sendVars
    <3> QED
      BY <1>1, <2>2, <3>1, <3>2 DEF InHand, Waiting
  <2> QED BY <2>1, <2>2
<1>4. ASSUME NEW s \in Sweeps, NEW read \in todo[s], ReadFeed(s, read)
      PROVE  InHand(t)'
  <2>1. PICK events : IF events = {} THEN UNCHANGED <<pc, batch>>
               ELSE /\ pc' = [pc EXCEPT ![s] = "queueing"]
                    /\ batch' = [batch EXCEPT ![s] =
                         [hook |-> read.hook, events |-> events]]
    BY <1>4 DEF ReadFeed
  <2>2. UNCHANGED <<sending, waited, listed, age>> /\ pc[s] = "fanning"
    BY <1>4 DEF ReadFeed, sendVars
  <2>3. CASE t # s \/ events = {}
    BY <1>1, <2>1, <2>2, <2>3, InHandUntouched DEF TypeOK
  <2>4. CASE t = s /\ events # {}
    <3>1. pc'[s] = "queueing" /\ batch'[s].hook = read.hook
      BY <1>1, <2>1, <2>4 DEF TypeOK
    <3>2. read.hook \in Hooks
      BY <1>1 DEF TypeOK
    <3> QED
      BY <1>1, <2>2, <2>4, <3>1, <3>2 DEF InHand, Waiting
  <2> QED BY <2>3, <2>4
<1>5. ASSUME NEW s \in Sweeps, Queue(s) PROVE InHand(t)'
  <2>1. CASE t # s
    BY <1>1, <1>5, <2>1, InHandUntouched DEF Queue, TypeOK, fanVars, sendVars
  <2>2. CASE t = s
    <3>1. pc[s] = "queueing" /\ pc'[s] = "moving"
      BY <1>1, <1>5 DEF Queue, TypeOK
    <3>2. UNCHANGED <<batch, sending, waited, listed, age>>
      BY <1>5 DEF Queue, fanVars, sendVars
    <3> QED
      BY <1>1, <2>2, <3>1, <3>2 DEF InHand, Waiting
  <2> QED BY <2>1, <2>2
<1>6. ASSUME NEW s \in Sweeps, MoveCursor(s) PROVE InHand(t)'
  <2>1. CASE t # s
    BY <1>1, <1>6, <2>1, InHandUntouched DEF MoveCursor, TypeOK, sendVars
  <2>2. CASE t = s
    <3>1. pc[s] = "moving" /\ pc'[s] = "fanning"
      BY <1>1, <1>6 DEF MoveCursor, TypeOK
    <3>2. UNCHANGED <<sending, waited, listed, age>>
      BY <1>6 DEF MoveCursor, sendVars
    <3> QED
      BY <1>1, <2>2, <3>1, <3>2 DEF InHand, Waiting
  <2> QED BY <2>1, <2>2
<1>7. ASSUME NEW s \in Sweeps, ReadDue(s) PROVE InHand(t)'
  <2>1. CASE t # s
    BY <1>1, <1>7, <2>1, InHandUntouched DEF ReadDue, TypeOK, fanVars
  <2>2. CASE t = s
    <3>1. /\ pc[s] = "fanning" /\ pc'[s] = "claiming"
          /\ UNCHANGED <<sending, waited, age>>
      BY <1>1, <1>7 DEF ReadDue, TypeOK
    <3>2. Cardinality(listed'[s]) <= SweepLimit
      BY <1>1, <1>7 DEF ReadDue, FirstOf, TypeOK
    <3>3. Cardinality(listed'[s]) \in Nat
      <4>1. listed'[s] \subseteq Deliveries
        BY TypeStep DEF TypeOK
      <4>2. IsFiniteSet(listed'[s])
        BY <4>1, DeliveriesFinite, FS_Subset, Zenon
      <4> QED
        BY <4>2, FS_CardinalityType
    <3>4. age[s] = 0 /\ sending[s] = NoDelivery /\ ~waited[s]
      BY <1>1, <2>2, <3>1 DEF InHand
    <3>5. Waiting(s)' = 0
      BY <3>1 DEF Waiting
    <3> QED
      BY <2>2, <3>1, <3>2, <3>3, <3>4, <3>5 DEF InHand
  <2> QED BY <2>1, <2>2
<1>8. ASSUME NEW s \in Sweeps, NEW d \in listed[s], Claim(s, d)
      PROVE  InHand(t)'
  <2>1. CASE t # s
    <3>1. /\ pc'[t] = pc[t] /\ sending'[t] = sending[t]
          /\ listed'[t] = listed[t]
      BY <1>1, <1>8, <2>1 DEF Claim, TypeOK
    <3>2. UNCHANGED <<batch, waited, age>>
      BY <1>8 DEF Claim, fanVars
    <3> QED
      BY <1>1, <3>1, <3>2, InHandUntouched
  <2>2. CASE t = s
    <3>1. pc[s] = "claiming" /\ UNCHANGED <<waited, age>>
      BY <1>8 DEF Claim
    <3>2. listed'[s] = listed[s] \ {d}
      BY <1>1, <1>8 DEF Claim, TypeOK
    <3>3. Cardinality(listed'[s]) = Cardinality(listed[s]) - 1
      BY <1>1, <3>2, ListedCounts, FS_RemoveElement
    <3>4. \/ pc'[s] = "claiming" /\ sending'[s] = sending[s]
          \/ pc'[s] = "sending" /\ sending'[s] = d
      BY <1>1, <1>8, <3>1 DEF Claim, TypeOK
    <3>5. d \in Deliveries /\ ~waited[s] /\ sending[s] = NoDelivery
      BY <1>1, <2>2, <3>1 DEF InHand, TypeOK
    <3>6. Waiting(s) = 0 /\ Waiting(s)' \in {0, 1}
      BY <3>1 DEF Waiting
    <3>7. Cardinality(listed'[s]) + age'[s] + Waiting(s)' <= SweepLimit
      BY <1>1, <2>2, <3>1, <3>3, <3>6, ListedCounts DEF InHand, TypeOK
    <3> QED
      BY <2>2, <3>1, <3>4, <3>5, <3>7 DEF InHand
  <2> QED BY <2>1, <2>2
<1>9. ASSUME NEW s \in Sweeps, Delivered(s) \/ Failed(s) PROVE InHand(t)'
  <2>1. Sent(s)
    BY <1>9 DEF Delivered, Failed
  <2>2. CASE t # s
    BY <1>1, <2>1, <2>2, InHandUntouched DEF Sent, TypeOK, fanVars
  <2>3. CASE t = s
    <3>1. /\ pc'[s] = "claiming" /\ sending'[s] = NoDelivery /\ ~waited'[s]
          /\ UNCHANGED <<listed, age>>
      BY <1>1, <2>1 DEF Sent, TypeOK
    <3>2. Waiting(s)' = 0 /\ Waiting(s) \in {0, 1}
      BY <3>1 DEF Waiting
    <3>3. Cardinality(listed[s]) + age[s] + 0 <= SweepLimit
      BY <1>1, <2>3, <3>2, ListedCounts DEF InHand, TypeOK
    <3> QED
      BY <2>3, <3>1, <3>2, <3>3 DEF InHand
  <2> QED BY <2>2, <2>3
<1>10. ASSUME NEW s \in Sweeps, Leave(s) PROVE InHand(t)'
  <2>1. CASE t # s
    BY <1>1, <1>10, <2>1, InHandUntouched DEF Leave, TypeOK
  <2>2. CASE t = s
    <3>1. /\ pc'[s] = "idle" /\ sending'[s] = NoDelivery /\ ~waited'[s]
          /\ age'[s] = 0 /\ listed'[s] = {}
      BY <1>1, <1>10 DEF Leave, TypeOK
    <3>2. Waiting(s)' = 0
      BY <3>1 DEF Waiting
    <3> QED
      BY <2>2, <3>1, <3>2, FS_EmptySet DEF InHand
  <2> QED BY <2>1, <2>2
<1>11. ASSUME Tick PROVE InHand(t)'
  <2>1. /\ pc'[t] = pc[t] /\ sending'[t] = sending[t]
        /\ batch'[t] = batch[t] /\ listed'[t] = listed[t]
        /\ age'[t] = IF pc[t] = "sending" THEN age[t] + 1 ELSE 0
        /\ waited'[t] <=> pc[t] = "sending"
    BY <1>11 DEF Tick, fanVars
  <2>2. pc[t] = "idle" \/ (pc[t] = "sending" /\ ~waited[t])
    BY <1>11 DEF Tick
  <2>3. Waiting(t)' = 0
    BY <2>1 DEF Waiting
  <2>4. CASE pc[t] = "idle"
    <3>1. Waiting(t) = 0 /\ age[t] = 0
      BY <1>1, <2>4 DEF Waiting, InHand
    <3> QED
      BY <1>1, <2>1, <2>3, <2>4, <3>1 DEF InHand
  <2>5. CASE pc[t] = "sending"
    <3>1. Waiting(t) = 1
      BY <2>2, <2>5 DEF Waiting
    <3>2. Cardinality(listed[t]) + (age[t] + 1) + 0 <= SweepLimit
      BY <1>1, <3>1, ListedCounts DEF InHand, TypeOK
    <3> QED
      BY <1>1, <2>1, <2>3, <2>5, <3>2 DEF InHand
  <2> QED BY <2>2, <2>4, <2>5
<1>12. CASE UNCHANGED vars
  BY <1>2, <1>12 DEF vars, fanVars, sendVars
<1>13. ASSUME NEW e \in Events, Change(e) \/ Commit(e) PROVE InHand(t)'
  BY <1>2, <1>13 DEF Change, Commit, fanVars, sendVars
<1>14. ASSUME NEW h \in Hooks, AddHook(h) \/ DeleteHook(h) \/ DeleteHistory(h)
       PROVE InHand(t)'
  BY <1>2, <1>14 DEF AddHook, DeleteHook, DeleteHistory, fanVars, sendVars
<1> QED
  BY <1>3, <1>4, <1>5, <1>6, <1>7, <1>8, <1>9, <1>10, <1>11, <1>12, <1>13, <1>14
  DEF Next, Step, Finish, Crash

(* A row that is left pending is left with a try. *)
LEMMA TriesStep == WorkInv /\ [Next]_vars => TriesLeft'
<1> SUFFICES ASSUME WorkInv, [Next]_vars PROVE TriesLeft'
  OBVIOUS
<1> USE LimitsAssumption
<1>1. TypeOK /\ TriesLeft /\ Len(Retry) \in Nat
  BY DEF WorkInv
<1>2. CASE UNCHANGED <<status, attempts, tried>>
  BY <1>1, <1>2 DEF TriesLeft
<1>3. ASSUME NEW h \in Hooks, DeleteHistory(h) PROVE TriesLeft'
  BY <1>1, <1>3 DEF DeleteHistory, sendVars, TriesLeft, TypeOK
<1>4. ASSUME NEW s \in Sweeps, Queue(s) PROVE TriesLeft'
  <2>1. \A d \in Deliveries : status'[d] = "pending" => attempts'[d] <= Len(Retry)
    BY <1>1, <1>4 DEF Queue, TriesLeft
  <2> QED
    BY <1>1, <1>4, <2>1 DEF Queue, sendVars, TriesLeft
<1>5. ASSUME NEW s \in Sweeps, ReadDue(s) PROVE TriesLeft'
  <2>1. PICK some \in SUBSET {d \in Deliveries : Due(d, 0)} :
          tried' = [tried EXCEPT ![s] =
            [d \in Deliveries |-> IF d \in some THEN attempts[d] ELSE 0]]
    BY <1>5 DEF ReadDue
  <2>2. ASSUME NEW d \in Deliveries
        PROVE  (IF d \in some THEN attempts[d] ELSE 0) <= Len(Retry)
    BY <1>1 DEF TriesLeft, Due
  <2>3. ASSUME NEW t \in Sweeps, NEW d \in Deliveries
        PROVE  tried'[t][d] <= Len(Retry)
    BY <1>1, <2>1, <2>2 DEF TriesLeft, TypeOK
  <2> QED
    BY <1>1, <1>5, <2>3 DEF ReadDue, rows, TriesLeft
<1>6. ASSUME NEW s \in Sweeps, Delivered(s) PROVE TriesLeft'
  <2>1. ASSUME NEW d \in Deliveries, status'[d] = "pending"
        PROVE  attempts'[d] <= Len(Retry)
    BY <1>1, <1>6, <2>1 DEF Delivered, rows, TriesLeft, TypeOK
  <2>2. sending[s] \in Deliveries /\ tried' = [tried EXCEPT ![s][sending[s]] = 0]
    BY <1>6 DEF Delivered, Sent, WorkInv, InHand
  <2> QED
    BY <2>1, <2>2, TriedForgets DEF TriesLeft
<1>7. ASSUME NEW s \in Sweeps, Failed(s) PROVE TriesLeft'
  <2>1. ASSUME NEW d \in Deliveries, status'[d] = "pending"
        PROVE  attempts'[d] <= Len(Retry)
    BY <1>1, <1>7, <2>1 DEF Failed, rows, TriesLeft, TypeOK
  <2>2. sending[s] \in Deliveries /\ tried' = [tried EXCEPT ![s][sending[s]] = 0]
    BY <1>7 DEF Failed, Sent, WorkInv, InHand
  <2> QED
    BY <2>1, <2>2, TriedForgets DEF TriesLeft
<1>8. ASSUME NEW s \in Sweeps, Leave(s) PROVE TriesLeft'
  <2>1. ASSUME NEW t \in Sweeps, NEW d \in Deliveries
        PROVE  tried'[t][d] <= Len(Retry)
    BY <1>1, <1>8 DEF Leave, TriesLeft, TypeOK
  <2> QED
    BY <1>1, <1>8, <2>1 DEF Leave, rows, TriesLeft
<1>9. ASSUME NEW s \in Sweeps, NEW d \in listed[s], Claim(s, d) PROVE TriesLeft'
  <2>1. d \in Deliveries /\ (tried' = tried \/ tried' = [tried EXCEPT ![s][d] = 0])
    BY <1>1, <1>9 DEF Claim, TypeOK
  <2>2. UNCHANGED <<status, attempts>>
    BY <1>9 DEF Claim
  <2> QED
    BY <1>1, <2>1, <2>2, TriedForgets DEF TriesLeft
<1> QED
  BY <1>2, <1>3, <1>4, <1>5, <1>6, <1>7, <1>8, <1>9
  DEF Next, Step, Finish, Crash, Change, Commit, AddHook, DeleteHook, Start,
      ReadFeed, MoveCursor, Tick, vars, rows, sendVars

LEMMA WorkStep == WorkInv /\ [Next]_vars => WorkInv'
BY TypeStep, InHandStep, TriesStep DEF WorkInv

LEMMA WorkHolds == Spec => []WorkInv
BY WorkInit, WorkStep, PTL DEF Spec

(* The feed, the endpoints, their deliveries and the sweeps keep their types,
   a sweep is never older than it has deliveries to send, and no delivery is
   tried more often than the table of retries allows (deliverDue). *)
THEOREM OutgoingWebhooksTypes == Spec => []TypeOK
<1>1. WorkInv => TypeOK
  BY DEF WorkInv
<1> QED
  BY <1>1, WorkHolds, PTL

-----------------------------------------------------------------------------
LEMMA LeaseInit == Init => LeaseInv
BY DEF Init, LeaseInv, OneSenderWithinTheLease, Held

LEMMA HeldUntouched ==
  ASSUME NEW s \in Sweeps, Held(s), overrun' = overrun,
         pc'[s] = pc[s], sending'[s] = sending[s], age'[s] = age[s],
         pc[s] = "sending" /\ sending[s] \notin overrun
           /\ hook'[sending[s][1]] # "gone" =>
             /\ hook[sending[s][1]] # "gone"
             /\ status'[sending[s]] = status[sending[s]]
             /\ due'[sending[s]] = due[sending[s]]
  PROVE  Held(s)'
BY DEF Held

(* What is noted of a delivery that stays in hand stays noted. *)
LEMMA OverrunStays ==
  ASSUME NoteOverruns, NEW s \in Sweeps, sending'[s] \in Deliveries,
         sending'[s] \notin overrun'
  PROVE  sending'[s] \notin overrun /\ ~(age'[s] >= Lease)
BY DEF NoteOverruns

(* A sweep that is within its lease keeps others off what it sends. *)
LEMMA HeldIsNotDue ==
  ASSUME WorkInv, NEW s \in Sweeps, Held(s), pc[s] = "sending",
         sending[s] \notin overrun, HasRow(sending[s]), NEW t \in Sweeps
  PROVE  ~Due(sending[s], age[t])
<1>1. due[sending[s]] = Lease - age[s] /\ age[s] < Lease
  BY DEF Held, HasRow
<1>2. age[s] \in Nat /\ age[t] \in Nat
  BY DEF WorkInv, TypeOK
<1> QED
  BY <1>1, <1>2, LimitsAssumption DEF Due

LEMMA OneSenderNoted ==
  ASSUME TypeOK, OneSenderWithinTheLease, NoteOverruns,
         \A t \in Sweeps : sending'[t] \in {sending[t], NoDelivery}
  PROVE  OneSenderWithinTheLease'
<1> SUFFICES ASSUME NEW t \in Sweeps, NEW u \in Sweeps, t # u,
                    sending'[t] = sending'[u], sending'[t] # NoDelivery
             PROVE  sending'[t] \in overrun'
  BY DEF OneSenderWithinTheLease
<1>1. sending'[t] = sending[t] /\ sending'[u] = sending[u]
  OBVIOUS
<1>2. sending'[t] \in overrun /\ sending'[t] \in Deliveries
  BY <1>1 DEF OneSenderWithinTheLease, TypeOK
<1> QED
  BY <1>2, OverrunStays

LEMMA LeaseStep == WorkInv /\ LeaseInv /\ [Next]_vars => LeaseInv'
<1> SUFFICES ASSUME WorkInv, LeaseInv, [Next]_vars PROVE LeaseInv'
  OBVIOUS
<1> USE LimitsAssumption
<1>1. /\ TypeOK /\ OneSenderWithinTheLease
      /\ \A s \in Sweeps : Held(s) /\ InHand(s)
  BY DEF WorkInv, LeaseInv
<1>2. CASE UNCHANGED <<pc, sending, age, status, due, hook, overrun>>
  BY <1>1, <1>2, HeldUntouched DEF LeaseInv, OneSenderWithinTheLease
<1>3. ASSUME NEW h \in Hooks, AddHook(h) \/ DeleteHook(h) \/ DeleteHistory(h)
      PROVE LeaseInv'
  <2>1. UNCHANGED <<pc, sending, age, overrun>>
    BY <1>3 DEF AddHook, DeleteHook, DeleteHistory, sendVars
  <2>2. ASSUME NEW s \in Sweeps PROVE Held(s)'
    <3>1. ASSUME pc[s] = "sending", hook'[sending[s][1]] # "gone"
          PROVE  /\ hook[sending[s][1]] # "gone"
                 /\ status'[sending[s]] = status[sending[s]]
                 /\ due'[sending[s]] = due[sending[s]]
      <4>1. sending[s] \in Deliveries /\ sending[s][1] \in Hooks
        BY <1>1, <3>1 DEF InHand, Deliveries
      <4>2. CASE AddHook(h) \/ DeleteHook(h)
        BY <1>1, <3>1, <4>1, <4>2 DEF AddHook, DeleteHook, rows, TypeOK
      <4>3. CASE DeleteHistory(h)
        BY <1>1, <3>1, <4>1, <4>3 DEF DeleteHistory, TypeOK
      <4> QED BY <1>3, <4>2, <4>3
    <3> QED
      BY <1>1, <2>1, <3>1, HeldUntouched
  <2> QED
    BY <1>1, <2>1, <2>2 DEF LeaseInv, OneSenderWithinTheLease
<1>4. ASSUME NEW s \in Sweeps, Queue(s) PROVE LeaseInv'
  <2>1. UNCHANGED <<sending, age, hook, overrun>> /\ pc[s] = "queueing"
    BY <1>4 DEF Queue, sendVars, hookVars
  <2>2. ASSUME NEW t \in Sweeps PROVE Held(t)'
    <3>1. (pc'[t] = pc[t] /\ t # s) \/ (pc'[t] = "moving" /\ t = s)
      BY <1>1, <1>4 DEF Queue, TypeOK
    <3>2. ASSUME pc[t] = "sending", sending[t] \notin overrun,
                 hook[sending[t][1]] # "gone"
          PROVE  /\ status'[sending[t]] = status[sending[t]]
                 /\ due'[sending[t]] = due[sending[t]]
      <4>1. sending[t] \in Deliveries /\ status[sending[t]] = "pending"
        BY <1>1, <3>2 DEF InHand, Held
      <4> QED
        BY <1>4, <4>1 DEF Queue, Queued
    <3>3. CASE t # s
      BY <1>1, <2>1, <3>1, <3>2, <3>3, HeldUntouched
    <3>4. CASE t = s
      BY <3>1, <3>4 DEF Held
    <3> QED BY <3>3, <3>4
  <2> QED
    BY <1>1, <2>1, <2>2 DEF LeaseInv, OneSenderWithinTheLease
<1>5. ASSUME NEW s \in Sweeps, NEW d \in listed[s], Claim(s, d) PROVE LeaseInv'
  <2>1. /\ d \in Deliveries /\ UNCHANGED <<status, hook, age>>
        /\ pc[s] = "claiming" /\ NoteOverruns
    BY <1>1, <1>5 DEF Claim, hookVars, TypeOK
  <2>2. CASE ~(HasRow(d) /\ Due(d, age[s]))
    <3>1. UNCHANGED <<due, pc, sending>>
      BY <1>5, <2>2 DEF Claim
    <3>2. ASSUME NEW t \in Sweeps PROVE Held(t)'
      <4> SUFFICES ASSUME pc[t] = "sending", sending[t] \notin overrun'
                   PROVE  Held(t)'
        BY <3>1 DEF Held
      <4>1. sending[t] \notin overrun
        BY <1>1, <2>1, <3>1, OverrunStays DEF InHand
      <4> QED
        BY <1>1, <2>1, <3>1, <4>1 DEF Held
    <3>3. OneSenderWithinTheLease'
      <4> SUFFICES ASSUME NEW t \in Sweeps, NEW u \in Sweeps,
                          t # u, sending[t] = sending[u],
                          sending[t] # NoDelivery
                   PROVE  sending[t] \in overrun'
        BY <3>1 DEF OneSenderWithinTheLease
      <4>1. sending[t] \in overrun /\ sending[t] \in Deliveries
        BY <1>1 DEF OneSenderWithinTheLease, TypeOK
      <4> QED
        BY <2>1, <3>1, <4>1, OverrunStays
    <3> QED
      BY <3>2, <3>3 DEF LeaseInv
  <2>3. CASE HasRow(d) /\ Due(d, age[s])
    <3>1. /\ due' = [due EXCEPT ![d] = Lease - age[s]]
          /\ pc' = [pc EXCEPT ![s] = "sending"]
          /\ sending' = [sending EXCEPT ![s] = d]
      BY <1>5, <2>3 DEF Claim
    <3>2. \A t \in Sweeps : sending[t] = d => d \in overrun
      <4> SUFFICES ASSUME NEW t \in Sweeps, sending[t] = d, d \notin overrun
                   PROVE  FALSE
        OBVIOUS
      <4>1. pc[t] = "sending"
        BY <1>1, <2>1, NamesAssumption DEF InHand
      <4> QED
        BY <1>1, <2>3, <4>1, HeldIsNotDue
    <3>3. \A t \in Sweeps : sending'[t] = IF t = s THEN d ELSE sending[t]
      BY <1>1, <3>1 DEF TypeOK
    <3>4. OneSenderWithinTheLease'
      <4> SUFFICES ASSUME NEW t \in Sweeps, NEW u \in Sweeps, t # u,
                          sending'[t] = sending'[u], sending'[t] # NoDelivery
                   PROVE  sending'[t] \in overrun'
        BY DEF OneSenderWithinTheLease
      <4>1. sending'[t] \in overrun /\ sending'[t] \in Deliveries
        BY <1>1, <2>1, <3>2, <3>3 DEF OneSenderWithinTheLease, TypeOK
      <4> QED
        BY <2>1, <4>1, OverrunStays
    <3>5. ASSUME NEW t \in Sweeps, t # s PROVE Held(t)'
      <4>1. pc'[t] = pc[t] /\ sending'[t] = sending[t]
        BY <1>1, <3>1, <3>5 DEF TypeOK
      <4> SUFFICES ASSUME pc[t] = "sending", sending[t] \notin overrun'
                   PROVE  Held(t)'
        BY <4>1 DEF Held
      <4>2. sending[t] \in Deliveries /\ sending[t] \notin overrun
        BY <1>1, <2>1, <4>1, OverrunStays DEF InHand
      <4>3. due'[sending[t]] = due[sending[t]]
        BY <1>1, <3>1, <3>2, <4>2 DEF TypeOK
      <4> QED
        BY <1>1, <2>1, <4>1, <4>2, <4>3 DEF Held
    <3>6. Held(s)'
      <4>1. sending'[s] = d /\ due'[d] = Lease - age[s]
        BY <1>1, <2>1, <3>1 DEF TypeOK
      <4>2. status[d] = "pending"
        BY <2>3 DEF Due
      <4>3. d \notin overrun' => age[s] < Lease
        <5>1. age[s] \in Nat
          BY <1>1 DEF TypeOK
        <5> QED
          BY <2>1, <4>1, <5>1, OverrunStays
      <4> QED
        BY <2>1, <4>1, <4>2, <4>3 DEF Held
    <3> QED
      BY <3>4, <3>5, <3>6 DEF LeaseInv
  <2> QED BY <2>2, <2>3
<1>6. ASSUME NEW s \in Sweeps, Delivered(s) \/ Failed(s) PROVE LeaseInv'
  <2>1. Sent(s) /\ NoteOverruns /\ UNCHANGED <<hook, age>>
    BY <1>6 DEF Delivered, Failed, Sent, hookVars
  <2>2. ASSUME NEW t \in Sweeps
        PROVE  sending'[t] = IF t = s THEN NoDelivery ELSE sending[t]
    BY <1>1, <2>1 DEF Sent, TypeOK
  <2>3. OneSenderWithinTheLease'
    BY <1>1, <2>1, <2>2, OneSenderNoted
  <2>4. ASSUME NEW t \in Sweeps PROVE Held(t)'
    <3>1. CASE t = s
      BY <1>1, <2>1, <3>1 DEF Sent, Held, TypeOK
    <3>2. CASE t # s
      <4>1. pc'[t] = pc[t] /\ sending'[t] = sending[t]
        BY <1>1, <2>1, <3>2 DEF Sent, TypeOK
      <4> SUFFICES ASSUME pc[t] = "sending", sending[t] \notin overrun'
                   PROVE  Held(t)'
        BY <4>1 DEF Held
      <4>2. sending[t] \in Deliveries /\ sending[t] \notin overrun
        BY <1>1, <2>1, <4>1, OverrunStays DEF InHand
      <4>3. sending[t] # sending[s]
        BY <1>1, <3>2, <4>2, NamesAssumption DEF OneSenderWithinTheLease
      <4>4. /\ status'[sending[t]] = status[sending[t]]
            /\ due'[sending[t]] = due[sending[t]]
        BY <1>1, <1>6, <4>2, <4>3 DEF Delivered, Failed, rows, TypeOK
      <4> QED
        BY <1>1, <2>1, <4>1, <4>2, <4>4 DEF Held
    <3> QED BY <3>1, <3>2
  <2> QED
    BY <2>3, <2>4 DEF LeaseInv
<1>7. ASSUME NEW s \in Sweeps, Leave(s) PROVE LeaseInv'
  <2>1. NoteOverruns /\ UNCHANGED <<hook, status, due>>
    BY <1>7 DEF Leave, hookVars, rows
  <2>2. ASSUME NEW t \in Sweeps
        PROVE  /\ sending'[t] = IF t = s THEN NoDelivery ELSE sending[t]
               /\ pc'[t] = IF t = s THEN "idle" ELSE pc[t]
               /\ age'[t] = IF t = s THEN 0 ELSE age[t]
    BY <1>1, <1>7 DEF Leave, TypeOK
  <2>3. OneSenderWithinTheLease'
    BY <1>1, <2>1, <2>2, OneSenderNoted
  <2>4. ASSUME NEW t \in Sweeps PROVE Held(t)'
    <3>1. CASE t = s
      BY <2>2, <3>1 DEF Held
    <3>2. CASE t # s
      <4> SUFFICES ASSUME pc[t] = "sending", sending[t] \notin overrun'
                   PROVE  Held(t)'
        BY <2>2, <3>2 DEF Held
      <4>1. sending[t] \notin overrun
        BY <1>1, <2>1, <2>2, <3>2, OverrunStays DEF InHand
      <4> QED
        BY <1>1, <2>1, <2>2, <3>2, <4>1 DEF Held
    <3> QED BY <3>1, <3>2
  <2> QED
    BY <2>3, <2>4 DEF LeaseInv
<1>8. ASSUME Tick PROVE LeaseInv'
  <2>1. NoteOverruns /\ UNCHANGED <<hook, status, pc, sending>>
    BY <1>8 DEF Tick, hookVars
  <2>2. OneSenderWithinTheLease'
    BY <1>1, <2>1, OneSenderNoted
  <2>3. ASSUME NEW s \in Sweeps PROVE Held(s)'
    <3> SUFFICES ASSUME pc[s] = "sending", sending[s] \notin overrun'
                 PROVE  Held(s)'
      BY <2>1 DEF Held
    <3>1. /\ sending[s] \in Deliveries /\ sending[s] \notin overrun
          /\ ~(age'[s] >= Lease)
      BY <1>1, <2>1, OverrunStays DEF InHand
    <3>2. PICK a \in Nat : a = age[s]
      BY <1>1 DEF TypeOK
    <3>3. age'[s] = a + 1 /\ a + 1 < Lease
      BY <1>8, <3>1, <3>2 DEF Tick
    <3>4. ASSUME hook[sending[s][1]] # "gone"
          PROVE  /\ status[sending[s]] = "pending"
                 /\ due'[sending[s]] = Lease - (a + 1)
      <4>1. status[sending[s]] = "pending" /\ due[sending[s]] = Lease - a
        BY <1>1, <3>1, <3>2, <3>4 DEF Held
      <4>2. Lease - a > 1 - SweepLimit
        BY <3>2, <3>3
      <4>3. due'[sending[s]] = Lease - a - 1
        BY <1>8, <3>1, <4>1, <4>2 DEF Tick, Earlier
      <4> QED
        BY <3>2, <4>1, <4>3
    <3> QED
      BY <2>1, <3>3, <3>4 DEF Held
  <2> QED
    BY <2>2, <2>3 DEF LeaseInv
<1>9. ASSUME NEW s \in Sweeps,
             \/ Start(s) \/ MoveCursor(s) \/ ReadDue(s)
             \/ \E read \in todo[s] : ReadFeed(s, read)
      PROVE  LeaseInv'
  <2>1. UNCHANGED <<hook, status, due, sending, age, overrun>>
    BY <1>9 DEF Start, MoveCursor, ReadDue, ReadFeed, hookVars, rows, sendVars
  <2>2. \A t \in Sweeps :
          pc'[t] = pc[t] \/ pc'[t] \in {"fanning", "queueing", "claiming"}
    BY <1>1, <1>9 DEF Start, MoveCursor, ReadDue, ReadFeed, TypeOK
  <2>3. ASSUME NEW t \in Sweeps PROVE Held(t)'
    <3>1. CASE pc'[t] = pc[t]
      BY <1>1, <2>1, <3>1, HeldUntouched
    <3>2. CASE pc'[t] # pc[t]
      BY <2>2, <3>2 DEF Held
    <3> QED BY <3>1, <3>2
  <2> QED
    BY <1>1, <2>1, <2>3 DEF LeaseInv, OneSenderWithinTheLease
<1>10. ASSUME NEW e \in Events, Change(e) \/ Commit(e) PROVE LeaseInv'
  BY <1>2, <1>10 DEF Change, Commit, hookVars, rows, sendVars
<1>11. CASE UNCHANGED vars
  BY <1>2, <1>11 DEF vars, hookVars, rows, sendVars
<1> QED
  BY <1>3, <1>4, <1>5, <1>6, <1>7, <1>8, <1>9, <1>10, <1>11
  DEF Next, Step, Finish, Crash

LEMMA LeaseHolds == Spec => []LeaseInv
BY WorkHolds, LeaseInit, LeaseStep, PTL DEF Spec

(* Two sweeps have one delivery in hand only where an attempt at it outlived
   its lease: the claim in deliverDue is enough until then, however many
   sweeps overlap, fail or die, and however long the lease is. *)
THEOREM OneSender == Spec => []OneSenderWithinTheLease
<1>1. LeaseInv => OneSenderWithinTheLease
  BY DEF LeaseInv
<1> QED
  BY <1>1, LeaseHolds, PTL

-----------------------------------------------------------------------------
LEMMA FeedInit == Init => FeedInv
BY DEF Init, FeedInv, TypeOK

(* What a sweep queues is on the feed. *)
LEMMA FeedStep == WorkInv /\ FeedInv /\ CursorInv /\ [Next]_vars => FeedInv'
<1> SUFFICES ASSUME WorkInv, FeedInv, CursorInv, [Next]_vars PROVE FeedInv'
  OBVIOUS
<1>1. TypeOK
  BY DEF WorkInv
<1>2. ASSUME UNCHANGED <<at, feed>>, instant' \in {instant, instant + 1},
             \A d \in Deliveries : status'[d] # "absent" => status[d] # "absent"
      PROVE  FeedInv'
  BY <1>1, <1>2 DEF FeedInv, TypeOK
<1>3. ASSUME NEW e \in Events, Change(e) PROVE FeedInv'
  <2>1. /\ at[e] = 0 /\ at' = [at EXCEPT ![e] = instant']
        /\ instant' \in {instant, instant + 1} \ {0}
        /\ UNCHANGED <<feed, status>>
    BY <1>3 DEF Change, rows
  <2>2. e \notin feed
    BY <2>1 DEF FeedInv
  <2>3. \A f \in Events : at'[f] = IF f = e THEN instant' ELSE at[f]
    BY <1>1, <2>1 DEF TypeOK
  <2>4. \A f \in Events : at'[f] <= instant' /\ (f \in feed' => at'[f] > 0)
    BY <1>1, <2>1, <2>2, <2>3 DEF FeedInv, TypeOK
  <2> QED
    BY <2>1, <2>4 DEF FeedInv
<1>4. ASSUME NEW e \in Events, Commit(e) PROVE FeedInv'
  <2>1. /\ feed' = feed \cup {e} /\ at[e] > 0
        /\ UNCHANGED <<at, instant, status>>
    BY <1>4 DEF Commit, rows
  <2> QED
    BY <2>1 DEF FeedInv
<1>5. ASSUME NEW s \in Sweeps, Queue(s) PROVE FeedInv'
  <2>1. UNCHANGED <<at, feed, instant>> /\ pc[s] = "queueing"
    BY <1>5 DEF Queue, feedVars
  <2>2. batch[s].events \subseteq feed
    BY <2>1 DEF CursorInv, GoesBy, Taken
  <2>3. \A d \in Deliveries : status'[d] # "absent" => d[2] \in feed
    BY <1>5, <2>2 DEF Queue, Queued, FeedInv
  <2> QED
    BY <2>1, <2>3 DEF FeedInv
<1>6. ASSUME NEW s \in Sweeps, Delivered(s) \/ Failed(s) PROVE FeedInv'
  <2>1. UNCHANGED <<at, feed, instant>>
    BY <1>6 DEF Delivered, Failed, Sent, feedVars
  <2>2. \A d \in Deliveries : status'[d] # "absent" => status[d] # "absent"
    BY <1>1, <1>6 DEF Delivered, Failed, HasRow, rows, TypeOK
  <2> QED
    BY <1>2, <2>1, <2>2
<1>7. ASSUME NEW h \in Hooks, AddHook(h) \/ DeleteHook(h) \/ DeleteHistory(h)
      PROVE  FeedInv'
  <2>1. UNCHANGED <<at, feed>> /\ instant' \in {instant, instant + 1}
    BY <1>7 DEF AddHook, DeleteHook, DeleteHistory, feedVars
  <2>2. \A d \in Deliveries : status'[d] # "absent" => status[d] # "absent"
    BY <1>7 DEF AddHook, DeleteHook, DeleteHistory, rows
  <2> QED
    BY <1>2, <2>1, <2>2
<1>8. CASE UNCHANGED <<feedVars, status>>
  BY <1>2, <1>8 DEF feedVars
<1> QED
  BY <1>3, <1>4, <1>5, <1>6, <1>7, <1>8
  DEF Next, Step, Finish, Crash, Leave, Start, ReadFeed, MoveCursor, ReadDue,
      Claim, Tick, vars, rows

(* What every step respects of what a sweep may be relying on. *)
OnlyForward ==
  /\ feed \subseteq feed'
  /\ \A e \in feed : at'[e] = at[e]
  /\ late \subseteq late'
  /\ \A f \in feed, e \in feed' \ feed : e \in late' \/ at'[f] <= at'[e]
  /\ \A h \in Hooks : hook[h] # "none" =>
       /\ hook'[h] # "none"
       /\ hook'[h] = "live" => hook[h] = "live"
       /\ bornAt'[h] = bornAt[h]
  /\ \A d \in Deliveries :
       hook'[d[1]] = "live" /\ status[d] # "absent" => status'[d] # "absent"

LEMMA StepsOnlyForward ==
  WorkInv /\ FeedInv /\ [Next]_vars => OnlyForward
<1> SUFFICES ASSUME WorkInv, FeedInv, [Next]_vars PROVE OnlyForward
  OBVIOUS
<1>1. TypeOK
  BY DEF WorkInv
<1>2. CASE UNCHANGED <<at, feed, late, hook, bornAt, status>>
  BY <1>2 DEF OnlyForward
<1>3. ASSUME NEW e \in Events, Change(e) PROVE OnlyForward
  <2>1. at[e] = 0 /\ at' = [at EXCEPT ![e] = instant']
        /\ UNCHANGED <<feed, late, hook, bornAt, status>>
    BY <1>3 DEF Change, hookVars, rows
  <2>2. \A f \in feed : f # e /\ at'[f] = at[f]
    BY <1>1, <2>1 DEF FeedInv, TypeOK
  <2> QED
    BY <2>1, <2>2 DEF OnlyForward
<1>4. ASSUME NEW e \in Events, Commit(e) PROVE OnlyForward
  <2>1. /\ feed' = feed \cup {e} /\ e \notin feed /\ at[e] > 0
        /\ late' = IF \E f \in feed : at[f] > at[e] THEN late \cup {e} ELSE late
        /\ UNCHANGED <<at, hook, bornAt, status>>
    BY <1>4 DEF Commit, hookVars, rows
  <2>2. late \subseteq late'
    BY <2>1
  <2>3. ASSUME NEW f \in feed PROVE e \in late' \/ at[f] <= at[e]
    <3>1. at[f] \in Nat /\ at[e] \in Nat
      BY <1>1 DEF TypeOK
    <3> QED
      BY <2>1, <3>1
  <2> QED
    BY <2>1, <2>2, <2>3 DEF OnlyForward
<1>5. ASSUME NEW h \in Hooks, AddHook(h) PROVE OnlyForward
  <2>1. /\ hook[h] = "none" /\ hook' = [hook EXCEPT ![h] = "live"]
        /\ bornAt' = [bornAt EXCEPT ![h] = instant']
        /\ UNCHANGED <<at, feed, late, status>>
    BY <1>5 DEF AddHook, rows
  <2>2. \A k \in Hooks : hook[k] # "none" =>
          hook'[k] = hook[k] /\ bornAt'[k] = bornAt[k]
    BY <1>1, <2>1 DEF TypeOK
  <2> QED
    BY <2>1, <2>2 DEF OnlyForward
<1>6. ASSUME NEW h \in Hooks, DeleteHook(h) PROVE OnlyForward
  <2>1. /\ hook[h] = "live" /\ hook' = [hook EXCEPT ![h] = "deleted"]
        /\ UNCHANGED <<at, feed, late, bornAt, status>>
    BY <1>6 DEF DeleteHook, feedVars, rows
  <2>2. \A k \in Hooks : hook'[k] = hook[k] \/ hook'[k] = "deleted"
    BY <1>1, <2>1 DEF TypeOK
  <2> QED
    BY <2>1, <2>2 DEF OnlyForward
<1>7. ASSUME NEW h \in Hooks, DeleteHistory(h) PROVE OnlyForward
  <2>1. /\ hook[h] = "deleted" /\ hook' = [hook EXCEPT ![h] = "gone"]
        /\ status' = [d \in Deliveries |-> IF d[1] = h THEN "absent" ELSE status[d]]
        /\ UNCHANGED <<at, feed, late, bornAt>>
    BY <1>7 DEF DeleteHistory, feedVars
  <2>2. \A k \in Hooks : hook'[k] = IF k = h THEN "gone" ELSE hook[k]
    BY <1>1, <2>1 DEF TypeOK
  <2>3. \A d \in Deliveries : d[1] \in Hooks
    BY DEF Deliveries
  <2> QED
    BY <2>1, <2>2, <2>3 DEF OnlyForward
<1>8. ASSUME NEW s \in Sweeps, Queue(s) PROVE OnlyForward
  BY <1>8 DEF Queue, feedVars, hookVars, OnlyForward
<1>9. ASSUME NEW s \in Sweeps, Delivered(s) \/ Failed(s) PROVE OnlyForward
  <2>1. UNCHANGED <<at, feed, late, hook, bornAt>>
    BY <1>9 DEF Delivered, Failed, Sent, feedVars, hookVars
  <2>2. \A d \in Deliveries : status[d] # "absent" => status'[d] # "absent"
    BY <1>1, <1>9 DEF Delivered, Failed, rows, TypeOK
  <2> QED
    BY <2>1, <2>2 DEF OnlyForward
<1>10. CASE UNCHANGED <<feedVars, hook, bornAt, status>>
  BY <1>2, <1>10 DEF feedVars
<1> QED
  BY <1>3, <1>4, <1>5, <1>6, <1>7, <1>8, <1>9, <1>10
  DEF Next, Step, Finish, Crash, Leave, Start, ReadFeed, MoveCursor, ReadDue,
      Claim, Tick, vars, hookVars, rows

(* So a place to read from stays one... *)
LEMMA PlaceStays ==
  ASSUME TypeOK, TypeOK', OnlyForward, NEW h \in Hooks, NEW c \in Nat, Place(h, c)
  PROVE  Place(h, c)'
<1>1. /\ hook'[h] # "none" /\ bornAt'[h] <= c
      /\ c = bornAt'[h] \/ \E f \in feed' : c = at'[f]
  BY DEF Place, OnlyForward
<1>2. ASSUME NEW e \in Events, Promised(h, e)', at'[e] < c
      PROVE  status'[<<h, e>>] # "absent"
  <2>1. /\ hook[h] = "live" /\ hook'[h] = "live" /\ e \in feed' \cap Wants[h]
        /\ at'[e] >= bornAt[h] /\ e \notin late' /\ e \notin late
    BY <1>2 DEF Promised, Owed, OnlyForward, Place
  <2>2. e \in feed
    <3> SUFFICES ASSUME e \notin feed PROVE FALSE
      OBVIOUS
    <3>1. \A f \in feed : at[f] <= at'[e]
      BY <2>1 DEF OnlyForward
    <3>2. c <= at'[e]
      BY <1>2, <2>1, <3>1 DEF Place
    <3>3. at'[e] \in Nat
      BY DEF TypeOK
    <3> QED
      BY <1>2, <3>2, <3>3
  <2>3. Promised(h, e) /\ at[e] < c
    BY <1>2, <2>1, <2>2 DEF Promised, Owed, OnlyForward
  <2>4. status[<<h, e>>] # "absent"
    BY <1>2, <2>3 DEF Place, NothingBehind, Promised, Owed
  <2> QED
    BY <2>1, <2>4 DEF OnlyForward, Deliveries
<1> QED
  BY <1>1, <1>2 DEF Place, NothingBehind, Promised, Owed

(* ... and what was taken off the feed stays the next of what is promised. *)
LEMMA TakenStays ==
  ASSUME TypeOK, TypeOK', OnlyForward, NEW h \in Hooks,
         NEW events \in SUBSET Events, Taken(h, events)
  PROVE  Taken(h, events)'
<1>1. /\ hook'[h] # "none"
      /\ events \subseteq feed' \cap Wants[h]
      /\ \A e \in events : bornAt'[h] <= at'[e]
  BY DEF Taken, OnlyForward
<1>2. ASSUME NEW e \in Events \ events, NEW b \in events,
             Promised(h, e)', at'[e] < at'[b]
      PROVE  status'[<<h, e>>] # "absent"
  <2>1. /\ hook[h] = "live" /\ hook'[h] = "live" /\ e \in feed' \cap Wants[h]
        /\ at'[e] >= bornAt[h] /\ e \notin late' /\ e \notin late
    BY <1>2 DEF Promised, Owed, OnlyForward, Taken
  <2>2. e \in feed
    <3>1. b \in feed /\ at'[b] = at[b]
      BY DEF Taken, OnlyForward
    <3>2. e \notin feed => at'[b] <= at'[e]
      BY <1>2, <2>1, <3>1 DEF OnlyForward
    <3>3. at'[e] \in Nat /\ at'[b] \in Nat
      BY DEF TypeOK
    <3> QED
      BY <1>2, <3>2, <3>3
  <2>3. Promised(h, e) /\ at[e] < at[b]
    BY <1>2, <2>1, <2>2 DEF Promised, Owed, OnlyForward, Taken
  <2>4. status[<<h, e>>] # "absent"
    BY <1>2, <2>3 DEF Taken
  <2> QED
    BY <2>1, <2>4 DEF OnlyForward, Deliveries
<1> QED
  BY <1>1, <1>2 DEF Taken

LEMMA QueuedStays ==
  ASSUME TypeOK, OnlyForward, NEW h \in Hooks, hook[h] # "none",
         NEW events \in SUBSET Events, AllQueued(h, events)
  PROVE  AllQueued(h, events)'
<1> SUFFICES ASSUME hook'[h] = "live", NEW e \in events
             PROVE  status'[<<h, e>>] # "absent"
  BY DEF AllQueued
<1>1. status[<<h, e>>] # "absent"
  BY DEF AllQueued, OnlyForward
<1>2. <<h, e>> \in Deliveries /\ <<h, e>>[1] = h
  BY DEF Deliveries
<1> QED
  BY <1>1, <1>2 DEF OnlyForward

LEMMA CursorInit == Init => CursorInv
BY DEF Init, CursorInv, GoesBy

(* What one read of the feed takes is the next of what is promised. *)
LEMMA ReadTakes ==
  ASSUME WorkInv, NEW read \in [hook : Hooks, cursor : Nat],
         Place(read.hook, read.cursor),
         NEW events \in SUBSET Fresh(read),
         FirstOf(events, Fresh(read), FanOutLimit, at)
  PROVE  Taken(read.hook, events)
<1> DEFINE h == read.hook
<1>1. TypeOK /\ h \in Hooks /\ read.cursor \in Nat
  BY DEF WorkInv
<1>2. hook[h] # "none" /\ events \subseteq feed \cap Wants[h]
  BY DEF Place, Fresh
<1>3. ASSUME NEW e \in events PROVE bornAt[h] <= at[e]
  <2>1. e \in Events /\ at[e] >= read.cursor /\ bornAt[h] <= read.cursor
    BY <1>1 DEF Fresh, Place, TypeOK
  <2>2. bornAt[h] \in Nat /\ at[e] \in Nat
    BY <1>1, <2>1 DEF TypeOK
  <2> QED
    BY <1>1, <2>1, <2>2
<1>4. ASSUME NEW e \in Events \ events, NEW b \in events,
             Promised(h, e), at[e] < at[b]
      PROVE  status[<<h, e>>] # "absent"
  <2>1. CASE at[e] < read.cursor
    BY <1>4, <2>1 DEF Place, NothingBehind, Promised, Owed
  <2>2. CASE at[e] >= read.cursor
    <3>1. b \in Events
      BY <1>1 DEF Fresh, TypeOK
    <3>2. at[e] \in Nat /\ at[b] \in Nat
      BY <1>1, <3>1 DEF TypeOK
    <3>3. e \notin Fresh(read)
      BY <1>4, <3>2 DEF FirstOf
    <3> QED
      BY <1>4, <2>2, <3>3 DEF Fresh, Promised, Owed
  <2>3. at[e] \in Nat
    BY <1>1 DEF TypeOK
  <2> QED BY <1>1, <2>1, <2>2, <2>3
<1> QED
  BY <1>2, <1>3, <1>4 DEF Taken

(* The last of what was taken and queued is a place to read from. *)
LEMMA LastTakenIsAPlace ==
  ASSUME TypeOK, NEW h \in Hooks, NEW events \in SUBSET Events,
         Taken(h, events), AllQueued(h, events),
         NEW e \in events, \A f \in events : at[f] <= at[e]
  PROVE  Place(h, at[e])
<1>1. hook[h] # "none" /\ bornAt[h] <= at[e] /\ e \in feed
  BY DEF Taken
<1>2. NothingBehind(h, at[e])
  BY DEF Taken, AllQueued, NothingBehind, Promised, Owed
<1> QED
  BY <1>1, <1>2 DEF Place

LEMMA CursorStays ==
  ASSUME TypeOK, TypeOK', OnlyForward, NEW h \in Hooks,
         hook[h] # "none" => Place(h, cursorAt[h]),
         hook[h] # "none" \/ hook'[h] = "none",
         cursorAt'[h] = cursorAt[h], hook'[h] # "none"
  PROVE  Place(h, cursorAt[h])'
<1>1. PICK c \in Nat : c = cursorAt[h]
  BY DEF TypeOK
<1>2. Place(h, c)
  BY <1>1
<1>3. Place(h, c)'
  BY <1>2, PlaceStays
<1> QED
  BY <1>1, <1>3 DEF Place, NothingBehind, Promised, Owed

LEMMA GoesByStays ==
  ASSUME TypeOK, TypeOK', OnlyForward, NEW s \in Sweeps, InHand(s), GoesBy(s),
         todo'[s] \subseteq todo[s], batch'[s] = batch[s],
         pc'[s] = pc[s] \/ pc'[s] \notin {"queueing", "moving"}
  PROVE  GoesBy(s)'
<1>1. ASSUME NEW read \in todo'[s] PROVE Place(read.hook, read.cursor)'
  <2>1. read \in todo[s] /\ read.hook \in Hooks /\ read.cursor \in Nat
    BY DEF TypeOK
  <2>2. Place(read.hook, read.cursor)
    BY <2>1 DEF GoesBy
  <2> QED
    BY <2>1, <2>2, PlaceStays
<1>2. ASSUME pc[s] \in {"queueing", "moving"}, pc'[s] = pc[s]
      PROVE  /\ Taken(batch[s].hook, batch[s].events)'
             /\ pc[s] = "moving" => AllQueued(batch[s].hook, batch[s].events)'
  <2>1. PICK h \in Hooks, events \in SUBSET Events :
          h = batch[s].hook /\ events = batch[s].events
    BY <1>2 DEF TypeOK, InHand
  <2>2. /\ Taken(h, events)
        /\ pc[s] = "moving" => AllQueued(h, events)
    BY <1>2, <2>1 DEF GoesBy
  <2>3. Taken(h, events)'
    BY <2>2, TakenStays
  <2>4. pc[s] = "moving" => AllQueued(h, events)'
    BY <2>2, QueuedStays DEF Taken
  <2>5. h = batch'[s].hook /\ events = batch'[s].events
    BY <2>1
  <2>6. Taken(batch[s].hook, batch[s].events)'
    BY <2>3, <2>5 DEF Taken, Promised, Owed
  <2>7. pc[s] = "moving" => AllQueued(batch[s].hook, batch[s].events)'
    BY <2>4, <2>5 DEF AllQueued
  <2> QED
    BY <2>6, <2>7
<1> QED
  BY <1>1, <1>2 DEF GoesBy

LEMMA CursorStep ==
  WorkInv /\ FeedInv /\ CursorInv /\ [Next]_vars => CursorInv'
<1> SUFFICES ASSUME WorkInv, FeedInv, CursorInv, [Next]_vars PROVE CursorInv'
  OBVIOUS
<1>1. /\ TypeOK /\ TypeOK' /\ OnlyForward
      /\ \A s \in Sweeps : InHand(s) /\ GoesBy(s)
      /\ \A h \in Hooks : hook[h] # "none" => Place(h, cursorAt[h])
  BY TypeStep, StepsOnlyForward DEF WorkInv, CursorInv
<1>2. ASSUME NEW h \in Hooks, cursorAt'[h] = cursorAt[h],
             hook[h] # "none" \/ hook'[h] = "none"
      PROVE  hook'[h] # "none" => Place(h, cursorAt[h])'
  BY <1>1, <1>2, CursorStays
<1>3. ASSUME NEW s \in Sweeps,
             todo'[s] \subseteq todo[s], batch'[s] = batch[s],
             pc'[s] = pc[s] \/ pc'[s] \notin {"queueing", "moving"}
      PROVE  GoesBy(s)'
  BY <1>1, <1>3, GoesByStays
<1>4. CASE UNCHANGED <<hook, cursorAt, todo, batch, pc>>
  BY <1>2, <1>3, <1>4 DEF CursorInv
<1>5. ASSUME NEW h \in Hooks, AddHook(h) PROVE CursorInv'
  <2>1. /\ hook[h] = "none" /\ instant' = instant + 1
        /\ hook' = [hook EXCEPT ![h] = "live"]
        /\ bornAt' = [bornAt EXCEPT ![h] = instant']
        /\ cursorAt' = [cursorAt EXCEPT ![h] = instant']
        /\ UNCHANGED <<todo, batch, pc, at>>
    BY <1>5 DEF AddHook, fanVars
  <2>2. ASSUME NEW k \in Hooks, hook'[k] # "none"
        PROVE  Place(k, cursorAt[k])'
    <3>1. CASE k # h
      <4>1. hook'[k] = hook[k] /\ cursorAt'[k] = cursorAt[k]
        BY <1>1, <2>1, <3>1 DEF TypeOK
      <4> QED
        BY <1>2, <2>2, <4>1
    <3>2. CASE k = h
      <4>1. bornAt'[h] = instant' /\ cursorAt'[h] = instant' /\ instant' \in Nat
        BY <1>1, <2>1 DEF TypeOK
      <4>2. \A e \in Events : Owed(h, e)' => ~(at'[e] < instant')
        BY <1>1, <4>1 DEF Owed, TypeOK
      <4> QED
        BY <2>2, <3>2, <4>1, <4>2 DEF Place, NothingBehind, Promised, Owed
    <3> QED BY <3>1, <3>2
  <2> QED
    BY <1>3, <2>1, <2>2 DEF CursorInv
<1>6. ASSUME NEW h \in Hooks, DeleteHook(h) \/ DeleteHistory(h) PROVE CursorInv'
  <2>1. /\ hook[h] # "none" /\ UNCHANGED <<cursorAt, todo, batch, pc>>
        /\ \A k \in Hooks : k # h => hook'[k] = hook[k]
    BY <1>1, <1>6 DEF DeleteHook, DeleteHistory, fanVars, TypeOK
  <2>2. ASSUME NEW k \in Hooks
        PROVE  hook'[k] # "none" => Place(k, cursorAt[k])'
    BY <1>2, <2>1
  <2> QED
    BY <1>3, <2>1, <2>2 DEF CursorInv
<1>7. ASSUME NEW s \in Sweeps, Start(s) PROVE CursorInv'
  <2>1. /\ UNCHANGED <<hook, cursorAt, batch, feedVars, bornAt, status>>
        /\ pc' = [pc EXCEPT ![s] = "fanning"]
        /\ todo' = [todo EXCEPT ![s] =
             {[hook |-> h, cursor |-> cursorAt[h]] :
                h \in {k \in Hooks : hook[k] = "live" /\ Wants[k] # {}}}]
    BY <1>7 DEF Start, hookVars, rows
  <2>2. ASSUME NEW t \in Sweeps PROVE GoesBy(t)'
    <3>1. CASE t # s
      BY <1>1, <1>3, <2>1, <3>1 DEF TypeOK
    <3>2. CASE t = s
      <4>1. ASSUME NEW read \in todo'[s] PROVE Place(read.hook, read.cursor)'
        <5>1. PICK h \in Hooks :
                /\ hook[h] = "live"
                /\ read = [hook |-> h, cursor |-> cursorAt[h]]
          BY <1>1, <2>1 DEF TypeOK
        <5>2. PICK c \in Nat : c = cursorAt[h]
          BY <1>1 DEF TypeOK
        <5>3. Place(h, c)
          BY <1>1, <5>1, <5>2
        <5>4. Place(h, c)'
          BY <1>1, <5>3, PlaceStays
        <5>5. read.hook = h /\ read.cursor = c
          BY <5>1, <5>2
        <5> QED
          BY <5>4, <5>5
      <4>2. pc'[s] = "fanning"
        BY <1>1, <2>1 DEF TypeOK
      <4> QED
        BY <3>2, <4>1, <4>2 DEF GoesBy
    <3> QED BY <3>1, <3>2
  <2> QED
    BY <1>2, <2>1, <2>2 DEF CursorInv
<1>8. ASSUME NEW s \in Sweeps, NEW read \in todo[s], ReadFeed(s, read)
      PROVE  CursorInv'
  <2>1. /\ UNCHANGED <<hook, cursorAt, at, bornAt, feed, status>>
        /\ todo' = [todo EXCEPT ![s] = @ \ {read}] /\ pc[s] = "fanning"
    BY <1>8 DEF ReadFeed, hookVars, feedVars, rows
  <2>2. read \in [hook : Hooks, cursor : Nat]
    BY <1>1 DEF TypeOK
  <2>3. PICK events \in SUBSET Fresh(read) :
          /\ FirstOf(events, Fresh(read), FanOutLimit, at)
          /\ IF events = {}
             THEN UNCHANGED <<pc, batch>>
             ELSE /\ pc' = [pc EXCEPT ![s] = "queueing"]
                  /\ batch' = [batch EXCEPT ![s] =
                       [hook |-> read.hook, events |-> events]]
    BY <1>8 DEF ReadFeed
  <2>4. todo'[s] \subseteq todo[s] /\ \A t \in Sweeps \ {s} : todo'[t] = todo[t]
    BY <1>1, <2>1 DEF TypeOK
  <2>5. ASSUME NEW t \in Sweeps PROVE GoesBy(t)'
    <3>1. CASE t # s \/ events = {}
      <4>1. pc'[t] = pc[t] /\ batch'[t] = batch[t] /\ todo'[t] \subseteq todo[t]
        BY <1>1, <2>3, <2>4, <3>1 DEF TypeOK
      <4> QED
        BY <1>3, <4>1
    <3>2. CASE t = s /\ events # {}
      <4>1. /\ pc'[s] = "queueing"
            /\ batch'[s] = [hook |-> read.hook, events |-> events]
        BY <1>1, <2>3, <3>2 DEF TypeOK
      <4>2. PICK h \in Hooks : h = read.hook
        BY <2>2
      <4>3. Place(read.hook, read.cursor)
        BY <1>1 DEF GoesBy
      <4>4. Taken(h, events) /\ events \in SUBSET Events
        BY <1>1, <2>2, <2>3, <4>2, <4>3, ReadTakes DEF Fresh, TypeOK
      <4>5. Taken(h, events)'
        BY <1>1, <4>4, TakenStays
      <4>6. batch'[s].hook = h /\ batch'[s].events = events
        BY <4>1, <4>2
      <4>7. Taken(batch[s].hook, batch[s].events)'
        BY <4>5, <4>6 DEF Taken, Promised, Owed
      <4>8. ASSUME NEW r \in todo'[s] PROVE Place(r.hook, r.cursor)'
        <5>1. r \in todo[s] /\ r.hook \in Hooks /\ r.cursor \in Nat
          BY <1>1, <2>4 DEF TypeOK
        <5>2. Place(r.hook, r.cursor)
          BY <1>1, <5>1 DEF GoesBy
        <5> QED
          BY <1>1, <5>1, <5>2, PlaceStays
      <4> QED
        BY <3>2, <4>1, <4>7, <4>8 DEF GoesBy
    <3> QED BY <3>1, <3>2
  <2> QED
    BY <1>2, <2>1, <2>5 DEF CursorInv
<1>9. ASSUME NEW s \in Sweeps, Queue(s) PROVE CursorInv'
  <2>1. /\ UNCHANGED <<hook, cursorAt, todo, batch>> /\ pc[s] = "queueing"
        /\ pc' = [pc EXCEPT ![s] = "moving"]
        /\ status' = [d \in Deliveries |->
             IF d \in Queued(s) THEN "pending" ELSE status[d]]
    BY <1>9 DEF Queue, hookVars, fanVars
  <2>2. ASSUME NEW t \in Sweeps PROVE GoesBy(t)'
    <3>1. CASE t # s
      <4>1. pc'[t] = pc[t]
        BY <1>1, <2>1, <3>1 DEF TypeOK
      <4> QED
        BY <1>3, <2>1, <4>1
    <3>2. CASE t = s
      <4>1. PICK h \in Hooks, events \in SUBSET Events :
              h = batch[s].hook /\ events = batch[s].events
        BY <1>1, <2>1 DEF TypeOK, InHand
      <4>2. Taken(h, events)
        BY <1>1, <2>1, <4>1 DEF GoesBy
      <4>3. Taken(h, events)'
        BY <1>1, <4>2, TakenStays
      <4>4. ASSUME NEW e \in events PROVE status'[<<h, e>>] # "absent"
        <5>1. <<h, e>> \in Deliveries
          BY DEF Deliveries
        <5> QED
          BY <2>1, <4>1, <5>1 DEF Queued
      <4>5. h = batch'[s].hook /\ events = batch'[s].events
        BY <2>1, <4>1
      <4>6. Taken(batch[s].hook, batch[s].events)'
        BY <4>3, <4>5 DEF Taken, Promised, Owed
      <4>7. AllQueued(batch[s].hook, batch[s].events)'
        BY <4>4, <4>5 DEF AllQueued
      <4>8. ASSUME NEW r \in todo'[s] PROVE Place(r.hook, r.cursor)'
        <5>1. r \in todo[s] /\ r.hook \in Hooks /\ r.cursor \in Nat
          BY <1>1, <2>1 DEF TypeOK
        <5>2. Place(r.hook, r.cursor)
          BY <1>1, <5>1 DEF GoesBy
        <5> QED
          BY <1>1, <5>1, <5>2, PlaceStays
      <4> QED
        BY <3>2, <4>6, <4>7, <4>8 DEF GoesBy
    <3> QED BY <3>1, <3>2
  <2> QED
    BY <1>2, <2>1, <2>2 DEF CursorInv
<1>10. ASSUME NEW s \in Sweeps, MoveCursor(s) PROVE CursorInv'
  <2>1. /\ UNCHANGED <<hook, todo>> /\ pc[s] = "moving"
        /\ pc' = [pc EXCEPT ![s] = "fanning"]
        /\ batch' = [batch EXCEPT ![s] = NoBatch]
    BY <1>10 DEF MoveCursor
  <2>2. PICK h \in Hooks, events \in SUBSET Events :
          h = batch[s].hook /\ events = batch[s].events
    BY <1>1, <2>1 DEF TypeOK, InHand
  <2>3. PICK e \in events :
          /\ \A f \in events : at[f] <= at[e]
          /\ cursorAt' = [cursorAt EXCEPT ![h] =
               IF hook[h] = "live" THEN at[e] ELSE cursorAt[h]]
    BY <1>10, <2>2 DEF MoveCursor
  <2>4. ASSUME NEW k \in Hooks, hook'[k] # "none"
        PROVE  Place(k, cursorAt[k])'
    <3>1. CASE cursorAt'[k] = cursorAt[k]
      BY <1>2, <2>1, <2>4, <3>1
    <3>2. CASE cursorAt'[k] # cursorAt[k]
      <4>1. k = h /\ cursorAt'[h] = at[e]
        BY <1>1, <2>3, <3>2 DEF TypeOK
      <4>2. Place(h, at[e])
        <5>1. Taken(h, events) /\ AllQueued(h, events)
          BY <1>1, <2>1, <2>2 DEF GoesBy
        <5> QED
          BY <1>1, <2>3, <5>1, LastTakenIsAPlace
      <4>3. PICK c \in Nat : c = at[e]
        BY <1>1 DEF TypeOK
      <4>4. Place(h, c)'
        BY <1>1, <4>2, <4>3, PlaceStays
      <4> QED
        BY <4>1, <4>3, <4>4 DEF Place, NothingBehind, Promised, Owed
    <3> QED BY <3>1, <3>2
  <2>5. ASSUME NEW t \in Sweeps PROVE GoesBy(t)'
    <3>1. CASE t # s
      <4>1. pc'[t] = pc[t] /\ batch'[t] = batch[t]
        BY <1>1, <2>1, <3>1 DEF TypeOK
      <4> QED
        BY <1>3, <2>1, <4>1
    <3>2. CASE t = s
      <4>1. pc'[s] = "fanning"
        BY <1>1, <2>1 DEF TypeOK
      <4>2. ASSUME NEW r \in todo'[s] PROVE Place(r.hook, r.cursor)'
        <5>1. r \in todo[s] /\ r.hook \in Hooks /\ r.cursor \in Nat
          BY <1>1, <2>1 DEF TypeOK
        <5>2. Place(r.hook, r.cursor)
          BY <1>1, <5>1 DEF GoesBy
        <5> QED
          BY <1>1, <5>1, <5>2, PlaceStays
      <4> QED
        BY <3>2, <4>1, <4>2 DEF GoesBy
    <3> QED BY <3>1, <3>2
  <2> QED
    BY <2>4, <2>5 DEF CursorInv
<1>11. ASSUME NEW s \in Sweeps, Leave(s) PROVE CursorInv'
  <2>1. UNCHANGED <<hook, cursorAt>>
    BY <1>11 DEF Leave, hookVars
  <2>2. ASSUME NEW t \in Sweeps PROVE GoesBy(t)'
    <3>1. CASE t # s
      BY <1>1, <1>3, <1>11, <3>1 DEF Leave, TypeOK
    <3>2. CASE t = s
      BY <1>1, <1>11, <3>2 DEF Leave, GoesBy, TypeOK
    <3> QED BY <3>1, <3>2
  <2> QED
    BY <1>2, <2>1, <2>2 DEF CursorInv
<1>12. ASSUME NEW s \in Sweeps,
              \/ ReadDue(s) \/ Delivered(s) \/ Failed(s)
              \/ \E d \in listed[s] : Claim(s, d)
       PROVE  CursorInv'
  <2>1. UNCHANGED <<hook, cursorAt, todo, batch>>
    BY <1>12 DEF ReadDue, Delivered, Failed, Sent, Claim, hookVars, fanVars
  <2>2. \/ pc' = pc \/ pc' = [pc EXCEPT ![s] = "claiming"]
        \/ pc' = [pc EXCEPT ![s] = "sending"]
    BY <1>12 DEF ReadDue, Delivered, Failed, Sent, Claim
  <2>3. \A t \in Sweeps : pc'[t] = pc[t] \/ pc'[t] \in {"claiming", "sending"}
    BY <1>1, <2>2 DEF TypeOK
  <2> QED
    BY <1>2, <1>3, <2>1, <2>3 DEF CursorInv
<1>13. CASE UNCHANGED <<hookVars, fanVars, pc>>
  BY <1>4, <1>13 DEF hookVars, fanVars
<1> QED
  BY <1>5, <1>6, <1>7, <1>8, <1>9, <1>10, <1>11, <1>12, <1>13
  DEF Next, Step, Finish, Crash, Change, Commit, Tick, vars

LEMMA FeedHolds == Spec => [](FeedInv /\ CursorInv)
BY WorkHolds, FeedInit, CursorInit, FeedStep, CursorStep, PTL DEF Spec

(* An endpoint's cursor never moves past a change the endpoint is owed and has
   not been queued, unless the change was committed after one with a later
   stamp: however sweeps overlap, repeat a page or die between statements. *)
THEOREM NothingIsPassedOver == Spec => []NothingPassedOver
<1>1. WorkInv /\ FeedInv /\ CursorInv => NothingPassedOver
  <2> SUFFICES ASSUME WorkInv, CursorInv, NEW h \in Hooks, NEW e \in Events,
                      Promised(h, e), status[<<h, e>>] = "absent"
               PROVE  at[e] >= cursorAt[h]
    BY DEF NothingPassedOver
  <2>1. NothingBehind(h, cursorAt[h])
    BY DEF CursorInv, Place, Promised, Owed
  <2>2. at[e] \in Nat /\ cursorAt[h] \in Nat
    BY DEF WorkInv, TypeOK
  <2> QED
    BY <2>1, <2>2 DEF NothingBehind
<1> QED
  BY <1>1, WorkHolds, FeedHolds, PTL

-----------------------------------------------------------------------------
(* Kept, one delivery at a time. *)
KeptOf(d) ==
  IF hook[d[1]] \in {"deleted", "gone"} THEN "dropped"
  ELSE IF status[d] = "pending" THEN "queued"
  ELSE IF status[d] = "absent"
  THEN IF ~Owed(d[1], d[2]) THEN "absent"
       ELSE IF d[2] \in late THEN "late" ELSE "owed"
  ELSE status[d]

KeptApart == \A d \in Deliveries : Kept[d] = KeptOf(d)

LEMMA KeptIs == TypeOK => KeptApart
<1> SUFFICES ASSUME TypeOK, NEW d \in Deliveries PROVE Kept[d] = KeptOf(d)
  BY DEF KeptApart
<1>1. hook[d[1]] \in {"none", "live", "deleted", "gone"}
  BY DEF TypeOK, Deliveries
<1> QED
  BY <1>1 DEF Kept, KeptOf

LEMMA KeptIsNext == TypeOK' => KeptApart'
BY KeptIs, PTL

LEMMA KeptIsAFunction ==
  /\ Kept = [d \in Deliveries |-> Kept[d]]
  /\ Kept' = [d \in Deliveries |-> Kept'[d]]
BY DEF Kept

(* The deliveries a step changes all move from one state to another. *)
LEMMA Moves ==
  ASSUME NEW from, NEW to,
         \A d \in Deliveries :
           Kept'[d] = Kept[d] \/ (Kept[d] \in from /\ Kept'[d] = to)
  PROVE  \E some \in SUBSET Deliveries : Outbox!Move(some, from, to)
<1> DEFINE some == {d \in Deliveries : Kept'[d] # Kept[d]}
<1>1. \A d \in some : Kept[d] \in from /\ Kept'[d] = to
  OBVIOUS
<1>2. Kept' = [d \in Deliveries |-> IF d \in some THEN to ELSE Kept[d]]
  BY <1>1, KeptIsAFunction
<1>3. Outbox!Move(some, from, to)
  BY <1>1, <1>2 DEF Outbox!Move, Outbox!Deliveries, Deliveries
<1> QED
  BY <1>3

LEMMA MovesOne ==
  ASSUME NEW it \in Deliveries, NEW from, NEW to,
         Kept[it] \in from, Kept'[it] = to,
         \A d \in Deliveries : d # it => Kept'[d] = Kept[d]
  PROVE  Outbox!Move({it}, from, to)
<1>1. Kept' = [d \in Deliveries |-> IF d \in {it} THEN to ELSE Kept[d]]
  BY KeptIsAFunction
<1> QED
  BY <1>1 DEF Outbox!Move, Outbox!Deliveries, Deliveries

LEMMA Stutters ==
  ASSUME \A d \in Deliveries : Kept'[d] = Kept[d]
  PROVE  Kept' = Kept
BY KeptIsAFunction

LEMMA OutboxInit == Init => Outbox!Init
<1> SUFFICES ASSUME Init PROVE Kept = [d \in Deliveries |-> "absent"]
  BY DEF Outbox!Init, Outbox!Deliveries, Deliveries
<1>1. \A d \in Deliveries : Kept[d] = "absent"
  BY DEF Init, Kept, Owed, Deliveries
<1> QED
  BY <1>1, KeptIsAFunction

LEMMA OutboxStep ==
  WorkInv /\ LeaseInv /\ FeedInv /\ CursorInv /\ [Next]_vars
    => [Outbox!Next]_Kept
<1> SUFFICES ASSUME WorkInv, LeaseInv, FeedInv, CursorInv, [Next]_vars
             PROVE  Outbox!Next \/ Kept' = Kept
  OBVIOUS
<1>1. /\ TypeOK /\ TypeOK'
      /\ \A d \in Deliveries : Kept[d] = KeptOf(d) /\ Kept'[d] = KeptOf(d)'
  BY TypeStep, KeptIs, KeptIsNext DEF WorkInv, KeptApart
<1>2. ASSUME UNCHANGED <<hook, status, feed, late, bornAt>>,
             \A e \in feed : at'[e] = at[e]
      PROVE  Kept' = Kept
  <2>1. ASSUME NEW d \in Deliveries PROVE KeptOf(d)' = KeptOf(d)
    BY <1>2 DEF KeptOf, Owed
  <2> QED
    BY <1>1, <2>1, Stutters
<1>3. ASSUME NEW e \in Events, Change(e) PROVE Kept' = Kept
  <2>1. /\ at[e] = 0 /\ at' = [at EXCEPT ![e] = instant']
        /\ UNCHANGED <<hook, status, feed, late, bornAt>>
    BY <1>3 DEF Change, hookVars, rows
  <2>2. \A f \in feed : at'[f] = at[f]
    BY <1>1, <2>1 DEF FeedInv, TypeOK
  <2> QED
    BY <1>2, <2>1, <2>2
<1>4. ASSUME NEW e \in Events, Commit(e) PROVE Outbox!Next
  <2>1. /\ feed' = feed \cup {e} /\ e \notin feed
        /\ late' = late \cup {e} \/ late' = late
        /\ UNCHANGED <<at, hook, status, bornAt>>
    BY <1>4 DEF Commit, hookVars, rows
  <2>2. PICK to \in {"owed", "late"} : e \in late' <=> to = "late"
    BY Zenon
  <2>3. e \notin late
    BY <1>1, <2>1 DEF TypeOK
  <2>4. ASSUME NEW d \in Deliveries
        PROVE  \/ Kept'[d] = Kept[d]
               \/ Kept[d] \in {"absent"} /\ Kept'[d] = to
    <3>1. CASE d[2] = e
      <4>1. KeptOf(d)' \in {KeptOf(d), to}
        BY <2>1, <2>2, <3>1 DEF KeptOf, Owed
      <4>2. KeptOf(d) # "absent" => KeptOf(d)' = KeptOf(d)
        BY <2>1, <3>1 DEF KeptOf, Owed
      <4> QED
        BY <1>1, <4>1, <4>2
    <3>2. CASE d[2] # e
      <4>1. KeptOf(d)' = KeptOf(d)
        BY <2>1, <3>2 DEF KeptOf, Owed
      <4> QED
        BY <1>1, <4>1
    <3> QED BY <3>1, <3>2
  <2>5. PICK some \in SUBSET Deliveries : Outbox!Move(some, {"absent"}, to)
    BY <2>4, Moves
  <2>6. Outbox!Owe(some)
    BY <2>2, <2>5 DEF Outbox!Owe
  <2> QED
    BY <2>6 DEF Outbox!Next, Outbox!Deliveries, Deliveries
<1>5. ASSUME NEW h \in Hooks, AddHook(h) PROVE Kept' = Kept
  <2>1. /\ hook[h] = "none" /\ hook' = [hook EXCEPT ![h] = "live"]
        /\ bornAt' = [bornAt EXCEPT ![h] = instant'] /\ instant' = instant + 1
        /\ UNCHANGED <<at, feed, late, status>>
    BY <1>5 DEF AddHook, rows
  <2>2. ASSUME NEW d \in Deliveries PROVE KeptOf(d)' = KeptOf(d)
    <3>1. d[1] \in Hooks /\ d[2] \in Events
      BY DEF Deliveries
    <3>2. CASE d[1] # h
      <4>1. hook'[d[1]] = hook[d[1]] /\ bornAt'[d[1]] = bornAt[d[1]]
        BY <1>1, <2>1, <3>1, <3>2 DEF TypeOK
      <4> QED
        BY <2>1, <4>1 DEF KeptOf, Owed
    <3>3. CASE d[1] = h
      <4>1. hook'[d[1]] = "live" /\ bornAt'[d[1]] = instant + 1
        BY <1>1, <2>1, <3>3 DEF TypeOK
      <4>2. at[d[2]] <= instant /\ at[d[2]] \in Nat /\ instant \in Nat
        BY <1>1, <3>1 DEF FeedInv, TypeOK
      <4>3. ~Owed(d[1], d[2]) /\ ~Owed(d[1], d[2])'
        BY <2>1, <3>3, <4>1, <4>2 DEF Owed
      <4> QED
        BY <2>1, <3>3, <4>1, <4>3 DEF KeptOf
    <3> QED BY <3>2, <3>3
  <2> QED
    BY <1>1, <2>2, Stutters
<1>6. ASSUME NEW h \in Hooks, DeleteHook(h) PROVE Outbox!Next
  <2>1. /\ hook' = [hook EXCEPT ![h] = "deleted"]
        /\ UNCHANGED <<at, feed, late, bornAt, status>>
    BY <1>6 DEF DeleteHook, feedVars, rows
  <2>2. ASSUME NEW d \in Deliveries
        PROVE  Kept'[d] = IF d[1] = h THEN "dropped" ELSE Kept[d]
    <3>1. d[1] \in Hooks
      BY DEF Deliveries
    <3>2. hook'[d[1]] = IF d[1] = h THEN "deleted" ELSE hook[d[1]]
      BY <1>1, <2>1, <3>1 DEF TypeOK
    <3>3. KeptOf(d)' = IF d[1] = h THEN "dropped" ELSE KeptOf(d)
      BY <2>1, <3>2 DEF KeptOf, Owed
    <3> QED
      BY <1>1, <3>3
  <2>3. Kept' = [d \in Deliveries |-> IF d[1] = h THEN "dropped" ELSE Kept[d]]
    BY <2>2, KeptIsAFunction
  <2> QED
    BY <2>3 DEF Outbox!Next, Outbox!Drop, Outbox!Deliveries, Deliveries
<1>7. ASSUME NEW h \in Hooks, DeleteHistory(h) PROVE Kept' = Kept
  <2>1. /\ hook[h] = "deleted" /\ hook' = [hook EXCEPT ![h] = "gone"]
        /\ status' = [d \in Deliveries |->
             IF d[1] = h THEN "absent" ELSE status[d]]
        /\ UNCHANGED <<at, feed, late, bornAt>>
    BY <1>7 DEF DeleteHistory, feedVars
  <2>2. ASSUME NEW d \in Deliveries PROVE KeptOf(d)' = KeptOf(d)
    <3>1. d[1] \in Hooks
      BY DEF Deliveries
    <3>2. hook'[d[1]] = IF d[1] = h THEN "gone" ELSE hook[d[1]]
      BY <1>1, <2>1, <3>1 DEF TypeOK
    <3> QED
      BY <2>1, <3>2 DEF KeptOf, Owed
  <2> QED
    BY <1>1, <2>2, Stutters
<1>8. ASSUME NEW s \in Sweeps, Queue(s) PROVE Outbox!Next \/ Kept' = Kept
  <2>1. /\ pc[s] = "queueing" /\ UNCHANGED <<at, feed, late, hook, bornAt>>
        /\ status' = [d \in Deliveries |->
             IF d \in Queued(s) THEN "pending" ELSE status[d]]
    BY <1>8 DEF Queue, feedVars, hookVars
  <2>2. Taken(batch[s].hook, batch[s].events)
    BY <2>1 DEF CursorInv, GoesBy
  <2>3. ASSUME NEW d \in Deliveries
        PROVE  \/ Kept'[d] = Kept[d]
               \/ Kept[d] \in {"owed", "late"} /\ Kept'[d] = "queued"
    <3>1. CASE d \notin Queued(s)
      <4>1. KeptOf(d)' = KeptOf(d)
        BY <2>1, <3>1 DEF KeptOf, Owed
      <4> QED
        BY <1>1, <4>1
    <3>2. CASE d \in Queued(s)
      <4>1. /\ d[1] = batch[s].hook /\ d[2] \in batch[s].events
            /\ status[d] = "absent" /\ status'[d] = "pending"
        BY <2>1, <3>2 DEF Queued
      <4>2. /\ d[2] \in feed \cap Wants[d[1]] /\ bornAt[d[1]] <= at[d[2]]
            /\ hook[d[1]] \in {"live", "deleted", "gone"}
        BY <1>1, <2>2, <4>1 DEF Taken, Deliveries, TypeOK
      <4>3. CASE hook[d[1]] = "live"
        <5>1. bornAt[d[1]] \in Nat /\ at[d[2]] \in Nat
          BY <1>1 DEF TypeOK, Deliveries
        <5>2. Owed(d[1], d[2])
          BY <4>2, <4>3, <5>1 DEF Owed
        <5>3. KeptOf(d) \in {"owed", "late"} /\ KeptOf(d)' = "queued"
          BY <2>1, <4>1, <4>3, <5>2 DEF KeptOf
        <5> QED
          BY <1>1, <5>3
      <4>4. CASE hook[d[1]] \in {"deleted", "gone"}
        <5>1. KeptOf(d)' = KeptOf(d)
          BY <2>1, <4>4 DEF KeptOf
        <5> QED
          BY <1>1, <5>1
      <4> QED BY <4>2, <4>3, <4>4
    <3> QED BY <3>1, <3>2
  <2>4. \E some \in SUBSET Deliveries :
          Outbox!Move(some, {"owed", "late"}, "queued")
    BY <2>3, Moves
  <2> QED
    BY <2>4 DEF Outbox!Next, Outbox!Queue, Outbox!Deliveries, Deliveries
<1>9. ASSUME NEW s \in Sweeps, Delivered(s) \/ Failed(s)
      PROVE  Outbox!Next \/ Kept' = Kept
  <2>1. PICK it \in Deliveries : it = sending[s]
    BY <1>9 DEF Delivered, Failed, Sent, WorkInv, InHand
  <2>2. /\ pc[s] = "sending" /\ it \in Deliveries
        /\ UNCHANGED <<at, feed, late, hook, bornAt>>
    BY <1>9 DEF Delivered, Failed, Sent, feedVars, hookVars
  <2>3. CASE ~HasRow(it)
    <3>1. UNCHANGED status
      BY <1>9, <2>1, <2>3 DEF Delivered, Failed, rows
    <3> QED
      BY <1>2, <2>2, <3>1
  <2>4. CASE HasRow(it)
    <3>1. status[it] \in {"pending", "delivered", "abandoned"}
      BY <1>1, <2>4 DEF HasRow, TypeOK
    <3>2. it \notin overrun => status[it] = "pending"
      BY <2>1, <2>2, <2>4 DEF LeaseInv, Held, HasRow
    <3>3. PICK to \in {"pending", "delivered", "abandoned"} :
            status' = [status EXCEPT ![it] = to]
      BY <1>9, <2>1, <2>4 DEF Delivered, Failed
    <3>4. \A d \in Deliveries : status'[d] = IF d = it THEN to ELSE status[d]
      BY <1>1, <3>3 DEF TypeOK
    <3>5. ASSUME NEW d \in Deliveries, d # it PROVE Kept'[d] = Kept[d]
      <4>1. KeptOf(d)' = KeptOf(d)
        BY <2>2, <3>4, <3>5 DEF KeptOf, Owed
      <4> QED
        BY <1>1, <4>1
    <3>6. CASE to = status[it] \/ hook[it[1]] \in {"deleted", "gone"}
      <4>1. KeptOf(it)' = KeptOf(it)
        BY <2>2, <3>1, <3>4, <3>6 DEF KeptOf
      <4> QED
        BY <1>1, <2>2, <3>5, <4>1, Stutters
    <3>7. CASE to # status[it] /\ hook[it[1]] \notin {"deleted", "gone"}
      <4>1. PICK is \in Outbox!Answers :
              /\ is = KeptOf(it)' /\ (to # "pending" => is = to)
        BY <2>2, <3>4, <3>7 DEF KeptOf, Outbox!Answers
      <4>2. /\ KeptOf(it) \in Outbox!Answers
            /\ it \notin overrun => KeptOf(it) = "queued"
        BY <2>2, <3>1, <3>2, <3>7 DEF KeptOf, Outbox!Answers
      <4>3. Kept[it] = KeptOf(it) /\ Kept'[it] = is
        BY <1>1, <2>2, <4>1
      <4>4. CASE it \notin overrun
        <5>1. Outbox!Move({it}, {"queued"}, is)
          BY <3>5, <4>2, <4>3, <4>4, MovesOne
        <5>2. is \in {"delivered", "abandoned"}
          BY <3>2, <3>7, <4>1, <4>4
        <5>3. Outbox!Settle(it)
          BY <5>1, <5>2 DEF Outbox!Settle
        <5> QED
          BY <5>3 DEF Outbox!Next, Outbox!Deliveries, Deliveries
      <4>5. CASE it \in overrun
        <5>1. Outbox!Move({it}, Outbox!Answers, is)
          BY <3>5, <4>2, <4>3, MovesOne
        <5>2. Outbox!Rewrite(it)
          BY <4>5, <5>1 DEF Outbox!Rewrite
        <5> QED
          BY <5>2 DEF Outbox!Next, Outbox!Deliveries, Deliveries
      <4> QED BY <4>4, <4>5
    <3> QED BY <3>6, <3>7
  <2> QED BY <2>3, <2>4
<1>10. CASE UNCHANGED <<feedVars, hook, bornAt, status>>
  BY <1>2, <1>10 DEF feedVars
<1> QED
  BY <1>3, <1>4, <1>5, <1>6, <1>7, <1>8, <1>9, <1>10
  DEF Next, Step, Finish, Crash, Leave, Start, ReadFeed, MoveCursor, ReadDue,
      Claim, Tick, vars, hookVars, rows

(* Every statement of the job and of the screens is a step of the promise or
   changes nothing of it: what an endpoint is owed is queued once, ends
   delivered or given up on, and stays so until the endpoint is deleted, unless
   an attempt outlived its lease and writes again.  (That it ends at all is the
   fairness of EventOutbox, which TLC checks.) *)
THEOREM PromiseIsKeptStepByStep == Spec => Outbox!Safety
BY WorkHolds, LeaseHolds, FeedHolds, OutboxInit, OutboxStep, PTL
DEF Spec, Outbox!Safety
=============================================================================
