--------------------------- MODULE PaymentWebhook ---------------------------
(***************************************************************************)
(* The one door a payment processor knocks on                              *)
(* (modules-free/settings/src/payment-webhook.ts).  A processor delivers   *)
(* an event until it hears 200, and may deliver it again while an earlier  *)
(* delivery is still open.  Each delivery is verified, written down under  *)
(* a unique index, settled with the processor and offered to the modules   *)
(* that listen, in statements of its own; it can be cut short between any  *)
(* two of them, by a crash or by a database call that throws.              *)
(*                                                                         *)
(* The processor and the modules that listen are not in this repository:   *)
(* a module recognises the events that are its own, and either acts on one *)
(* whole or throws.                                                        *)
(***************************************************************************)
EXTENDS Naturals, Sequences

CONSTANTS
  Events,      \* events the processor raises
  Nameless,    \* those whose body carries no id
  Deliveries,  \* requests that can be open at once
  Consumers,   \* modules
  NoOne,
  NoEvent,
  Listening,   \* the registered consumers, in registration order
  Owner,       \* the module that recognises each event, if any
  MissLimit,   \* WEBHOOK_MISSES
  MaxFaults    \* bound on what goes wrong: throws, crashes, lost answers

ASSUME EventsAssumption ==
  /\ NoEvent \notin Events
  /\ Nameless \subseteq Events
ASSUME ConsumersAssumption ==
  /\ NoOne \notin Consumers
  /\ Listening \in Seq(Consumers)
  /\ \A a, b \in 1 .. Len(Listening) : Listening[a] = Listening[b] => a = b
  /\ Owner \in [Events -> Consumers \cup {NoOne}]
ASSUME BoundsAssumption == MissLimit \in Nat \ {0} /\ MaxFaults \in Nat

VARIABLES
  connection,  \* the enabled paymentAccounts row: "off", or whether its
               \* signing secret is the live endpoint's
  warned,      \* webhookRejectedCount > 0, what the connect screen warns of
  misses,      \* unverified deliveries the limiter still remembers
  recorded,    \* the event has a row in paymentWebhookEvents
  claimedBy,   \* that row's claimedBy
  handled,     \* how often a module has acted on the event
  delivery,    \* where each open request is
  acked,       \* events the processor has been answered 200 for
  cut,         \* events a delivery was cut short of
  faults

vars == <<connection, warned, misses, recorded, claimedBy, handled, delivery,
          acked, cut, faults>>

Idle == [stage |-> "idle", event |-> NoEvent, turn |-> 0, trusted |-> FALSE]

DeliveryRecord ==
  [stage : {"idle", "verifying", "writing", "settling", "offering",
            "claiming", "answering"},
   event : Events \cup {NoEvent}, turn : Nat, trusted : BOOLEAN]

TypeOK ==
  /\ connection \in {"off", "stale", "good"}
  /\ warned \in BOOLEAN
  /\ misses \in 0 .. MissLimit
  /\ recorded \in [Events -> BOOLEAN]
  /\ claimedBy \in [Events -> Consumers \cup {NoOne}]
  /\ handled \in [Events -> Nat]
  /\ delivery \in [Deliveries -> DeliveryRecord]
  /\ acked \subseteq Events
  /\ cut \subseteq Events
  /\ faults \in 0 .. MaxFaults

Ears == {Listening[k] : k \in 1 .. Len(Listening)}

(* A delivery past the insert: the row it wrote, if it wrote one, is its own
   to take back. *)
Dispatching(d, e) ==
  /\ delivery[d].stage \in {"settling", "offering", "claiming"}
  /\ delivery[d].event = e

Go(d, stage) == delivery' = [delivery EXCEPT ![d].stage = stage]
End(d) == delivery' = [delivery EXCEPT ![d] = Idle]
Fault == faults < MaxFaults /\ faults' = faults + 1

books == <<recorded, claimedBy, handled>>

-----------------------------------------------------------------------------
(* The processor sends an event it has not been answered for.  With no
   connection, or too many misses, the request is turned away and nothing is
   written: the processor tries again. *)
Deliver(d, e) ==
  /\ delivery[d] = Idle
  /\ e \notin acked
  /\ connection # "off" /\ misses < MissLimit
  /\ delivery' = [delivery EXCEPT ![d] =
       [stage |-> "verifying", event |-> e, turn |-> 0,
        trusted |-> connection = "good"]]
  /\ UNCHANGED <<connection, warned, misses, books, acked, cut, faults>>

(* Mutant: the limiter counts past its limit. *)
RefuseUncapped(d) ==
  /\ delivery[d].stage = "verifying" /\ ~delivery[d].trusted
  /\ warned' = TRUE
  /\ misses' = misses + 1
  /\ End(d)
  /\ UNCHANGED <<connection, books, acked, cut, faults>>

(* Nothing is written but the refusal the connect screen warns of, and the
   miss that counts towards the caller's limit. *)
Refuse(d) ==
  /\ delivery[d].stage = "verifying" /\ ~delivery[d].trusted
  /\ warned' = TRUE
  /\ misses' = IF misses < MissLimit THEN misses + 1 ELSE misses
  /\ End(d)
  /\ UNCHANGED <<connection, books, acked, cut, faults>>

Accept(d) ==
  /\ delivery[d].stage = "verifying" /\ delivery[d].trusted
  /\ warned' = FALSE
  /\ Go(d, "writing")
  /\ UNCHANGED <<connection, misses, books, acked, cut, faults>>

(* Mutant: the insert always writes, as if the index were not unique. *)
WriteDownTwice(d) ==
  LET e == delivery[d].event
  IN
  /\ delivery[d].stage = "writing"
  /\ recorded' = [recorded EXCEPT ![e] = e \notin Nameless]
  /\ Go(d, "settling")
  /\ UNCHANGED <<connection, warned, misses, claimedBy, handled, acked, cut,
                 faults>>

(* The insert under the unique index; an event with no id is dispatched
   without one. *)
WriteDown(d) ==
  LET e == delivery[d].event
  IN
  /\ delivery[d].stage = "writing"
  /\ ~recorded[e]
  /\ recorded' = [recorded EXCEPT ![e] = e \notin Nameless]
  /\ Go(d, "settling")
  /\ UNCHANGED <<connection, warned, misses, claimedBy, handled, acked, cut,
                 faults>>

(* Mutant: a duplicate is answered as a failure. *)
DuplicateRefused(d) ==
  /\ delivery[d].stage = "writing" /\ recorded[delivery[d].event]
  /\ End(d)
  /\ UNCHANGED <<connection, warned, misses, books, acked, cut, faults>>

(* Seen before: the insert found the row, and the answer is 200. *)
Duplicate(d) ==
  /\ delivery[d].stage = "writing" /\ recorded[delivery[d].event]
  /\ Go(d, "answering")
  /\ UNCHANGED <<connection, warned, misses, books, acked, cut, faults>>

Settle(d) ==
  /\ delivery[d].stage = "settling"
  /\ delivery' = [delivery EXCEPT ![d].stage = "offering", ![d].turn = 1]
  /\ UNCHANGED <<connection, warned, misses, books, acked, cut, faults>>

(* Mutant: what went wrong is answered 500 and the row is left behind. *)
NotForgotten(d) ==
  /\ End(d)
  /\ UNCHANGED <<recorded, claimedBy>>

(* The record taken back and 500 answered, so that the retry is heard. *)
Forget(d) ==
  /\ recorded' = [recorded EXCEPT ![delivery[d].event] = FALSE]
  /\ claimedBy' = [claimedBy EXCEPT ![delivery[d].event] = NoOne]
  /\ End(d)

SettleFails(d) ==
  /\ delivery[d].stage = "settling"
  /\ Forget(d)
  /\ Fault
  /\ UNCHANGED <<connection, warned, misses, handled, acked, cut>>

(* The consumer whose turn it is does not know the event, or there is none
   left to ask. *)
Decline(d) ==
  LET k == delivery[d].turn
  IN
  /\ delivery[d].stage = "offering"
  /\ IF k > Len(Listening) THEN Go(d, "answering")
     ELSE /\ Listening[k] # Owner[delivery[d].event]
          /\ delivery' = [delivery EXCEPT ![d].turn = k + 1]
  /\ UNCHANGED <<connection, warned, misses, books, acked, cut, faults>>

Handle(d) ==
  LET e == delivery[d].event
      k == delivery[d].turn
  IN
  /\ delivery[d].stage = "offering"
  /\ k \in 1 .. Len(Listening) /\ Listening[k] = Owner[e]
  /\ handled' = [handled EXCEPT ![e] = @ + 1]
  /\ Go(d, "claiming")
  /\ UNCHANGED <<connection, warned, misses, recorded, claimedBy, acked, cut,
                 faults>>

Throw(d) ==
  /\ delivery[d].stage = "offering"
  /\ delivery[d].turn \in 1 .. Len(Listening)
  /\ Forget(d)
  /\ Fault
  /\ UNCHANGED <<connection, warned, misses, handled, acked, cut>>

(* The row, if there is one, is told who acted. *)
Claim(d) ==
  LET e == delivery[d].event
  IN
  /\ delivery[d].stage = "claiming"
  /\ claimedBy' = [claimedBy EXCEPT ![e] = IF recorded[e] THEN Owner[e] ELSE @]
  /\ Go(d, "answering")
  /\ UNCHANGED <<connection, warned, misses, recorded, handled, acked, cut,
                 faults>>

Answer(d) ==
  /\ delivery[d].stage = "answering"
  /\ acked' = acked \cup {delivery[d].event}
  /\ End(d)
  /\ UNCHANGED <<connection, warned, misses, books, cut, faults>>

(* The 200 is lost, or comes after the processor stopped waiting for it. *)
AnswerLost(d) ==
  /\ delivery[d].stage = "answering"
  /\ End(d)
  /\ Fault
  /\ UNCHANGED <<connection, warned, misses, books, acked, cut>>

(* Cut short: the process dies, or a statement throws where no catch takes
   the record back. *)
Fall(d) ==
  /\ delivery[d].stage \notin {"idle", "answering"}
  /\ cut' = cut \cup {delivery[d].event}
  /\ End(d)
  /\ Fault
  /\ UNCHANGED <<connection, warned, misses, books, acked>>

(* Settings: the connection is switched on or off, or its secret changed. *)
Reconnect ==
  /\ connection' \in {"off", "stale", "good"} \ {connection}
  /\ UNCHANGED <<warned, misses, books, delivery, acked, cut, faults>>

(* A miss is older than the limiter's window. *)
MissAges ==
  /\ misses > 0
  /\ misses' = misses - 1
  /\ UNCHANGED <<connection, warned, books, delivery, acked, cut, faults>>

-----------------------------------------------------------------------------
Init ==
  /\ connection = "off"
  /\ warned = FALSE
  /\ misses = 0
  /\ recorded = [e \in Events |-> FALSE]
  /\ claimedBy = [e \in Events |-> NoOne]
  /\ handled = [e \in Events |-> 0]
  /\ delivery = [d \in Deliveries |-> Idle]
  /\ acked = {}
  /\ cut = {}
  /\ faults = 0

(* One request, from the first statement to its answer. *)
Serve(d) ==
  \/ Refuse(d) \/ Accept(d)
  \/ WriteDown(d) \/ Duplicate(d)
  \/ Settle(d) \/ SettleFails(d)
  \/ Decline(d) \/ Handle(d) \/ Throw(d)
  \/ Claim(d)
  \/ Answer(d) \/ AnswerLost(d)
  \/ Fall(d)

Next ==
  \/ \E d \in Deliveries : Serve(d) \/ \E e \in Events : Deliver(d, e)
  \/ Reconnect
  \/ MissAges

Spec == Init /\ [][Next]_vars

(* Every await of the handler returns or throws, the processor goes on
   delivering what it has not been answered for, and time passes. *)
Fairness ==
  /\ \A d \in Deliveries : WF_vars(Serve(d))
  /\ \A e \in Events : WF_vars(\E d \in Deliveries : Deliver(d, e))
  /\ WF_vars(MissAges)

FairSpec == Spec /\ Fairness

-----------------------------------------------------------------------------
(* "One charge, one journal entry": however many deliveries of an event are
   open at once, whatever throws and wherever one of them is cut short, a
   module acts on it at most once. *)
HandledOnce == \A e \in Events \ Nameless : handled[e] <= 1

(* "The record is the promise that this event was handled": a record nobody
   is working on was acted on and says by whom, or is of an event nobody
   listens for and is shown as unclaimed.  Only a delivery cut short can leave
   a promise open. *)
PromiseKept ==
  \A e \in Events :
    recorded[e] /\ e \notin cut /\ ~(\E d \in Deliveries : Dispatching(d, e)) =>
      IF Owner[e] \in Ears
      THEN handled[e] = 1 /\ claimedBy[e] = Owner[e]
      ELSE handled[e] = 0 /\ claimedBy[e] = NoOne

(* Once the connection is good and stays so, the processor is answered for
   every event, those included whose earlier delivery was refused, failed or
   left its record behind: it does not redeliver for ever. *)
EveryEventIsAnswered ==
  <>[](connection = "good") => \A e \in Events : <>(e \in acked)

(* "Never silent": an event the processor was answered 200 for stands on
   record once nobody is working on it. *)
NeverSilent ==
  \A e \in acked \ Nameless :
    recorded[e] \/ \E d \in Deliveries : Dispatching(d, e)
=============================================================================
