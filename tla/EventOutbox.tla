---------------------------- MODULE EventOutbox ----------------------------
(***************************************************************************)
(* What an endpoint is promised of one change: once it is owed the news of *)
(* it, the news is queued, once, and ends delivered or given up on.        *)
(* Nothing but the deletion of the endpoint stops it, and nothing but      *)
(* attempts that outlive their leases write an outcome twice.  News that   *)
(* came late to the feed may be queued; it is not promised.                *)
(***************************************************************************)
CONSTANTS Hooks, Events

VARIABLES
  state,
  outlived  \* given: what is in hand of an attempt that outlived its lease

Deliveries == Hooks \X Events

Init == state = [d \in Deliveries |-> "absent"]

Move(some, from, to) ==
  /\ \A d \in some : state[d] \in from
  /\ state' = [d \in Deliveries |-> IF d \in some THEN to ELSE state[d]]

Owe(some) == Move(some, {"absent"}, "owed") \/ Move(some, {"absent"}, "late")
Queue(some) == Move(some, {"owed", "late"}, "queued")
Settle(d) ==
  Move({d}, {"queued"}, "delivered") \/ Move({d}, {"queued"}, "abandoned")

Answers == {"queued", "delivered", "abandoned"}

Rewrite(d) ==
  d \in outlived /\ \E to \in Answers : Move({d}, Answers, to)

Drop(h) ==
  state' = [d \in Deliveries |-> IF d[1] = h THEN "dropped" ELSE state[d]]

Next ==
  \/ \E some \in SUBSET Deliveries : Owe(some) \/ Queue(some)
  \/ \E d \in Deliveries : Settle(d) \/ Rewrite(d)
  \/ \E h \in Hooks : Drop(h)

Safety == Init /\ [][Next]_state

Forward(d) == (state[d] = "owed" /\ Queue({d})) \/ Settle(d)

Spec == Safety /\ \A d \in Deliveries : WF_state(Forward(d))
=============================================================================
