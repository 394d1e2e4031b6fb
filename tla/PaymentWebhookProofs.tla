------------------------ MODULE PaymentWebhookProofs ------------------------
(***************************************************************************)
(* That a module acts on an event at most once, and that a record keeps    *)
(* its promise, for every number of events, deliveries and consumers.      *)
(*                                                                         *)
(* The invariant follows one event: who holds its record, which is at most *)
(* one delivery, and what that delivery has done so far.                   *)
(***************************************************************************)
EXTENDS PaymentWebhook, TLAPS

(* Only an event that is on record is being dispatched, and by one delivery. *)
HeldByOne(e) ==
  /\ \A d \in Deliveries : Dispatching(d, e) => recorded[e]
  /\ \A d, f \in Deliveries : Dispatching(d, e) /\ Dispatching(f, e) => d = f

(* What the delivery that holds the record has done: nothing, until it comes
   to the consumer whose event it is. *)
AsFarAsItsStage(e) ==
  \A d \in Deliveries : Dispatching(d, e) =>
    /\ claimedBy[e] = NoOne
    /\ IF delivery[d].stage = "claiming"
       THEN handled[e] = 1 /\ Owner[e] \in Ears
       ELSE handled[e] = 0
    /\ delivery[d].stage = "offering" =>
         \A k \in 1 .. Len(Listening) :
           k < delivery[d].turn => Listening[k] # Owner[e]

(* What nobody has on record, nobody has acted on. *)
NothingOffTheRecord(e) ==
  ~recorded[e] => handled[e] = 0 /\ claimedBy[e] = NoOne

PromiseKeptOf(e) ==
  recorded[e] /\ e \notin cut /\ ~(\E d \in Deliveries : Dispatching(d, e)) =>
    IF Owner[e] \in Ears
    THEN handled[e] = 1 /\ claimedBy[e] = Owner[e]
    ELSE handled[e] = 0 /\ claimedBy[e] = NoOne

EventInv(e) ==
  /\ HeldByOne(e)
  /\ AsFarAsItsStage(e)
  /\ NothingOffTheRecord(e)
  /\ PromiseKeptOf(e)
  /\ handled[e] <= 1

WebhookInv ==
  /\ TypeOK
  /\ \A d \in Deliveries :
       delivery[d].stage # "idle" => delivery[d].event \in Events
  /\ \A e \in Nameless : ~recorded[e]
  /\ \A e \in Events \ Nameless : EventInv(e)

(* The state starts as the invariant says. *)
LEMMA WebhookInit == Init => WebhookInv
<1> SUFFICES ASSUME Init PROVE WebhookInv
  OBVIOUS
<1>1. TypeOK
  <2>1. Idle \in DeliveryRecord
    BY DEF Idle, DeliveryRecord
  <2>2. 0 \in 0 .. MissLimit /\ 0 \in 0 .. MaxFaults
    BY BoundsAssumption
  <2> QED
    BY <2>1, <2>2 DEF Init, TypeOK
<1>2. \A e \in Nameless : ~recorded[e]
  BY EventsAssumption DEF Init
<1>3. ASSUME NEW e \in Events PROVE EventInv(e)
  <2>1. \A d \in Deliveries : ~Dispatching(d, e)
    BY DEF Init, Idle, Dispatching
  <2>2. ~recorded[e] /\ handled[e] = 0 /\ claimedBy[e] = NoOne
    BY DEF Init
  <2> QED
    BY <2>1, <2>2 DEF EventInv, HeldByOne, AsFarAsItsStage,
                      NothingOffTheRecord, PromiseKeptOf
<1>4. \A d \in Deliveries : delivery[d].stage = "idle"
  BY DEF Init, Idle
<1> QED
  BY <1>1, <1>2, <1>3, <1>4 DEF WebhookInv

(* An event keeps its invariant through a step that leaves its row and the
   deliveries that dispatch it as they were. *)
LEMMA Untouched ==
  ASSUME NEW e \in Events, EventInv(e),
         recorded'[e] = recorded[e], claimedBy'[e] = claimedBy[e],
         handled'[e] = handled[e], cut \subseteq cut',
         \A d \in Deliveries :
           /\ Dispatching(d, e)' <=> Dispatching(d, e)
           /\ Dispatching(d, e) => delivery'[d] = delivery[d]
  PROVE  EventInv(e)'
  BY DEF EventInv, HeldByOne, AsFarAsItsStage, NothingOffTheRecord,
         PromiseKeptOf, Ears

(* A request that goes on, ends or forgets leaves its tables in their types. *)
LEMMA GoTypes ==
  ASSUME TypeOK, NEW d \in Deliveries,
         NEW stage \in {"writing", "settling", "claiming", "answering"},
         Go(d, stage)
  PROVE  delivery' \in [Deliveries -> DeliveryRecord]
<1>1. delivery \in [Deliveries -> DeliveryRecord]
  BY DEF TypeOK
<1>2. [delivery[d] EXCEPT !.stage = stage] \in DeliveryRecord
  BY <1>1 DEF DeliveryRecord
<1>3. delivery' = [delivery EXCEPT ![d] = [delivery[d] EXCEPT !.stage = stage]]
  BY DEF Go
<1> QED BY <1>1, <1>2, <1>3

LEMMA EndTypes ==
  ASSUME TypeOK, NEW d \in Deliveries, End(d)
  PROVE  delivery' \in [Deliveries -> DeliveryRecord]
<1>1. delivery \in [Deliveries -> DeliveryRecord]
  BY DEF TypeOK
<1>2. Idle \in DeliveryRecord
  BY DEF Idle, DeliveryRecord
<1> QED BY <1>1, <1>2 DEF End

LEMMA ForgetTypes ==
  ASSUME TypeOK, NEW d \in Deliveries, Forget(d)
  PROVE  /\ delivery' \in [Deliveries -> DeliveryRecord]
         /\ recorded' \in [Events -> BOOLEAN]
         /\ claimedBy' \in [Events -> Consumers \cup {NoOne}]
<1>1. delivery' \in [Deliveries -> DeliveryRecord]
  BY EndTypes DEF Forget
<1>2. recorded' \in [Events -> BOOLEAN]
  BY DEF Forget, TypeOK
<1>3. claimedBy' \in [Events -> Consumers \cup {NoOne}]
  BY DEF Forget, TypeOK
<1> QED BY <1>1, <1>2, <1>3

LEMMA FaultTypes ==
  ASSUME TypeOK, Fault
  PROVE  faults' \in 0 .. MaxFaults
BY BoundsAssumption DEF TypeOK, Fault

(* Every step keeps the types. *)
LEMMA TypesStep == WebhookInv /\ [Next]_vars => TypeOK'
<1> SUFFICES ASSUME WebhookInv, [Next]_vars PROVE TypeOK'
  OBVIOUS
<1>0. TypeOK
  BY DEF WebhookInv
<1>1. ASSUME NEW d \in Deliveries, Serve(d) PROVE TypeOK'
  <2>0. delivery[d].stage # "idle" => delivery[d].event \in Events
    BY DEF WebhookInv
  <2>1. CASE Refuse(d)
    <3>1. delivery' \in [Deliveries -> DeliveryRecord]
      BY <1>0, <2>1, EndTypes DEF Refuse
    <3>2. misses' \in 0 .. MissLimit
      BY <1>0, <2>1, BoundsAssumption DEF Refuse, TypeOK
    <3> QED BY <1>0, <2>1, <3>1, <3>2 DEF TypeOK, Refuse, books
  <2>2. CASE Accept(d)
    <3>1. delivery' \in [Deliveries -> DeliveryRecord]
      BY <1>0, <2>2, GoTypes DEF Accept
    <3> QED BY <1>0, <2>2, <3>1 DEF TypeOK, Accept, books
  <2>3. CASE WriteDown(d)
    <3>1. delivery' \in [Deliveries -> DeliveryRecord]
      BY <1>0, <2>3, GoTypes DEF WriteDown
    <3>2. recorded' \in [Events -> BOOLEAN]
      BY <1>0, <2>3 DEF WriteDown, TypeOK
    <3> QED BY <1>0, <2>3, <3>1, <3>2 DEF TypeOK, WriteDown
  <2>4. CASE Duplicate(d)
    <3>1. delivery' \in [Deliveries -> DeliveryRecord]
      BY <1>0, <2>4, GoTypes DEF Duplicate
    <3> QED BY <1>0, <2>4, <3>1 DEF TypeOK, Duplicate, books
  <2>5. CASE Settle(d)
    <3>1. delivery \in [Deliveries -> DeliveryRecord]
      BY <1>0 DEF TypeOK
    <3>2. [delivery[d] EXCEPT !.stage = "offering", !.turn = 1] \in DeliveryRecord
      BY <3>1 DEF DeliveryRecord
    <3>3. delivery' = [delivery EXCEPT ![d] =
             [delivery[d] EXCEPT !.stage = "offering", !.turn = 1]]
      BY <2>5, <3>1 DEF Settle, DeliveryRecord
    <3>4. delivery' \in [Deliveries -> DeliveryRecord]
      BY <3>1, <3>2, <3>3
    <3> QED BY <1>0, <2>5, <3>4 DEF TypeOK, Settle, books
  <2>6. CASE SettleFails(d)
    <3>1. /\ delivery' \in [Deliveries -> DeliveryRecord]
          /\ recorded' \in [Events -> BOOLEAN]
          /\ claimedBy' \in [Events -> Consumers \cup {NoOne}]
      BY <1>0, <2>6, ForgetTypes DEF SettleFails
    <3>2. faults' \in 0 .. MaxFaults
      BY <1>0, <2>6, FaultTypes DEF SettleFails
    <3> QED BY <1>0, <2>6, <3>1, <3>2 DEF TypeOK, SettleFails
  <2>7. CASE Decline(d)
    <3>1. delivery \in [Deliveries -> DeliveryRecord]
      BY <1>0 DEF TypeOK
    <3>2. [delivery[d] EXCEPT !.turn = delivery[d].turn + 1] \in DeliveryRecord
      BY <3>1 DEF DeliveryRecord
    <3>3. CASE Go(d, "answering")
      <4>1. delivery' \in [Deliveries -> DeliveryRecord]
        BY <1>0, <3>3, GoTypes
      <4> QED BY <1>0, <2>7, <4>1 DEF TypeOK, Decline, books
    <3>4. CASE delivery' = [delivery EXCEPT ![d].turn = delivery[d].turn + 1]
      <4>1. delivery' = [delivery EXCEPT ![d] =
               [delivery[d] EXCEPT !.turn = delivery[d].turn + 1]]
        BY <3>4
      <4>2. delivery' \in [Deliveries -> DeliveryRecord]
        BY <3>1, <3>2, <4>1
      <4> QED BY <1>0, <2>7, <4>2 DEF TypeOK, Decline, books
    <3> QED BY <2>7, <3>3, <3>4 DEF Decline
  <2>8. CASE Handle(d)
    <3>1. delivery' \in [Deliveries -> DeliveryRecord]
      BY <1>0, <2>8, GoTypes DEF Handle
    <3>2. handled' \in [Events -> Nat]
      BY <1>0, <2>0, <2>8 DEF Handle, TypeOK
    <3> QED BY <1>0, <2>8, <3>1, <3>2 DEF TypeOK, Handle
  <2>9. CASE Throw(d)
    <3>1. /\ delivery' \in [Deliveries -> DeliveryRecord]
          /\ recorded' \in [Events -> BOOLEAN]
          /\ claimedBy' \in [Events -> Consumers \cup {NoOne}]
      BY <1>0, <2>9, ForgetTypes DEF Throw
    <3>2. faults' \in 0 .. MaxFaults
      BY <1>0, <2>9, FaultTypes DEF Throw
    <3> QED BY <1>0, <2>9, <3>1, <3>2 DEF TypeOK, Throw
  <2>10. CASE Claim(d)
    <3>1. delivery' \in [Deliveries -> DeliveryRecord]
      BY <1>0, <2>10, GoTypes DEF Claim
    <3>2. Owner[delivery[d].event] \in Consumers \cup {NoOne}
      BY <2>0, <2>10, ConsumersAssumption DEF Claim
    <3>3. claimedBy' \in [Events -> Consumers \cup {NoOne}]
      BY <1>0, <2>10, <3>2 DEF Claim, TypeOK
    <3> QED BY <1>0, <2>10, <3>1, <3>2, <3>3 DEF TypeOK, Claim
  <2>11. CASE Answer(d)
    <3>1. delivery' \in [Deliveries -> DeliveryRecord]
      BY <1>0, <2>11, EndTypes DEF Answer
    <3>2. acked' \subseteq Events
      BY <1>0, <2>0, <2>11 DEF Answer, TypeOK
    <3> QED BY <1>0, <2>11, <3>1, <3>2 DEF TypeOK, Answer, books
  <2>12. CASE AnswerLost(d)
    <3>1. delivery' \in [Deliveries -> DeliveryRecord]
      BY <1>0, <2>12, EndTypes DEF AnswerLost
    <3>2. faults' \in 0 .. MaxFaults
      BY <1>0, <2>12, FaultTypes DEF AnswerLost
    <3> QED BY <1>0, <2>12, <3>1, <3>2 DEF TypeOK, AnswerLost, books
  <2>13. CASE Fall(d)
    <3>1. delivery' \in [Deliveries -> DeliveryRecord]
      BY <1>0, <2>13, EndTypes DEF Fall
    <3>2. faults' \in 0 .. MaxFaults
      BY <1>0, <2>13, FaultTypes DEF Fall
    <3>3. cut' \subseteq Events
      BY <1>0, <2>0, <2>13 DEF Fall, TypeOK
    <3> QED BY <1>0, <2>13, <3>1, <3>2, <3>3 DEF TypeOK, Fall, books
  <2> QED
    BY <1>1, <2>1, <2>2, <2>3, <2>4, <2>5, <2>6, <2>7, <2>8, <2>9, <2>10,
       <2>11, <2>12, <2>13 DEF Serve
<1>2. ASSUME NEW d \in Deliveries, NEW e \in Events, Deliver(d, e) PROVE TypeOK'
  <2>1. [stage |-> "verifying", event |-> e, turn |-> 0,
         trusted |-> connection = "good"] \in DeliveryRecord
    BY DEF DeliveryRecord
  <2>2. delivery' \in [Deliveries -> DeliveryRecord]
    BY <1>0, <1>2, <2>1 DEF Deliver, TypeOK
  <2> QED BY <1>0, <1>2, <2>2 DEF Deliver, TypeOK, books
<1>3. CASE Reconnect
  BY <1>0, <1>3 DEF Reconnect, TypeOK, books
<1>4. CASE MissAges
  <2>1. misses' \in 0 .. MissLimit
    BY <1>0, <1>4, BoundsAssumption DEF MissAges, TypeOK
  <2> QED BY <1>0, <1>4, <2>1 DEF MissAges, TypeOK, books
<1>5. CASE UNCHANGED vars
  BY <1>0, <1>5 DEF vars, TypeOK
<1> QED BY <1>1, <1>2, <1>3, <1>4, <1>5 DEF Next

(* The housekeeping: an open delivery is of an event, and an event without an
   id is never on record. *)
LEMMA HousekeepingStep ==
  ASSUME WebhookInv, [Next]_vars
  PROVE  /\ \A d \in Deliveries :
              delivery'[d].stage # "idle" => delivery'[d].event \in Events
         /\ \A e \in Nameless : ~recorded'[e]
<1> USE EventsAssumption
<1> USE DEF WebhookInv, TypeOK, DeliveryRecord, Idle, books, Go, End, Forget
<1>1. ASSUME NEW d \in Deliveries, Serve(d)
      PROVE  /\ delivery'[d].stage # "idle" => delivery'[d].event \in Events
             /\ \A f \in Deliveries \ {d} : delivery'[f] = delivery[f]
             /\ \A e \in Nameless : ~recorded'[e]
  <2>1. /\ delivery'[d].stage = "idle" \/ delivery'[d].event = delivery[d].event
        /\ delivery[d].stage # "idle"
        /\ \A f \in Deliveries \ {d} : delivery'[f] = delivery[f]
    <3>1. CASE \/ Refuse(d) \/ SettleFails(d) \/ Throw(d) \/ Answer(d)
               \/ AnswerLost(d) \/ Fall(d)
      BY <3>1 DEF Refuse, SettleFails, Throw, Answer, AnswerLost, Fall
    <3>2. CASE \/ Accept(d) \/ WriteDown(d) \/ Duplicate(d) \/ Settle(d)
               \/ Handle(d) \/ Claim(d)
      BY <3>2 DEF Accept, WriteDown, Duplicate, Settle, Handle, Claim
    <3>3. CASE Decline(d)
      BY <3>3 DEF Decline
    <3> QED
      BY <1>1, <3>1, <3>2, <3>3 DEF Serve
  <2>2. \A e \in Nameless : ~recorded'[e]
    BY <1>1 DEF Serve, Refuse, Accept, WriteDown, Duplicate, Settle,
                SettleFails, Decline, Handle, Throw, Claim, Answer, AnswerLost,
                Fall
  <2> QED
    BY <2>1, <2>2
<1>2. ASSUME NEW d \in Deliveries, NEW e \in Events, Deliver(d, e)
      PROVE  /\ delivery'[d].event \in Events
             /\ \A f \in Deliveries \ {d} : delivery'[f] = delivery[f]
             /\ recorded' = recorded
  BY <1>2 DEF Deliver
<1>3. ASSUME Reconnect \/ MissAges \/ UNCHANGED vars
      PROVE  delivery' = delivery /\ recorded' = recorded
  BY <1>3 DEF Reconnect, MissAges, vars
<1> QED
  BY <1>1, <1>2, <1>3 DEF Next

(* A step of a delivery leaves the events it is not of alone. *)
LEMMA OtherEvents ==
  ASSUME WebhookInv, NEW d \in Deliveries, Serve(d),
         NEW e \in Events \ Nameless, delivery[d].event # e
  PROVE  EventInv(e)'
<1> USE EventsAssumption
<1>1. /\ recorded'[e] = recorded[e] /\ claimedBy'[e] = claimedBy[e]
      /\ handled'[e] = handled[e] /\ cut \subseteq cut'
  BY DEF WebhookInv, TypeOK, DeliveryRecord, books, Go, End, Forget, Serve,
         Refuse, Accept, WriteDown, Duplicate, Settle, SettleFails, Decline,
         Handle, Throw, Claim, Answer, AnswerLost, Fall
<1>2. /\ delivery'[d].event # e
      /\ \A f \in Deliveries \ {d} : delivery'[f] = delivery[f]
  BY DEF WebhookInv, TypeOK, DeliveryRecord, Idle, books, Go, End, Forget,
         Serve, Refuse, Accept, WriteDown, Duplicate, Settle, SettleFails,
         Decline, Handle, Throw, Claim, Answer, AnswerLost, Fall
<1>3. \A f \in Deliveries : /\ Dispatching(f, e)' <=> Dispatching(f, e)
                            /\ Dispatching(f, e) => delivery'[f] = delivery[f]
  BY <1>2 DEF Dispatching
<1> QED
  BY <1>1, <1>3, Untouched DEF WebhookInv

(* The steps a delivery takes before the insert and after the last consumer
   leave the event it is of alone as well. *)
LEMMA QuietSteps ==
  ASSUME WebhookInv, NEW d \in Deliveries, NEW e \in Events \ Nameless,
         Refuse(d) \/ Accept(d) \/ Duplicate(d) \/ Answer(d) \/ AnswerLost(d)
         \/ (\E f \in Events : Deliver(d, f))
  PROVE  EventInv(e)'
<1>1. /\ recorded'[e] = recorded[e] /\ claimedBy'[e] = claimedBy[e]
      /\ handled'[e] = handled[e] /\ cut \subseteq cut'
  BY DEF books, Refuse, Accept, Duplicate, Answer, AnswerLost, Deliver
<1>2. /\ ~Dispatching(d, e) /\ ~Dispatching(d, e)'
      /\ \A f \in Deliveries \ {d} : delivery'[f] = delivery[f]
  BY DEF WebhookInv, TypeOK, DeliveryRecord, Dispatching, Idle, Go, End, Refuse,
         Accept, Duplicate, Answer, AnswerLost, Deliver
<1>3. \A f \in Deliveries : /\ Dispatching(f, e)' <=> Dispatching(f, e)
                            /\ Dispatching(f, e) => delivery'[f] = delivery[f]
  BY <1>2 DEF Dispatching
<1> QED
  BY <1>1, <1>3, Untouched DEF WebhookInv

(* A delivery that holds the record alone, and has done what its stage says. *)
LEMMA Held ==
  ASSUME NEW e \in Events, NEW d \in Deliveries,
         recorded'[e], claimedBy'[e] = NoOne,
         delivery'[d].stage \in {"settling", "offering", "claiming"},
         delivery'[d].event = e,
         \A f \in Deliveries \ {d} : ~Dispatching(f, e)',
         IF delivery'[d].stage = "claiming"
         THEN handled'[e] = 1 /\ Owner[e] \in Ears ELSE handled'[e] = 0,
         delivery'[d].stage = "offering" =>
           \A k \in 1 .. Len(Listening) :
             k < delivery'[d].turn => Listening[k] # Owner[e]
  PROVE  EventInv(e)'
<1>1. HeldByOne(e)'
  BY DEF HeldByOne
<1>2. AsFarAsItsStage(e)'
  BY DEF AsFarAsItsStage, Ears
<1>3. NothingOffTheRecord(e)' /\ PromiseKeptOf(e)'
  BY DEF NothingOffTheRecord, PromiseKeptOf, Dispatching
<1> QED
  BY <1>1, <1>2, <1>3 DEF EventInv

(* Nobody holds the record any more. *)
LEMMA LetGo ==
  ASSUME NEW e \in Events,
         \A f \in Deliveries : ~Dispatching(f, e)',
         handled'[e] \in {0, 1},
         ~recorded'[e] => handled'[e] = 0 /\ claimedBy'[e] = NoOne,
         recorded'[e] /\ e \notin cut' =>
           IF Owner[e] \in Ears
           THEN handled'[e] = 1 /\ claimedBy'[e] = Owner[e]
           ELSE handled'[e] = 0 /\ claimedBy'[e] = NoOne
  PROVE  EventInv(e)'
  BY DEF EventInv, HeldByOne, AsFarAsItsStage, NothingOffTheRecord,
         PromiseKeptOf, Ears

(* The steps a delivery takes while it holds the record of its event. *)
LEMMA OwnEvent ==
  ASSUME WebhookInv, NEW d \in Deliveries, NEW e \in Events \ Nameless,
         delivery[d].event = e, Serve(d)
  PROVE  EventInv(e)'
<1> USE EventsAssumption, ConsumersAssumption
<1>1. /\ delivery[d] \in DeliveryRecord
      /\ delivery \in [Deliveries -> DeliveryRecord]
      /\ recorded \in [Events -> BOOLEAN] /\ handled \in [Events -> Nat]
      /\ claimedBy \in [Events -> Consumers \cup {NoOne}]
      /\ cut \subseteq Events
      /\ EventInv(e)
  BY DEF WebhookInv, TypeOK
<1>2. Len(Listening) \in Nat /\ \A k \in 1 .. Len(Listening) : Listening[k] \in Ears
  BY DEF Ears
<1>3. ASSUME delivery[d].stage \in {"settling", "offering", "claiming"}
      PROVE  /\ recorded[e] /\ claimedBy[e] = NoOne
             /\ \A f \in Deliveries \ {d} : ~Dispatching(f, e)
             /\ delivery[d].stage # "claiming" => handled[e] = 0
             /\ delivery[d].stage = "claiming" =>
                  handled[e] = 1 /\ Owner[e] \in Ears
             /\ delivery[d].stage = "offering" =>
                  \A k \in 1 .. Len(Listening) :
                    k < delivery[d].turn => Listening[k] # Owner[e]
  BY <1>1, <1>3 DEF EventInv, HeldByOne, AsFarAsItsStage, Dispatching
<1> USE DEF Dispatching
<1>4. CASE WriteDown(d)
  <2>1. /\ recorded'[e] /\ claimedBy'[e] = NoOne /\ handled'[e] = 0
        /\ \A f \in Deliveries \ {d} : ~Dispatching(f, e)
    BY <1>1, <1>4 DEF WriteDown, EventInv, NothingOffTheRecord, HeldByOne
  <2>2. /\ delivery'[d].stage = "settling" /\ delivery'[d].event = e
        /\ \A f \in Deliveries \ {d} : delivery'[f] = delivery[f]
    BY <1>1, <1>4 DEF WriteDown, Go, DeliveryRecord
  <2> QED
    BY <2>1, <2>2, Held
<1>5. CASE Settle(d)
  <2>1. /\ delivery'[d].stage = "offering" /\ delivery'[d].event = e
        /\ delivery'[d].turn = 1
        /\ \A f \in Deliveries \ {d} : delivery'[f] = delivery[f]
    BY <1>1, <1>5 DEF Settle, DeliveryRecord
  <2>2. UNCHANGED <<recorded, claimedBy, handled>>
    BY <1>5 DEF Settle, books
  <2>3. delivery[d].stage = "settling"
    BY <1>5 DEF Settle
  <2>4. \A k \in 1 .. Len(Listening) : ~(k < delivery'[d].turn)
    BY <1>2, <2>1
  <2> QED
    BY <1>3, <2>1, <2>2, <2>3, <2>4, Held
<1>6. CASE SettleFails(d) \/ Throw(d)
  <2>1. /\ ~recorded'[e] /\ claimedBy'[e] = NoOne /\ handled'[e] = handled[e]
        /\ delivery'[d] = Idle
        /\ \A f \in Deliveries \ {d} : delivery'[f] = delivery[f]
    BY <1>1, <1>6 DEF SettleFails, Throw, Forget, End
  <2>2. delivery[d].stage \in {"settling", "offering"}
    BY <1>6 DEF SettleFails, Throw
  <2>3. handled'[e] = 0 /\ \A f \in Deliveries : ~Dispatching(f, e)'
    BY <1>3, <2>1, <2>2 DEF Idle
  <2> QED
    BY <2>1, <2>3, LetGo
<1>7. CASE Decline(d)
  <2>1. /\ delivery[d].stage = "offering"
        /\ UNCHANGED <<recorded, claimedBy, handled>>
        /\ \A f \in Deliveries \ {d} : delivery'[f] = delivery[f]
    BY <1>1, <1>7 DEF Decline, books, Go
  <2>2. CASE delivery[d].turn > Len(Listening)
    <3>1. delivery'[d].stage = "answering"
      BY <1>1, <1>7, <2>2 DEF Decline, Go, DeliveryRecord
    <3>2. Owner[e] \notin Ears
      BY <1>1, <1>2, <1>3, <2>1, <2>2 DEF Ears, DeliveryRecord
    <3> QED
      BY <1>3, <2>1, <3>1, <3>2, LetGo
  <2>3. CASE ~(delivery[d].turn > Len(Listening))
    <3>1. /\ delivery'[d].stage = "offering" /\ delivery'[d].event = e
          /\ delivery'[d].turn = delivery[d].turn + 1
          /\ Listening[delivery[d].turn] # Owner[e]
      BY <1>1, <1>7, <2>1, <2>3 DEF Decline, DeliveryRecord
    <3>2. \A k \in 1 .. Len(Listening) :
            k < delivery'[d].turn => Listening[k] # Owner[e]
      BY <1>1, <1>2, <1>3, <2>1, <3>1 DEF DeliveryRecord
    <3> QED
      BY <1>3, <2>1, <3>1, <3>2, Held
  <2> QED
    BY <2>2, <2>3
<1>8. CASE Handle(d)
  <2>1. /\ delivery[d].stage = "offering"
        /\ Owner[e] \in Ears
    BY <1>2, <1>8 DEF Handle
  <2>2. /\ handled'[e] = handled[e] + 1 /\ UNCHANGED <<recorded, claimedBy>>
        /\ delivery'[d].stage = "claiming" /\ delivery'[d].event = e
        /\ \A f \in Deliveries \ {d} : delivery'[f] = delivery[f]
    BY <1>1, <1>8 DEF Handle, Go, DeliveryRecord
  <2> QED
    BY <1>3, <2>1, <2>2, Held
<1>9. CASE Claim(d)
  <2>1. delivery[d].stage = "claiming"
    BY <1>9 DEF Claim
  <2>2. /\ claimedBy'[e] = Owner[e] /\ UNCHANGED <<recorded, handled>>
        /\ delivery'[d].stage = "answering"
        /\ \A f \in Deliveries \ {d} : delivery'[f] = delivery[f]
    BY <1>1, <1>3, <1>9, <2>1 DEF Claim, Go
  <2> QED
    BY <1>3, <2>1, <2>2, LetGo
<1>10. CASE Fall(d)
  <2>1. /\ e \in cut' /\ UNCHANGED <<recorded, claimedBy, handled>>
        /\ delivery'[d] = Idle
        /\ \A f \in Deliveries \ {d} : delivery'[f] = delivery[f]
    BY <1>1, <1>10 DEF Fall, books, End
  <2>2. CASE Dispatching(d, e)
    <3>1. recorded'[e] /\ handled'[e] \in {0, 1}
      BY <1>3, <2>1, <2>2
    <3>2. \A f \in Deliveries : ~Dispatching(f, e)'
      BY <1>3, <2>1, <2>2 DEF Idle
    <3> QED
      BY <2>1, <3>1, <3>2, LetGo
  <2>3. CASE ~Dispatching(d, e)
    <3>1. \A f \in Deliveries :
            /\ Dispatching(f, e)' <=> Dispatching(f, e)
            /\ Dispatching(f, e) => delivery'[f] = delivery[f]
      BY <2>1, <2>3 DEF Idle
    <3>2. cut \subseteq cut'
      BY <1>10 DEF Fall
    <3> QED
      BY <1>1, <2>1, <3>1, <3>2, Untouched
  <2> QED
    BY <2>2, <2>3
<1> QED
  BY <1>4, <1>5, <1>6, <1>7, <1>8, <1>9, <1>10, QuietSteps DEF Serve

LEMMA WebhookStep == WebhookInv /\ [Next]_vars => WebhookInv'
<1> SUFFICES ASSUME WebhookInv, [Next]_vars PROVE WebhookInv'
  OBVIOUS
<1>1. ASSUME NEW e \in Events \ Nameless PROVE EventInv(e)'
  <2>1. ASSUME NEW d \in Deliveries, Serve(d) PROVE EventInv(e)'
    BY <2>1, OwnEvent, OtherEvents
  <2>2. ASSUME NEW d \in Deliveries, NEW f \in Events, Deliver(d, f)
        PROVE  EventInv(e)'
    BY <2>2, QuietSteps
  <2>3. CASE Reconnect \/ MissAges \/ UNCHANGED vars
    BY <2>3, Untouched
       DEF Reconnect, MissAges, vars, books, Dispatching, WebhookInv
  <2> QED
    BY <2>1, <2>2, <2>3 DEF Next
<1> QED
  BY <1>1, TypesStep, HousekeepingStep DEF WebhookInv

(* The invariant holds of every run of the endpoint. *)
THEOREM WebhookIsSound == Spec => []WebhookInv
<1>1. Init => WebhookInv
  BY WebhookInit
<1>2. WebhookInv /\ [Next]_vars => WebhookInv'
  BY WebhookStep
<1> QED
  BY <1>1, <1>2, PTL DEF Spec

(* The tables stay in their types: the limiter's count of unverified deliveries
   never goes past its limit or below nothing, and what a record names is a
   module or nobody. *)
THEOREM EndpointTypes == Spec => []TypeOK
<1>1. WebhookInv => TypeOK
  BY DEF WebhookInv
<1> QED
  BY <1>1, WebhookIsSound, PTL

(* However many deliveries of an event are open, whatever throws and wherever
   one is cut short, a module acts on it at most once. *)
THEOREM ActedOnOnce == Spec => []HandledOnce
<1>1. WebhookInv => HandledOnce
  BY DEF WebhookInv, EventInv, HandledOnce
<1> QED
  BY <1>1, WebhookIsSound, PTL

(* A record nobody is working on, and of which no delivery was cut short, was
   acted on by the module it names, or is shown as unclaimed because nobody
   listens for it. *)
THEOREM RecordsKeepTheirPromise == Spec => []PromiseKept
<1>1. WebhookInv => PromiseKept
  <2> SUFFICES ASSUME WebhookInv, NEW e \in Events, recorded[e] PROVE PromiseKeptOf(e)
    BY DEF PromiseKept, PromiseKeptOf
  <2> QED
    BY EventsAssumption DEF WebhookInv, EventInv
<1> QED
  BY <1>1, WebhookIsSound, PTL
=============================================================================
