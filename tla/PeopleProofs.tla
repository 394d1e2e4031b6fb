---------------------------- MODULE PeopleProofs ----------------------------
(***************************************************************************)
(* That nobody is taken away who was the last administrator, that what a   *)
(* person holds is worked out whenever nothing is under way for them, and  *)
(* that no two links take each other back: for any people, roles, groups,  *)
(* invitations and requests.                                               *)
(***************************************************************************)
EXTENDS People, FiniteSetTheorems, TLAPS

RequestRecord ==
  [stage : {"idle", "reading roles", "reading groups", "writing", "role",
            "base", "removing", "suspending", "joining", "reading people",
            "dropping", "emptying", "inviting", "found", "linking",
            "accepting"},
   user : Users \cup {Nobody}, group : Groups \cup {Nobody},
   role : Roles \cup {Unset}, base : Roles \cup {Unset}, held : SUBSET Roles,
   affected : SUBSET Users, touches : SUBSET Users,
   invitation : Invitations \cup {Nobody}, by : Users \cup {Nobody}]

Made == {g \in Groups : group[g] # "none"}

(* What a request has read by the time it needs it; groups that were made and
   people who were members at some time. *)
RequestOK(q, made, ever) ==
  /\ q.stage \in {"role", "base"} => q.role \in Roles
  /\ q.stage \in {"reading groups", "writing"} => q.base \in Roles
  /\ q.stage = "joining" => q.group \in made
  /\ q.stage \in {"joining", "reading groups", "writing"} => q.user \in ever
  /\ q.stage \in {"dropping", "emptying", "reading people"} =>
       q.group \in Groups /\ q.touches = Users
  /\ q.stage \in {"role", "base", "joining"} => q.touches = {q.user}
  /\ q.stage \in {"role", "base", "joining", "removing", "suspending",
                  "reading groups", "writing", "inviting", "found", "linking",
                  "accepting"} => q.user \in Users
  /\ q.stage \in {"reading groups", "writing"} => q.user \in q.affected
  /\ q.affected \subseteq q.touches
  /\ q.stage \in {"linking", "accepting"} => q.invitation \in Invitations

RequestsOK ==
  /\ req \in [Requests -> RequestRecord] /\ crossed \subseteq Users
  /\ \A r \in Requests : RequestOK(req[r], Made, joined)

(* Nobody has a role of their own who was never a member. *)
PeopleOK ==
  /\ members \subseteq Users /\ disabled \subseteq members
  /\ joined \subseteq Users /\ members \subseteq joined
  /\ role \in [Users -> SUBSET Roles] /\ \A u \in members : role[u] # {}
  /\ base \in [Users -> Roles \cup {Unset}]
  /\ \A u \in Users \ joined : base[u] = Unset

(* No group that was never made has a row, and nobody who was never a member. *)
GroupsOK ==
  /\ group \in [Groups -> {"none", "there", "gone"}]
  /\ grants \in [Groups -> SUBSET Roles]
  /\ inGroup \subseteq Made \X joined

InvitationsOK ==
  /\ invited \in [Invitations -> {"none", "pending", "accepted", "canceled"}]
  /\ linked \cup expired \cup withdrawn \subseteq Invitations
  /\ invitee \in [Invitations -> Users \cup {Nobody}]
  /\ inviter \in [Invitations -> Users \cup {Nobody}]
  /\ \A i \in Invitations : invited[i] # "none" => invitee[i] \in Users

TablesInv == PeopleOK /\ GroupsOK /\ InvitationsOK /\ RequestsOK

-----------------------------------------------------------------------------
WorkedOut(u) ==
  IF base[u] = Unset THEN GroupRoles(u) = {}
  ELSE role[u] = {base[u]} \cup GroupRoles(u)

(* How far a request has come with a person it touches: what they hold is
   worked out, or they are among those it will yet do. *)
Progress(r, u) ==
  /\ req[r].stage \in {"role", "joining", "dropping"} => WorkedOut(u)
  /\ req[r].stage \in {"dropping", "emptying"} /\ u \in MembersOfGroup(req[r].group) =>
       u \in req[r].affected
  /\ req[r].stage = "reading people" =>
       u \in MembersOfGroup(req[r].group) \/ WorkedOut(u)
  /\ req[r].stage \in {"emptying", "reading roles", "reading groups", "writing"} =>
       u \in req[r].affected \/ WorkedOut(u)
  /\ req[r].stage = "writing" /\ req[r].user = u => req[r].held = GroupRoles(u)

OverlapsAreCrossed ==
  \A r, q \in Requests : r # q => req[r].touches \cap req[q].touches \subseteq crossed

OnlyChangesTouch ==
  \A r \in Requests : req[r].touches # {} =>
    req[r].stage \in {"role", "base", "joining", "reading people", "dropping",
                      "emptying", "reading roles", "reading groups", "writing"}

WorkedOutOrUnderWay ==
  \A u \in members \ crossed :
    /\ \A r \in Requests : u \in req[r].touches => Progress(r, u)
    /\ (\A r \in Requests : u \notin req[r].touches) => WorkedOut(u)

RolesInv == OverlapsAreCrossed /\ OnlyChangesTouch /\ WorkedOutOrUnderWay

-----------------------------------------------------------------------------
(* What a link that nobody withdrew was taken back for. *)
CanceledForANewer ==
  \A i \in linked \ withdrawn : invited[i] = "canceled" =>
    \E j \in linked \ {i} :
      /\ invitee[j] = invitee[i]
      /\ invited[j] # "canceled" \/ j \in withdrawn

Linking(r) == req[r].stage \in {"inviting", "found", "linking"}

(* The invitation a request is about is still the one it found or made, or was
   withdrawn meanwhile. *)
LinkInv ==
  /\ \A i \in linked : invited[i] # "none"
  /\ \A r, q \in Requests :
       Linking(r) /\ Linking(q) /\ r # q => req[r].user # req[q].user
  /\ \A r \in Requests :
       req[r].stage \in {"found", "linking"} /\ req[r].invitation # Nobody =>
         LET i == req[r].invitation
         IN  /\ invitee[i] = req[r].user /\ invited[i] # "none"
             /\ invited[i] = "canceled" => i \in withdrawn
  /\ CanceledForANewer

-----------------------------------------------------------------------------
LEMMA TablesAreTyped == TablesInv => TypeOK
<1> SUFFICES ASSUME TablesInv PROVE TypeOK
  OBVIOUS
<1>1. \A r \in Requests :
        /\ req[r].user \in Users \cup {Nobody}
        /\ req[r].by \in Users \cup {Nobody}
        /\ req[r].affected \subseteq Users /\ req[r].touches \subseteq Users
        /\ req[r].held \subseteq Roles
  BY DEF TablesInv, RequestsOK, RequestRecord
<1>2. inGroup \subseteq Groups \X Users
  BY DEF TablesInv, GroupsOK, PeopleOK, Made
<1> QED
  BY <1>1, <1>2
  DEF TablesInv, PeopleOK, GroupsOK, InvitationsOK, RequestsOK, TypeOK

LEMMA IdleIsOK ==
  /\ Idle \in RequestRecord
  /\ \A made, ever : RequestOK(Idle, made, ever)
BY DEF Idle, RequestRecord, RequestOK

LEMMA TablesInit == Init => TablesInv
<1> SUFFICES ASSUME Init PROVE TablesInv
  OBVIOUS
<1>1. PeopleOK
  BY PolicyAssumption DEF Init, PeopleOK
<1>2. GroupsOK /\ InvitationsOK
  BY DEF Init, GroupsOK, InvitationsOK
<1>3. RequestsOK
  BY IdleIsOK DEF Init, RequestsOK
<1> QED
  BY <1>1, <1>2, <1>3 DEF TablesInv

(* Groups stay made, and who was a member was one. *)
Grows == Made \subseteq Made' /\ joined \subseteq joined'

LEMMA StillOK ==
  ASSUME NEW q, NEW made, NEW ever, RequestOK(q, made, ever), NEW more, NEW later,
         made \subseteq more, ever \subseteq later
  PROVE  RequestOK(q, more, later)
BY DEF RequestOK

(* One request has moved on, and what it is now is right. *)
LEMMA OneRequest ==
  ASSUME RequestsOK, NEW r \in Requests, NEW new \in RequestRecord,
         RequestOK(new, Made, joined), req' = [req EXCEPT ![r] = new],
         Grows, crossed' \subseteq Users
  PROVE  RequestsOK'
<1>1. req' \in [Requests -> RequestRecord]
  BY DEF RequestsOK
<1>2. ASSUME NEW q \in Requests PROVE RequestOK(req'[q], Made', joined')
  <2>1. CASE q = r
    <3>1. req'[q] = new
      BY <2>1 DEF RequestsOK
    <3> QED
      BY <3>1, StillOK, Zenon DEF Grows
  <2>2. CASE q # r
    <3>1. req'[q] = req[q] /\ RequestOK(req[q], Made, joined)
      BY <2>2 DEF RequestsOK
    <3> QED
      BY <3>1, StillOK, Zenon DEF Grows
  <2> QED
    BY <2>1, <2>2
<1> QED
  BY <1>1, <1>2 DEF RequestsOK

LEMMA NoRequest ==
  ASSUME RequestsOK, UNCHANGED <<req, crossed>>, Grows
  PROVE  RequestsOK'
<1>1. \A q \in Requests : RequestOK(req[q], Made', joined')
  BY StillOK, Zenon DEF Grows, RequestsOK
<1> QED
  BY <1>1 DEF RequestsOK

LEMMA SameTables ==
  ASSUME TablesInv, UNCHANGED <<memberRows, groupRows, invitationRows>>,
         Grows => RequestsOK'
  PROVE  TablesInv'
<1>1. UNCHANGED <<members, role, base, disabled, joined, group, grants, inGroup,
                  invited, linked, expired, withdrawn, invitee, inviter>>
  BY DEF memberRows, groupRows, invitationRows
<1>2. Made' = Made /\ Grows
  BY <1>1 DEF Made, Grows
<1> QED
  BY <1>1, <1>2
  DEF TablesInv, PeopleOK, GroupsOK, InvitationsOK


(* A request opens: what it is then is right, and where it may change what
   people hold, those it overlaps with are marked. *)
LEMMA Opens ==
  ASSUME TablesInv, NEW r \in Requests, NEW new \in RequestRecord,
         RequestOK(new, Made, joined), Open(r, new), Grows,
         crossed' \subseteq Users
  PROVE  RequestsOK'
BY OneRequest DEF TablesInv, Open

LEMMA OpensChange ==
  ASSUME TablesInv, NEW r \in Requests, NEW new \in RequestRecord,
         NEW whom \in SUBSET Users, RequestOK([new EXCEPT !.touches = whom], Made, joined),
         OpenChange(r, whom, new), Grows
  PROVE  RequestsOK'
<1>1. [new EXCEPT !.touches = whom] \in RequestRecord
  BY DEF RequestRecord
<1>2. crossed' \subseteq Users
  BY DEF OpenChange, TablesInv, RequestsOK
<1> QED
  BY <1>1, <1>2, Opens DEF OpenChange

LEMMA ChangeRolesTables ==
  ASSUME TablesInv, NEW r \in Requests, ChangeRoles(r)
  PROVE  TablesInv'
<1>0. req[r] \in RequestRecord /\ RequestOK(req[r], Made, joined) /\ crossed \subseteq Users
  BY DEF TablesInv, RequestsOK
<1>1. ASSUME NEW u \in Users, NEW own \in Roles, AskForRole(r, u, own)
      PROVE  TablesInv'
  <2> DEFINE new == [Idle EXCEPT !.stage = "role", !.user = u, !.role = own]
  <2>1. new \in RequestRecord
    BY IdleIsOK DEF RequestRecord, Idle
  <2>2. RequestOK([new EXCEPT !.touches = {u}], Made, joined)
    BY DEF RequestOK, Idle
  <2>3. Grows => RequestsOK'
    BY <1>1, <2>1, <2>2, OpensChange DEF AskForRole
  <2> QED
    BY <1>1, <2>3, SameTables DEF AskForRole
<1>2. CASE UpdateMemberRole(r)
  <2>1. PICK new : new = [req[r] EXCEPT !.stage = "base"]
    OBVIOUS
  <2>2. new \in RequestRecord /\ RequestOK(new, Made, joined)
    BY <1>0, <1>2, <2>1 DEF RequestRecord, RequestOK, UpdateMemberRole
  <2>3. req' = [req EXCEPT ![r] = new]
    BY <1>2, <2>1 DEF UpdateMemberRole, Goto, TablesInv, RequestsOK
  <2>4. /\ UNCHANGED <<members, base, disabled, joined, group, grants, inGroup,
                       invited, linked, expired, withdrawn, invitee, inviter, crossed>>
        /\ role' = [role EXCEPT ![req[r].user] = {req[r].role}]
        /\ req[r].role \in Roles
    BY <1>0, <1>2 DEF UpdateMemberRole, groupRows, invitationRows, RequestOK
  <2>5. Made' = Made /\ Grows
    BY <2>4 DEF Made, Grows
  <2>6. RequestsOK'
    BY <1>0, <2>2, <2>3, <2>4, <2>5, OneRequest DEF TablesInv
  <2>7. PeopleOK'
    BY <2>4 DEF TablesInv, PeopleOK
  <2> QED
    BY <2>4, <2>5, <2>6, <2>7 DEF TablesInv, GroupsOK, InvitationsOK
<1>3. CASE RecordOwnRole(r)
  <2>1. PICK new : new = [Idle EXCEPT !.stage = "reading roles",
                            !.affected = {req[r].user}, !.touches = req[r].touches]
    OBVIOUS
  <2>2. req[r].touches = {req[r].user} /\ req[r].user \in Users /\ req[r].role \in Roles
    BY <1>0, <1>3 DEF RequestOK, RecordOwnRole
  <2>3. new \in RequestRecord /\ RequestOK(new, Made, joined)
    <3>1. req[r].touches \in SUBSET Users
      BY <1>0 DEF RequestRecord
    <3>2. new \in RequestRecord
      BY <2>1, <2>2, <3>1, IdleIsOK DEF RequestRecord, Idle
    <3>3. RequestOK(new, Made, joined)
      BY <2>1, <2>2 DEF RequestOK, Idle
    <3> QED
      BY <3>2, <3>3
  <2>4. req' = [req EXCEPT ![r] = new]
    BY <1>3, <2>1 DEF RecordOwnRole, Apply
  <2>5. /\ UNCHANGED <<members, role, disabled, joined, group, grants, inGroup,
                       invited, linked, expired, withdrawn, invitee, inviter, crossed>>
        /\ base' = IF req[r].user \in members
                   THEN [base EXCEPT ![req[r].user] = req[r].role] ELSE base
    BY <1>3 DEF RecordOwnRole, groupRows, invitationRows
  <2>6. Made' = Made /\ Grows
    BY <2>5 DEF Made, Grows
  <2>7. RequestsOK'
    BY <1>0, <2>3, <2>4, <2>5, <2>6, OneRequest DEF TablesInv
  <2>8. PeopleOK'
    BY <2>2, <2>5 DEF TablesInv, PeopleOK
  <2> QED
    BY <2>5, <2>6, <2>7, <2>8 DEF TablesInv, GroupsOK, InvitationsOK
<1> QED
  BY <1>1, <1>2, <1>3 DEF ChangeRoles

LEMMA ApplyRolesTables ==
  ASSUME TablesInv, NEW r \in Requests, ApplyRoles(r)
  PROVE  TablesInv'
<1>0. req[r] \in RequestRecord /\ RequestOK(req[r], Made, joined) /\ crossed \subseteq Users
  BY DEF TablesInv, RequestsOK
<1>1. ASSUME NEW new \in RequestRecord, RequestOK(new, Made, joined),
             req' = [req EXCEPT ![r] = new], crossed' = crossed,
             UNCHANGED <<memberRows, groupRows, invitationRows>>
      PROVE  TablesInv'
  <2>1. Grows => RequestsOK'
    BY <1>0, <1>1, OneRequest DEF TablesInv
  <2> QED
    BY <1>1, <2>1, SameTables
<1>2. ASSUME NEW u \in Users, ReadRole(r, u) PROVE TablesInv'
  <2>1. CASE u \in members
    <3>1. PICK own : own = IF base[u] # Unset THEN base[u]
                           ELSE CHOOSE one \in role[u] : TRUE
      OBVIOUS
    <3>2. own \in Roles
      <4>1. (CHOOSE one \in role[u] : TRUE) \in role[u] /\ role[u] \subseteq Roles
        BY <2>1 DEF TablesInv, PeopleOK
      <4>2. base[u] \in Roles \cup {Unset}
        BY DEF TablesInv, PeopleOK
      <4> QED
        BY <3>1, <4>1, <4>2
    <3>3. PICK new : new = [req[r] EXCEPT !.stage = "reading groups", !.user = u,
                                          !.base = own]
      OBVIOUS
    <3>4. new \in RequestRecord
      BY <1>0, <3>2, <3>3 DEF RequestRecord
    <3>5. RequestOK(new, Made, joined)
      <4>1. u \in joined
        BY <2>1 DEF TablesInv, PeopleOK
      <4> QED
        BY <1>0, <1>2, <3>2, <3>3, <4>1 DEF RequestOK, RequestRecord, ReadRole
    <3>6. req' = [req EXCEPT ![r] = new]
      BY <1>0, <1>2, <2>1, <3>1, <3>3 DEF ReadRole, TablesInv, RequestsOK
    <3> QED
      BY <1>1, <1>2, <3>4, <3>5, <3>6 DEF ReadRole
  <2>2. CASE u \notin members
    <3>1. PICK new : new = [req[r] EXCEPT !.affected = @ \ {u}]
      OBVIOUS
    <3>2. new \in RequestRecord
      BY <1>0, <3>1 DEF RequestRecord
    <3>3. RequestOK(new, Made, joined)
      BY <1>0, <1>2, <3>1 DEF RequestOK, RequestRecord, ReadRole
    <3>4. req' = [req EXCEPT ![r] = new]
      BY <1>0, <1>2, <2>2, <3>1 DEF ReadRole, TablesInv, RequestsOK
    <3> QED
      BY <1>1, <1>2, <3>2, <3>3, <3>4 DEF ReadRole
  <2> QED
    BY <2>1, <2>2
<1>3. CASE ReadGroups(r)
  <2>1. GroupRoles(req[r].user) \subseteq Roles
    BY DEF GroupRoles, There, TablesInv, GroupsOK
  <2>2. PICK held \in SUBSET Roles : held = GroupRoles(req[r].user)
    BY <2>1
  <2>3. PICK new : new = [req[r] EXCEPT !.stage = "writing", !.held = held]
    OBVIOUS
  <2>4. new \in RequestRecord
    BY <1>0, <2>3 DEF RequestRecord
  <2>5. RequestOK(new, Made, joined)
    BY <1>0, <1>3, <2>3 DEF RequestOK, RequestRecord, ReadGroups
  <2>6. req' = [req EXCEPT ![r] = new]
    BY <1>0, <1>3, <2>2, <2>3 DEF ReadGroups, TablesInv, RequestsOK
  <2> QED
    BY <1>1, <1>3, <2>4, <2>5, <2>6 DEF ReadGroups
<1>4. CASE WriteRoles(r)
  <2>1. PICK u : u = req[r].user
    OBVIOUS
  <2>2. /\ u \in Users /\ req[r].base \in Roles /\ req[r].held \subseteq Roles
    BY <1>0, <1>4, <2>1 DEF WriteRoles, RequestOK, RequestRecord
  <2>3. PICK new : new = [req[r] EXCEPT !.stage = "reading roles",
                            !.affected = @ \ {u}, !.user = Nobody,
                            !.base = Unset, !.held = {}]
    OBVIOUS
  <2>4. new \in RequestRecord
    BY <1>0, <2>3 DEF RequestRecord
  <2>5. RequestOK(new, Made, joined)
    BY <1>0, <2>3 DEF RequestOK, RequestRecord
  <2>6. req' = [req EXCEPT ![r] = new]
    BY <1>0, <1>4, <2>1, <2>3 DEF WriteRoles, TablesInv, RequestsOK
  <2>7. /\ UNCHANGED <<members, disabled, joined, group, grants, inGroup,
                       invited, linked, expired, withdrawn, invitee, inviter, crossed>>
        /\ \/ UNCHANGED <<base, role>>
           \/ /\ base' = [base EXCEPT ![u] = req[r].base] /\ u \in members
              /\ role' = [role EXCEPT ![u] = {req[r].base} \cup req[r].held]
    BY <1>4, <2>1 DEF WriteRoles, groupRows, invitationRows
  <2>8. Made' = Made /\ Grows
    BY <2>7 DEF Made, Grows
  <2>9. RequestsOK'
    BY <1>0, <2>4, <2>5, <2>6, <2>7, <2>8, OneRequest DEF TablesInv
  <2>10. PeopleOK'
    BY <2>2, <2>7 DEF TablesInv, PeopleOK
  <2> QED
    BY <2>7, <2>8, <2>9, <2>10 DEF TablesInv, GroupsOK, InvitationsOK
<1>5. CASE RolesApplied(r)
  BY <1>1, <1>5, IdleIsOK DEF RolesApplied, Close
<1> QED
  BY <1>2, <1>3, <1>4, <1>5 DEF ApplyRoles

LEMMA ChangePeopleTables ==
  ASSUME TablesInv, NEW r \in Requests, ChangePeople(r)
  PROVE  TablesInv'
<1>0. req[r] \in RequestRecord /\ RequestOK(req[r], Made, joined) /\ crossed \subseteq Users
  BY DEF TablesInv, RequestsOK
<1>1. ASSUME NEW u \in Users, NEW stage \in {"removing", "suspending"},
             Open(r, [Idle EXCEPT !.stage = stage, !.user = u]),
             UNCHANGED <<memberRows, groupRows, invitationRows, crossed>>
      PROVE  TablesInv'
  <2> DEFINE new == [Idle EXCEPT !.stage = stage, !.user = u]
  <2>1. new \in RequestRecord
    BY IdleIsOK DEF RequestRecord, Idle
  <2>2. RequestOK(new, Made, joined)
    BY DEF RequestOK, Idle
  <2>3. Grows => RequestsOK'
    BY <1>0, <1>1, <2>1, <2>2, Opens
  <2> QED
    BY <1>1, <2>3, SameTables
<1>2. ASSUME NEW u \in Users, AskToRemove(r, u) \/ AskToSuspend(r, u)
      PROVE  TablesInv'
  <2>1. PICK stage \in {"removing", "suspending"} :
          Open(r, [Idle EXCEPT !.stage = stage, !.user = u])
    BY <1>2 DEF AskToRemove, AskToSuspend
  <2>2. UNCHANGED <<memberRows, groupRows, invitationRows, crossed>>
    BY <1>2 DEF AskToRemove, AskToSuspend
  <2> QED
    BY <1>1, <2>1, <2>2
<1>3. ASSUME req' = [req EXCEPT ![r] = Idle], crossed' = crossed, Grows
      PROVE  RequestsOK'
  BY <1>0, <1>3, IdleIsOK, OneRequest DEF TablesInv
<1>4. CASE Remove(r)
  <2>1. PICK u \in Users : u = req[r].user
    BY <1>0, <1>4 DEF Remove, RequestOK
  <2>2. /\ UNCHANGED <<joined, group, grants, invited, linked, expired,
                       withdrawn, invitee, inviter, crossed>>
        /\ members' = members \ {u} /\ role' = [role EXCEPT ![u] = {}]
        /\ base' = [base EXCEPT ![u] = Unset] /\ disabled' = disabled \ {u}
        /\ inGroup' = {row \in inGroup : row[2] # u}
    BY <1>4, <2>1 DEF Remove, invitationRows
  <2>3. Made' = Made /\ Grows
    BY <2>2 DEF Made, Grows
  <2>4. RequestsOK'
    BY <1>3, <1>4, <2>2, <2>3 DEF Remove, Close
  <2>5. PeopleOK'
    BY <2>2 DEF TablesInv, PeopleOK
  <2> QED
    BY <2>2, <2>3, <2>4, <2>5 DEF TablesInv, GroupsOK, InvitationsOK
<1>5. CASE Suspend(r)
  <2>1. /\ UNCHANGED <<members, role, base, joined, group, grants, inGroup,
                       invited, linked, expired, withdrawn, invitee, inviter, crossed>>
        /\ disabled' = disabled \cup {req[r].user} /\ req[r].user \in members
    BY <1>5 DEF Suspend, groupRows, invitationRows, LeavesNoAdministrator
  <2>2. Made' = Made /\ Grows
    BY <2>1 DEF Made, Grows
  <2>3. RequestsOK'
    BY <1>3, <1>5, <2>1, <2>2 DEF Suspend, Close
  <2>4. PeopleOK'
    BY <2>1 DEF TablesInv, PeopleOK
  <2> QED
    BY <2>1, <2>2, <2>3, <2>4 DEF TablesInv, GroupsOK, InvitationsOK
<1> QED
  BY <1>2, <1>4, <1>5 DEF ChangePeople

LEMMA ApplyIsOK ==
  ASSUME TablesInv, NEW r \in Requests, NEW whom \in SUBSET Users,
         whom \subseteq req[r].touches, Apply(r, whom), Grows, crossed' = crossed
  PROVE  RequestsOK'
<1>1. PICK new : new = [Idle EXCEPT !.stage = "reading roles", !.affected = whom,
                                    !.touches = req[r].touches]
  OBVIOUS
<1>2. req[r].touches \in SUBSET Users
  BY DEF TablesInv, RequestsOK, RequestRecord
<1>3. new \in RequestRecord
  BY <1>1, <1>2, IdleIsOK DEF RequestRecord, Idle
<1>4. RequestOK(new, Made, joined)
  BY <1>1 DEF RequestOK, Idle
<1>5. req' = [req EXCEPT ![r] = new] /\ crossed' \subseteq Users
  BY <1>1 DEF Apply, TablesInv, RequestsOK
<1> QED
  BY <1>3, <1>4, <1>5, OneRequest DEF TablesInv

LEMMA ChangeGroupsTables ==
  ASSUME TablesInv, NEW r \in Requests, ChangeGroups(r)
  PROVE  TablesInv'
<1>0. req[r] \in RequestRecord /\ RequestOK(req[r], Made, joined) /\ crossed \subseteq Users
  BY DEF TablesInv, RequestsOK
<1>a. There \subseteq Made /\ Made \subseteq Groups
  BY DEF There, Made
<1>1. ASSUME NEW g \in Groups, NEW u \in Users, AskToJoin(r, g, u)
      PROVE  TablesInv'
  <2> DEFINE new == [Idle EXCEPT !.stage = "joining", !.user = u, !.group = g]
  <2>1. new \in RequestRecord
    BY IdleIsOK DEF RequestRecord, Idle
  <2>2. g \in Made /\ u \in joined
    BY <1>1, <1>a DEF AskToJoin, TablesInv, PeopleOK
  <2>3. RequestOK([new EXCEPT !.touches = {u}], Made, joined)
    BY <2>2 DEF RequestOK, Idle
  <2>4. Grows => RequestsOK'
    BY <1>1, <2>1, <2>3, OpensChange DEF AskToJoin
  <2> QED
    BY <1>1, <2>4, SameTables DEF AskToJoin
<1>2. ASSUME NEW g \in Groups, NEW u \in Users, Leave(r, g, u)
      PROVE  TablesInv'
  <2> DEFINE new == [Idle EXCEPT !.stage = "reading roles", !.affected = {u}]
  <2>1. new \in RequestRecord
    BY IdleIsOK DEF RequestRecord, Idle
  <2>2. RequestOK([new EXCEPT !.touches = {u}], Made, joined)
    BY DEF RequestOK, Idle
  <2>3. /\ UNCHANGED <<members, role, base, disabled, joined, group, grants,
                       invited, linked, expired, withdrawn, invitee, inviter>>
        /\ inGroup' \subseteq inGroup
    BY <1>2 DEF Leave, memberRows, invitationRows
  <2>4. Made' = Made /\ Grows
    BY <2>3 DEF Made, Grows
  <2>5. RequestsOK'
    BY <1>2, <2>1, <2>2, <2>4, OpensChange DEF Leave
  <2> QED
    BY <2>3, <2>4, <2>5 DEF TablesInv, PeopleOK, GroupsOK, InvitationsOK
<1>3. CASE Join(r)
  <2>1. /\ UNCHANGED <<members, role, base, disabled, joined, group, grants,
                       invited, linked, expired, withdrawn, invitee, inviter, crossed>>
        /\ inGroup' = inGroup \cup {<<req[r].group, req[r].user>>}
        /\ Apply(r, {req[r].user})
    BY <1>3 DEF Join, memberRows, invitationRows
  <2>2. /\ req[r].group \in Made /\ req[r].user \in joined
        /\ req[r].user \in Users /\ req[r].touches = {req[r].user}
    BY <1>0, <1>3 DEF Join, RequestOK
  <2>3. Made' = Made /\ Grows
    BY <2>1 DEF Made, Grows
  <2>4. RequestsOK'
    BY <2>1, <2>2, <2>3, ApplyIsOK
  <2> QED
    BY <2>1, <2>2, <2>3, <2>4 DEF TablesInv, PeopleOK, GroupsOK, InvitationsOK
<1>4. ASSUME NEW g \in Groups, NEW wanted \in Grants, EditGroup(r, g, wanted)
      PROVE  TablesInv'
  <2> DEFINE new == [Idle EXCEPT !.stage = "reading people", !.group = g]
  <2>1. new \in RequestRecord
    BY IdleIsOK DEF RequestRecord, Idle
  <2>2. RequestOK([new EXCEPT !.touches = Users], Made, joined)
    BY DEF RequestOK, Idle
  <2>3. /\ UNCHANGED <<members, role, base, disabled, joined, group, inGroup,
                       invited, linked, expired, withdrawn, invitee, inviter>>
        /\ grants' = [grants EXCEPT ![g] = wanted] /\ wanted \subseteq Roles
    BY <1>4, PolicyAssumption DEF EditGroup, memberRows, invitationRows
  <2>4. Made' = Made /\ Grows
    BY <2>3 DEF Made, Grows
  <2>5. RequestsOK'
    BY <1>4, <2>1, <2>2, <2>4, OpensChange DEF EditGroup
  <2> QED
    BY <2>3, <2>4, <2>5 DEF TablesInv, PeopleOK, GroupsOK, InvitationsOK
<1>5. CASE ReadPeople(r)
  <2>1. req[r].touches = Users
    BY <1>0, <1>5 DEF ReadPeople, RequestOK
  <2>2. PICK whom \in SUBSET Users : whom = MembersOfGroup(req[r].group)
    BY DEF MembersOfGroup
  <2>3. Grows => RequestsOK'
    BY <1>5, <2>1, <2>2, ApplyIsOK DEF ReadPeople
  <2> QED
    BY <1>5, <2>3, SameTables DEF ReadPeople
<1>6. ASSUME NEW g \in Groups, AskToDeleteGroup(r, g) PROVE TablesInv'
  <2>0. PICK whom \in SUBSET Users : whom = MembersOfGroup(g)
    BY DEF MembersOfGroup
  <2> DEFINE new == [Idle EXCEPT !.stage = "dropping", !.group = g, !.affected = whom]
  <2>1. new \in RequestRecord
    BY IdleIsOK DEF RequestRecord, Idle
  <2>2. RequestOK([new EXCEPT !.touches = Users], Made, joined)
    BY DEF RequestOK, Idle
  <2>3. Grows => RequestsOK'
    BY <1>6, <2>0, <2>1, <2>2, OpensChange DEF AskToDeleteGroup
  <2> QED
    BY <1>6, <2>3, SameTables DEF AskToDeleteGroup
<1>7. CASE DeleteGroup(r)
  <2>1. PICK new : new = [req[r] EXCEPT !.stage = "emptying"]
    OBVIOUS
  <2>2. new \in RequestRecord
    BY <1>0, <2>1 DEF RequestRecord
  <2>3. RequestOK(new, Made, joined)
    BY <1>0, <1>7, <2>1 DEF RequestRecord, RequestOK, DeleteGroup
  <2>4. req' = [req EXCEPT ![r] = new]
    BY <1>7, <2>1 DEF DeleteGroup, Goto, TablesInv, RequestsOK
  <2>5. /\ UNCHANGED <<members, role, base, disabled, joined, grants, inGroup,
                       invited, linked, expired, withdrawn, invitee, inviter, crossed>>
        /\ group' = [group EXCEPT ![req[r].group] = "gone"]
        /\ req[r].group \in There
    BY <1>7 DEF DeleteGroup, memberRows, invitationRows
  <2>6. group' \in [Groups -> {"none", "there", "gone"}] /\ Made' = Made
    BY <2>5 DEF Made, There, TablesInv, GroupsOK
  <2>7. RequestsOK' /\ Grows
    BY <1>0, <2>2, <2>3, <2>4, <2>5, <2>6, OneRequest DEF TablesInv, Grows
  <2> QED
    BY <2>5, <2>6, <2>7 DEF TablesInv, PeopleOK, GroupsOK, InvitationsOK
<1>8. CASE DeleteRows(r)
  <2>1. /\ UNCHANGED <<members, role, base, disabled, joined, group, grants,
                       invited, linked, expired, withdrawn, invitee, inviter, crossed>>
        /\ inGroup' \subseteq inGroup /\ Apply(r, req[r].affected)
    BY <1>8 DEF DeleteRows, memberRows, invitationRows
  <2>2. Made' = Made /\ Grows
    BY <2>1 DEF Made, Grows
  <2>3. /\ req[r].affected \in SUBSET Users
        /\ req[r].affected \subseteq req[r].touches
    BY <1>0 DEF RequestRecord, RequestOK
  <2>4. RequestsOK'
    BY <2>1, <2>2, <2>3, ApplyIsOK
  <2> QED
    BY <2>1, <2>2, <2>4 DEF TablesInv, PeopleOK, GroupsOK, InvitationsOK
<1> QED
  BY <1>1, <1>2, <1>3, <1>4, <1>5, <1>6, <1>7, <1>8 DEF ChangeGroups

LEMMA InviteSomebodyTables ==
  ASSUME TablesInv, NEW r \in Requests, InviteSomebody(r)
  PROVE  TablesInv'
<1>0. req[r] \in RequestRecord /\ RequestOK(req[r], Made, joined) /\ crossed \subseteq Users
  BY DEF TablesInv, RequestsOK
<1>1. ASSUME NEW u \in Users, NEW by \in Users, Invite(r, u, by) PROVE TablesInv'
  <2> DEFINE new == [Idle EXCEPT !.stage = "inviting", !.user = u, !.by = by]
  <2>1. new \in RequestRecord
    BY IdleIsOK DEF RequestRecord, Idle
  <2>2. RequestOK(new, Made, joined)
    BY DEF RequestOK, Idle
  <2>3. Grows => RequestsOK'
    BY <1>0, <1>1, <2>1, <2>2, Opens DEF Invite
  <2> QED
    BY <1>1, <2>3, SameTables DEF Invite
<1>2. CASE FindInvitation(r)
  <2>1. PICK i \in Invitations \cup {Nobody} :
          req' = [req EXCEPT ![r].stage = "found", ![r].invitation = i]
    BY <1>2 DEF FindInvitation, PendingFor
  <2>2. PICK new : new = [req[r] EXCEPT !.stage = "found", !.invitation = i]
    OBVIOUS
  <2>3. new \in RequestRecord
    BY <1>0, <2>2 DEF RequestRecord
  <2>4. RequestOK(new, Made, joined)
    BY <1>0, <1>2, <2>2 DEF RequestRecord, RequestOK, FindInvitation
  <2>5. req' = [req EXCEPT ![r] = new]
    BY <1>0, <2>1, <2>2 DEF TablesInv, RequestsOK
  <2>6. Grows => RequestsOK'
    BY <1>0, <1>2, <2>3, <2>4, <2>5, OneRequest DEF TablesInv, FindInvitation
  <2> QED
    BY <1>2, <2>6, SameTables DEF FindInvitation
<1>3. ASSUME NEW i \in Invitations, CreateInvitation(r, i) PROVE TablesInv'
  <2>1. PICK new : new = [req[r] EXCEPT !.stage = "linking", !.invitation = i,
                                     !.by = Nobody]
    OBVIOUS
  <2>2. new \in RequestRecord
    BY <1>0, <2>1 DEF RequestRecord
  <2>3. RequestOK(new, Made, joined)
    BY <1>0, <1>3, <2>1 DEF RequestRecord, RequestOK, CreateInvitation
  <2>4. req' = [req EXCEPT ![r] = new]
    BY <1>0, <1>3, <2>1 DEF TablesInv, RequestsOK, CreateInvitation
  <2>5. UNCHANGED <<members, role, base, disabled, joined, group, grants, inGroup,
                    linked, withdrawn, crossed>>
    BY <1>3 DEF CreateInvitation, memberRows, groupRows
  <2>6. Made' = Made /\ Grows
    BY <2>5 DEF Made, Grows
  <2>7. RequestsOK'
    BY <1>0, <2>2, <2>3, <2>4, <2>5, <2>6, OneRequest DEF TablesInv
  <2>8. req[r].user \in Users
    BY <1>0, <1>3 DEF RequestOK, CreateInvitation
  <2>9. inviter' \in [Invitations -> Users \cup {Nobody}]
    <3>1. req[r].by \in Users \cup {Nobody}
      BY <1>0 DEF RequestRecord
    <3>2. \E by \in {inviter[i], req[r].by} : inviter' = [inviter EXCEPT ![i] = by]
      BY <1>3 DEF CreateInvitation
    <3> QED
      BY <3>1, <3>2 DEF TablesInv, InvitationsOK
  <2>10. InvitationsOK'
    <3>1. CASE req[r].invitation = Nobody
      <4>1. /\ invited' = [invited EXCEPT ![i] = "pending"] /\ expired' = expired
            /\ invitee' = [invitee EXCEPT ![i] = req[r].user]
        BY <1>3, <3>1 DEF CreateInvitation
      <4> QED
        BY <2>5, <2>8, <2>9, <4>1 DEF TablesInv, InvitationsOK
    <3>2. CASE req[r].invitation # Nobody
      <4>1. /\ UNCHANGED <<invited, invitee>> /\ expired' = expired \ {i}
        BY <1>3, <3>2 DEF CreateInvitation
      <4> QED
        BY <2>5, <2>9, <4>1 DEF TablesInv, InvitationsOK
    <3> QED
      BY <3>1, <3>2
  <2> QED
    BY <2>5, <2>6, <2>7, <2>10 DEF TablesInv, PeopleOK, GroupsOK
<1>4. ASSUME NEW i \in Invitations, FollowLink(r, i) PROVE TablesInv'
  <2>1. PICK u \in Users : u = invitee[i]
    BY <1>4 DEF FollowLink, Admits, Live, TablesInv, InvitationsOK
  <2> DEFINE new == [Idle EXCEPT !.stage = "accepting", !.user = u, !.invitation = i]
  <2>2. new \in RequestRecord
    BY IdleIsOK DEF RequestRecord, Idle
  <2>3. RequestOK(new, Made, joined)
    BY DEF RequestOK, Idle
  <2>4. Grows => RequestsOK'
    BY <1>0, <1>4, <2>1, <2>2, <2>3, Opens DEF FollowLink
  <2> QED
    BY <1>4, <2>4, SameTables DEF FollowLink
<1>5. ASSUME req' = [req EXCEPT ![r] = Idle], crossed' = crossed, Grows
      PROVE  RequestsOK'
  BY <1>0, <1>5, IdleIsOK, OneRequest DEF TablesInv
<1>6. CASE MakeLink(r)
  <2>1. UNCHANGED <<members, role, base, disabled, joined, group, grants, inGroup,
                    expired, withdrawn, invitee, inviter, crossed>>
    BY <1>6 DEF MakeLink, memberRows, groupRows
  <2>2. Made' = Made /\ Grows
    BY <2>1 DEF Made, Grows
  <2>3. RequestsOK'
    BY <1>5, <1>6, <2>1, <2>2 DEF MakeLink, Close
  <2>4. /\ req[r].invitation \in Invitations
        /\ linked' = linked \cup {req[r].invitation}
    BY <1>0, <1>6 DEF RequestOK, MakeLink
  <2>5. /\ DOMAIN invited' = Invitations
        /\ invited' = [i \in Invitations |-> invited'[i]]
        /\ \A i \in Invitations :
             invited'[i] \in {"none", "pending", "accepted", "canceled"}
        /\ \A i \in Invitations : invited'[i] # "none" => invited[i] # "none"
    BY <1>6 DEF MakeLink, PendingFor, TablesInv, InvitationsOK
  <2>6. InvitationsOK'
    BY <2>1, <2>4, <2>5 DEF TablesInv, InvitationsOK
  <2> QED
    BY <2>1, <2>2, <2>3, <2>6 DEF TablesInv, PeopleOK, GroupsOK
<1>7. ASSUME NEW own \in Roles, AcceptInvitation(r, own) PROVE TablesInv'
  <2>1. PICK u \in Users : u = req[r].user
    BY <1>0, <1>7 DEF AcceptInvitation, RequestOK
  <2>2. PICK i \in Invitations : i = req[r].invitation
    BY <1>0, <1>7 DEF AcceptInvitation, RequestOK
  <2>3. /\ UNCHANGED <<base, disabled, group, grants, inGroup, linked, expired,
                       withdrawn, invitee, inviter, crossed>>
        /\ invited' = [invited EXCEPT ![i] = "accepted"] /\ invited[i] = "pending"
        /\ members' = members \cup {u} /\ joined' = joined \cup {u}
        /\ role' = [role EXCEPT ![u] = {own}]
    BY <1>7, <2>1, <2>2 DEF AcceptInvitation, groupRows, Live
  <2>4. Made' = Made /\ Grows
    BY <2>3 DEF Made, Grows
  <2>5. RequestsOK'
    BY <1>5, <1>7, <2>3, <2>4 DEF AcceptInvitation, Close
  <2>6. PeopleOK'
    BY <2>3 DEF TablesInv, PeopleOK
  <2>7. InvitationsOK'
    BY <2>3 DEF TablesInv, InvitationsOK
  <2>8. GroupsOK'
    BY <2>3, <2>4 DEF TablesInv, GroupsOK
  <2> QED
    BY <2>5, <2>6, <2>7, <2>8 DEF TablesInv
<1> QED
  BY <1>1, <1>2, <1>3, <1>4, <1>6, <1>7 DEF InviteSomebody

LEMMA OtherTables ==
  ASSUME TablesInv,
         \/ \E r \in Requests : GiveUp(r)
         \/ \E u \in Users : RestorePerson(u)
         \/ \E g \in Groups, wanted \in Grants : CreateGroup(g, wanted)
         \/ \E i \in Invitations : CancelInvitation(i) \/ Lapse(i)
  PROVE  TablesInv'
<1>1. ASSUME NEW r \in Requests, GiveUp(r) PROVE TablesInv'
  <2>1. crossed' \subseteq Users
    BY <1>1 DEF GiveUp, TablesInv, RequestsOK, RequestRecord
  <2>2. Grows => RequestsOK'
    BY <1>1, <2>1, IdleIsOK, OneRequest DEF TablesInv, GiveUp, Close
  <2> QED
    BY <1>1, <2>2, SameTables DEF GiveUp
<1>2. ASSUME NEW u \in Users, RestorePerson(u) PROVE TablesInv'
  <2>1. /\ UNCHANGED <<members, role, base, joined, group, grants, inGroup,
                       invited, linked, expired, withdrawn, invitee, inviter, req, crossed>>
        /\ disabled' \subseteq disabled
    BY <1>2 DEF RestorePerson, groupRows, invitationRows
  <2>2. Made' = Made /\ Grows
    BY <2>1 DEF Made, Grows
  <2>3. RequestsOK'
    BY <2>1, <2>2, NoRequest DEF TablesInv
  <2> QED
    BY <2>1, <2>2, <2>3 DEF TablesInv, PeopleOK, GroupsOK, InvitationsOK
<1>3. ASSUME NEW g \in Groups, NEW wanted \in Grants, CreateGroup(g, wanted)
      PROVE  TablesInv'
  <2>1. /\ UNCHANGED <<members, role, base, disabled, joined, inGroup,
                       invited, linked, expired, withdrawn, invitee, inviter, req, crossed>>
        /\ grants' = [grants EXCEPT ![g] = wanted] /\ wanted \subseteq Roles
        /\ group' = [group EXCEPT ![g] = "there"]
    BY <1>3, PolicyAssumption DEF CreateGroup, memberRows, invitationRows
  <2>2. Grows
    BY <2>1 DEF Made, Grows, TablesInv, GroupsOK
  <2>3. RequestsOK'
    BY <2>1, <2>2, NoRequest DEF TablesInv
  <2>4. GroupsOK'
    BY <2>1, <2>2 DEF TablesInv, GroupsOK, Grows
  <2> QED
    BY <2>1, <2>3, <2>4 DEF TablesInv, PeopleOK, InvitationsOK
<1>4. ASSUME NEW i \in Invitations, CancelInvitation(i) \/ Lapse(i)
      PROVE  TablesInv'
  <2>1. /\ UNCHANGED <<members, role, base, disabled, joined, group, grants,
                       inGroup, linked, invitee, inviter, req, crossed>>
        /\ expired' \subseteq expired \cup {i} /\ withdrawn' \subseteq withdrawn \cup {i}
        /\ invited' \in {invited, [invited EXCEPT ![i] = "canceled"]}
        /\ invited[i] = "pending"
    BY <1>4 DEF CancelInvitation, Lapse, memberRows, groupRows
  <2>2. Made' = Made /\ Grows
    BY <2>1 DEF Made, Grows
  <2>3. RequestsOK'
    BY <2>1, <2>2, NoRequest DEF TablesInv
  <2>4. InvitationsOK'
    BY <2>1 DEF TablesInv, InvitationsOK
  <2> QED
    BY <2>1, <2>2, <2>3, <2>4 DEF TablesInv, PeopleOK, GroupsOK
<1> QED
  BY <1>1, <1>2, <1>3, <1>4

LEMMA TablesStutter ==
  ASSUME TablesInv, UNCHANGED vars
  PROVE  TablesInv'
<1>1. UNCHANGED <<memberRows, groupRows, invitationRows, req, crossed>>
  BY DEF vars
<1>2. Grows => RequestsOK'
  BY <1>1, NoRequest DEF TablesInv
<1> QED
  BY <1>1, <1>2, SameTables

LEMMA TablesStep == TablesInv /\ [Next]_vars => TablesInv'
BY ChangeRolesTables, ApplyRolesTables, ChangePeopleTables, ChangeGroupsTables,
   InviteSomebodyTables, OtherTables, TablesStutter DEF Next

LEMMA Tables == Spec => []TablesInv
BY TablesInit, TablesStep, PTL DEF Spec

(* Everything a request reads and writes has its type in every behaviour:
   the type invariant of people.ts, groups.ts, roles.ts and invitations.ts. *)
THEOREM PeopleTypes == Spec => []TypeOK
BY Tables, TablesAreTyped, PTL

-----------------------------------------------------------------------------
(* Only a removal and a suspension take anybody away. *)
LEMMA OnlyTwoTakeAway ==
  ASSUME TablesInv, Next
  PROVE  \/ \E r \in Requests : Remove(r) \/ Suspend(r)
         \/ members \subseteq members' /\ disabled' \subseteq disabled
<1>1. ASSUME NEW r \in Requests,
             ChangeRoles(r) \/ ApplyRoles(r) \/ ChangeGroups(r) \/ GiveUp(r)
      PROVE  members' = members /\ disabled' = disabled
  <2>1. CASE ChangeRoles(r)
    BY <2>1 DEF ChangeRoles, AskForRole, UpdateMemberRole, RecordOwnRole, memberRows
  <2>2. CASE ApplyRoles(r)
    BY <2>2 DEF ApplyRoles, ReadRole, ReadGroups, WriteRoles, RolesApplied, memberRows
  <2>3. CASE ChangeGroups(r)
    BY <2>3 DEF ChangeGroups, AskToJoin, Leave, Join, EditGroup, ReadPeople,
                AskToDeleteGroup, DeleteGroup, DeleteRows, memberRows
  <2>4. CASE GiveUp(r)
    BY <2>4 DEF GiveUp, memberRows
  <2> QED
    BY <1>1, <2>1, <2>2, <2>3, <2>4
<1>2. ASSUME NEW r \in Requests, InviteSomebody(r)
      PROVE  members \subseteq members' /\ disabled' = disabled
  BY <1>2 DEF InviteSomebody, Invite, FindInvitation, CreateInvitation, FollowLink,
              MakeLink, AcceptInvitation, memberRows
<1>3. ASSUME NEW r \in Requests, ChangePeople(r), ~Remove(r), ~Suspend(r)
      PROVE  members' = members /\ disabled' = disabled
  BY <1>3 DEF ChangePeople, AskToRemove, AskToSuspend, memberRows
<1>4. ASSUME \/ \E u \in Users : RestorePerson(u)
             \/ \E g \in Groups, wanted \in Grants : CreateGroup(g, wanted)
             \/ \E i \in Invitations : CancelInvitation(i) \/ Lapse(i)
      PROVE  members' = members /\ disabled' \subseteq disabled
  BY <1>4 DEF RestorePerson, CreateGroup, CancelInvitation, Lapse, memberRows
<1> QED
  BY <1>1, <1>2, <1>3, <1>4 DEF Next

(* Whoever is not the last administrator leaves one behind. *)
LEMMA AnotherStands ==
  ASSUME TablesInv, NEW u \in members, ~LeavesNoAdministrator(u), Standing # {}
  PROVE  \E v \in Standing : v # u
<1> SUFFICES ASSUME \A v \in Standing : v = u
             PROVE  FALSE
  OBVIOUS
<1>1. Standing = {u} /\ Administers(u)
  BY DEF Standing
<1>2. Cardinality(Standing) = 1
  BY <1>1, FS_Singleton, Zenon
<1> QED
  BY <1>1, <1>2 DEF LeavesNoAdministrator, IsLastAdministrator

LEMMA TakingAwayLeavesOne ==
  ASSUME TablesInv, Next,
         members \ members' # {} \/ disabled' \ disabled # {}, Standing # {}
  PROVE  Standing' # {}
<1>1. PICK r \in Requests : Remove(r) \/ Suspend(r)
  BY OnlyTwoTakeAway
<1>2. PICK u : u = req[r].user
  OBVIOUS
<1>3. u \in members /\ ~LeavesNoAdministrator(u)
  BY <1>1, <1>2 DEF Remove, Suspend, LeavesNoAdministrator
<1>4. PICK v \in Standing : v # u
  BY <1>3, AnotherStands
<1>5. v \in members' \ disabled' /\ role'[v] = role[v]
  BY <1>1, <1>2, <1>4 DEF Remove, Suspend, Standing, TablesInv, PeopleOK
<1> QED
  BY <1>4, <1>5 DEF Standing, Administers, Allowed

(* However removals, suspensions and demotions overlap, a removal and a
   suspension leave an administrator who can sign in, because each counts
   again under the lock (people.ts). *)
THEOREM TheLastAdministratorStays == Spec => TakenAwayNotTheLast
<1>1. TablesInv /\ [Next]_vars =>
        [/\ members \ members' # {} \/ disabled' \ disabled # {}
         /\ Standing # {}
         => Standing' # {}]_<<members, role, disabled>>
  <2> SUFFICES ASSUME TablesInv, Next,
                      members \ members' # {} \/ disabled' \ disabled # {},
                      Standing # {}
               PROVE  Standing' # {}
    BY DEF vars, memberRows
  <2> QED
    BY TakingAwayLeavesOne
<1> QED
  BY <1>1, Tables, PTL DEF Spec, TakenAwayNotTheLast

-----------------------------------------------------------------------------
(* Nothing of what a person holds, or should hold, has changed. *)
Untouched(u) ==
  /\ role'[u] = role[u] /\ base'[u] = base[u]
  /\ GroupRoles(u)' = GroupRoles(u)
  /\ \A g \in Groups : <<g, u>> \in inGroup' <=> <<g, u>> \in inGroup

(* What the groups grant a person depends on the groups they are in. *)
LEMMA SameGroups ==
  ASSUME NEW u,
         \A g \in Groups : <<g, u>> \in inGroup' <=> <<g, u>> \in inGroup,
         \A g \in Groups : <<g, u>> \in inGroup =>
           grants'[g] = grants[g] /\ (group'[g] = "there" <=> group[g] = "there")
  PROVE  GroupRoles(u)' = GroupRoles(u)
<1>1. {h \in There : <<h, u>> \in inGroup}' = {h \in There : <<h, u>> \in inGroup}
  BY DEF There
<1>2. \A h \in {h \in There : <<h, u>> \in inGroup} : grants'[h] = grants[h]
  BY DEF There
<1>3. {grants[g] : g \in {h \in There : <<h, u>> \in inGroup}}' =
        {grants[g] : g \in {h \in There : <<h, u>> \in inGroup}}
  BY <1>1, <1>2
<1> QED
  BY <1>3 DEF GroupRoles

LEMMA AllUntouched ==
  ASSUME UNCHANGED <<role, base, group, grants, inGroup>>, NEW u
  PROVE  Untouched(u)
BY SameGroups DEF Untouched

LEMMA StillWorkedOut ==
  ASSUME NEW u, Untouched(u), WorkedOut(u)
  PROVE  WorkedOut(u)'
BY DEF Untouched, WorkedOut

LEMMA StillInProgress ==
  ASSUME TablesInv, NEW u \in Users, NEW q \in Requests, req'[q] = req[q],
         Untouched(u), Progress(q, u)
  PROVE  Progress(q, u)'
<1>1. WorkedOut(u) => WorkedOut(u)'
  BY StillWorkedOut
<1>2. req[q].stage \in {"dropping", "emptying", "reading people"} => req[q].group \in Groups
  BY DEF TablesInv, RequestsOK, RequestOK
<1>3. GroupRoles(u)' = GroupRoles(u)
  BY DEF Untouched
<1>4. PICK g : g = req[q].group /\ g = req'[q].group
  OBVIOUS
<1>5. g \in Groups => (u \in MembersOfGroup(g)' <=> u \in MembersOfGroup(g))
  BY DEF MembersOfGroup, Untouched
<1>6. MembersOfGroup(g)' = MembersOfGroup(req[q].group)'
  BY <1>4 DEF MembersOfGroup
<1> QED
  BY <1>1, <1>2, <1>3, <1>4, <1>5, <1>6 DEF Progress

(* One request moves.  A person neither it nor any other touches stays worked
   out; one that another touches is left alone; and one it touches it has
   seen to, if no other touches them. *)
LEMMA OnePerson ==
  ASSUME TablesInv, RolesInv, OverlapsAreCrossed', crossed \subseteq crossed',
         NEW r \in Requests, \A q \in Requests \ {r} : req'[q] = req[q],
         NEW u \in members \ crossed',
         Untouched(u) \/ u \in req[r].touches \cup req'[r].touches,
         u \in req'[r].touches => Progress(r, u)',
         u \in req[r].touches \ req'[r].touches => WorkedOut(u)'
  PROVE  /\ \A q \in Requests : u \in req'[q].touches => Progress(q, u)'
         /\ (\A q \in Requests : u \notin req'[q].touches) => WorkedOut(u)'
<1>0. u \in Users /\ u \notin crossed
  BY DEF TablesInv, PeopleOK
<1>1. ASSUME NEW q \in Requests, q # r, u \in req'[q].touches
      PROVE  Progress(q, u)'
  <2>1. u \in req[q].touches /\ req'[q] = req[q]
    BY <1>1
  <2>2. u \notin req[r].touches /\ u \notin req'[r].touches
    BY <1>0, <1>1, <2>1 DEF RolesInv, OverlapsAreCrossed
  <2>3. Progress(q, u)
    BY <1>0, <2>1 DEF RolesInv, WorkedOutOrUnderWay
  <2> QED
    BY <1>0, <2>1, <2>2, <2>3, StillInProgress
<1>2. ASSUME \A q \in Requests : u \notin req'[q].touches PROVE WorkedOut(u)'
  <2>1. CASE u \in req[r].touches
    BY <1>2, <2>1
  <2>2. CASE u \notin req[r].touches
    <3>1. \A q \in Requests : u \notin req[q].touches
      BY <1>2, <2>2
    <3>2. WorkedOut(u)
      BY <1>0, <3>1 DEF RolesInv, WorkedOutOrUnderWay
    <3> QED
      BY <1>2, <2>2, <3>2, StillWorkedOut
  <2> QED
    BY <2>1, <2>2
<1> QED
  BY <1>1, <1>2

LEMMA OverlapsStep ==
  ASSUME RolesInv, NEW r \in Requests, \A q \in Requests \ {r} : req'[q] = req[q],
         crossed \subseteq crossed',
         \A q \in Requests \ {r} :
           req'[r].touches \cap req[q].touches \subseteq crossed'
  PROVE  OverlapsAreCrossed'
BY DEF RolesInv, OverlapsAreCrossed

LEMMA RolesMove ==
  ASSUME TablesInv, RolesInv, NEW r \in Requests, crossed \subseteq crossed',
         NEW new, req' = [req EXCEPT ![r] = new], members' \subseteq members,
         new.touches \subseteq req[r].touches \/
           new.touches \cap UNION {req[q].touches : q \in Requests \ {r}} \subseteq crossed',
         new.touches # {} =>
           new.stage \in {"role", "base", "joining", "reading people", "dropping",
                          "emptying", "reading roles", "reading groups", "writing"},
         \A u \in members' \ crossed' :
           /\ Untouched(u) \/ u \in req[r].touches \cup new.touches
           /\ u \in new.touches => Progress(r, u)'
           /\ u \in req[r].touches \ new.touches => WorkedOut(u)'
  PROVE  RolesInv'
<1>1. req'[r] = new /\ \A q \in Requests \ {r} : req'[q] = req[q]
  BY DEF TablesInv, RequestsOK
<1>2. OverlapsAreCrossed'
  <2>1. \A q \in Requests \ {r} : req'[r].touches \cap req[q].touches \subseteq crossed'
    BY <1>1 DEF RolesInv, OverlapsAreCrossed
  <2> QED
    BY <1>1, <2>1, OverlapsStep
<1>3. OnlyChangesTouch'
  BY <1>1 DEF RolesInv, OnlyChangesTouch
<1>4. ASSUME NEW u \in members' \ crossed'
      PROVE  /\ \A q \in Requests : u \in req'[q].touches => Progress(q, u)'
             /\ (\A q \in Requests : u \notin req'[q].touches) => WorkedOut(u)'
  <2>1. /\ u \in members \ crossed'
        /\ Untouched(u) \/ u \in req[r].touches \cup req'[r].touches
        /\ u \in req'[r].touches => Progress(r, u)'
        /\ u \in req[r].touches \ req'[r].touches => WorkedOut(u)'
    BY <1>1
  <2> QED
    BY <1>1, <1>2, <2>1, OnePerson
<1>5. WorkedOutOrUnderWay'
  BY <1>4 DEF WorkedOutOrUnderWay
<1> QED
  BY <1>2, <1>3, <1>5 DEF RolesInv

(* A change opens: what those it touches hold is worked out, unless another
   touches them. *)
LEMMA RolesOpen ==
  ASSUME TablesInv, RolesInv, NEW r \in Requests, NEW whom, NEW new,
         OpenChange(r, whom, new), new \in RequestRecord, members' = members,
         new.stage \in {"role", "joining", "reading people", "dropping", "reading roles"},
         \A u \in members : Untouched(u) \/ u \in whom,
         \A u \in whom \cap members : WorkedOut(u) => Progress(r, u)'
  PROVE  RolesInv'
<1>1. PICK full : full = [new EXCEPT !.touches = whom]
  OBVIOUS
<1>2. full.touches = whom /\ full.stage = new.stage
  BY <1>1 DEF RequestRecord
<1>3. /\ req[r].stage = "idle" /\ req' = [req EXCEPT ![r] = full]
      /\ crossed' = crossed \cup (whom \cap UNION {req[q].touches : q \in Requests \ {r}})
  BY <1>1 DEF OpenChange, Open
<1>4. req[r].touches = {}
  BY <1>3 DEF RolesInv, OnlyChangesTouch
<1>5. ASSUME NEW u \in members' \ crossed', u \in whom PROVE Progress(r, u)'
  <2>1. \A q \in Requests : u \notin req[q].touches
    BY <1>3, <1>4, <1>5
  <2>2. WorkedOut(u)
    BY <1>3, <1>5, <2>1 DEF RolesInv, WorkedOutOrUnderWay
  <2> QED
    BY <1>5, <2>2
<1>6. crossed \subseteq crossed' /\ members' \subseteq members
  BY <1>3
<1>7. full.touches \cap UNION {req[q].touches : q \in Requests \ {r}} \subseteq crossed'
  BY <1>2, <1>3
<1>8. \A u \in members' \ crossed' :
        /\ Untouched(u) \/ u \in req[r].touches \cup full.touches
        /\ u \in full.touches => Progress(r, u)'
        /\ u \in req[r].touches \ full.touches => WorkedOut(u)'
  BY <1>2, <1>4, <1>5
<1>9. full.stage \in {"role", "base", "joining", "reading people", "dropping",
                      "emptying", "reading roles", "reading groups", "writing"}
  BY <1>2
<1> QED
  BY <1>3, <1>6, <1>7, <1>8, <1>9, RolesMove

(* A request that changes nothing anybody holds, and touches nobody. *)
LEMMA RolesAside ==
  ASSUME TablesInv, RolesInv, NEW r \in Requests, crossed' = crossed,
         NEW new, req' = [req EXCEPT ![r] = new], members' \subseteq members,
         req[r].touches = {}, new.touches = {},
         \A u \in members' : Untouched(u)
  PROVE  RolesInv'
BY RolesMove

LEMMA ChangeRolesRoles ==
  ASSUME TablesInv, RolesInv, NEW r \in Requests, ChangeRoles(r)
  PROVE  RolesInv'
<1>0. req[r] \in RequestRecord /\ RequestOK(req[r], Made, joined)
  BY DEF TablesInv, RequestsOK
<1>1. ASSUME NEW u \in Users, NEW own \in Roles, AskForRole(r, u, own)
      PROVE  RolesInv'
  <2> DEFINE new == [Idle EXCEPT !.stage = "role", !.user = u, !.role = own]
  <2>1. new \in RequestRecord /\ new.stage = "role"
    BY IdleIsOK DEF RequestRecord, Idle
  <2>2. \A v \in members : Untouched(v)
    BY <1>1, AllUntouched DEF AskForRole, memberRows, groupRows
  <2>3. req'[r].stage = "role" /\ members' = members
    BY <1>1, <2>1 DEF AskForRole, OpenChange, Open, TablesInv, RequestsOK, memberRows,
                      RequestRecord
  <2>4. \A v \in members : WorkedOut(v) => Progress(r, v)'
    <3> SUFFICES ASSUME NEW v \in members, WorkedOut(v) PROVE Progress(r, v)'
      OBVIOUS
    <3>1. WorkedOut(v)'
      BY <2>2, StillWorkedOut
    <3> QED
      BY <2>3, <3>1 DEF Progress
  <2> HIDE DEF new
  <2>5. OpenChange(r, {u}, new)
    BY <1>1 DEF AskForRole, new
  <2> QED
    BY <2>1, <2>2, <2>3, <2>4, <2>5, RolesOpen
<1>2. CASE UpdateMemberRole(r)
  <2>1. PICK new : new = [req[r] EXCEPT !.stage = "base"]
    OBVIOUS
  <2>2. /\ req' = [req EXCEPT ![r] = new] /\ req'[r] = new
        /\ new.stage = "base" /\ new.touches = req[r].touches
    BY <1>0, <1>2, <2>1 DEF UpdateMemberRole, Goto, TablesInv, RequestsOK, RequestRecord
  <2>3. /\ UNCHANGED <<members, base, group, grants, inGroup, crossed>>
        /\ role' = [role EXCEPT ![req[r].user] = {req[r].role}]
        /\ req[r].touches = {req[r].user}
    BY <1>0, <1>2 DEF UpdateMemberRole, groupRows, RequestOK
  <2>4. ASSUME NEW v \in members, v \notin req[r].touches PROVE Untouched(v)
    BY <2>3, <2>4, SameGroups DEF Untouched, TablesInv, PeopleOK
  <2>5. \A v \in members : Progress(r, v)'
    BY <2>2 DEF Progress
  <2> QED
    BY <2>2, <2>3, <2>4, <2>5, RolesMove
<1>3. CASE RecordOwnRole(r)
  <2>1. PICK new : new = [Idle EXCEPT !.stage = "reading roles",
                            !.affected = {req[r].user}, !.touches = req[r].touches]
    OBVIOUS
  <2>2. /\ req' = [req EXCEPT ![r] = new] /\ req'[r] = new
        /\ new.stage = "reading roles" /\ new.touches = req[r].touches
        /\ new.affected = {req[r].user}
    BY <1>0, <1>3, <2>1 DEF RecordOwnRole, Apply, TablesInv, RequestsOK, Idle
  <2>3. /\ UNCHANGED <<members, role, group, grants, inGroup, crossed>>
        /\ base' \in {base, [base EXCEPT ![req[r].user] = req[r].role]}
        /\ req[r].touches = {req[r].user}
    BY <1>0, <1>3 DEF RecordOwnRole, groupRows, RequestOK
  <2>4. ASSUME NEW v \in members, v \notin req[r].touches PROVE Untouched(v)
    BY <2>3, <2>4, SameGroups DEF Untouched, TablesInv, PeopleOK
  <2>5. \A v \in req[r].touches : Progress(r, v)'
    BY <2>2, <2>3 DEF Progress
  <2> QED
    BY <2>2, <2>3, <2>4, <2>5, RolesMove
<1> QED
  BY <1>1, <1>2, <1>3 DEF ChangeRoles

LEMMA ApplyRolesRoles ==
  ASSUME TablesInv, RolesInv, NEW r \in Requests, ApplyRoles(r)
  PROVE  RolesInv'
<1>0. req[r] \in RequestRecord /\ RequestOK(req[r], Made, joined)
  BY DEF TablesInv, RequestsOK
<1>a. ASSUME NEW u \in members \ crossed, u \in req[r].touches PROVE Progress(r, u)
  BY <1>a DEF RolesInv, WorkedOutOrUnderWay
<1>1. ASSUME NEW u \in Users, ReadRole(r, u) PROVE RolesInv'
  <2>0. /\ UNCHANGED <<members, role, base, group, grants, inGroup, crossed>>
        /\ req[r].stage = "reading roles"
    BY <1>1 DEF ReadRole, memberRows, groupRows
  <2>1. PICK new \in {[req[r] EXCEPT !.stage = "reading groups", !.user = u,
                                     !.base = IF base[u] # Unset THEN base[u]
                                              ELSE CHOOSE one \in role[u] : TRUE],
                      [req[r] EXCEPT !.affected = @ \ {u}]} :
          /\ req' = [req EXCEPT ![r] = new]
          /\ u \notin members \/ new.affected = req[r].affected
    BY <1>0, <1>1 DEF ReadRole, TablesInv, RequestsOK, RequestRecord
  <2>2. /\ req'[r] = new /\ new.touches = req[r].touches
        /\ new.stage \in {"reading roles", "reading groups"}
        /\ req[r].affected \ {u} \subseteq new.affected
    BY <1>0, <2>0, <2>1 DEF TablesInv, RequestsOK, RequestRecord
  <2>3. \A v \in members : Untouched(v)
    BY <2>0, AllUntouched
  <2>4. ASSUME NEW v \in members \ crossed, v \in req[r].touches PROVE Progress(r, v)'
    <3>1. v \in req[r].affected \/ WorkedOut(v)
      BY <1>a, <2>0, <2>4 DEF Progress
    <3>2. v \in new.affected \/ WorkedOut(v)'
      BY <2>1, <2>2, <2>3, <3>1, StillWorkedOut
    <3> QED
      BY <2>2, <3>2 DEF Progress
  <2>5. \A v \in members' \ crossed' :
          /\ Untouched(v) \/ v \in req[r].touches \cup new.touches
          /\ v \in new.touches => Progress(r, v)'
          /\ v \in req[r].touches \ new.touches => WorkedOut(v)'
    BY <2>0, <2>2, <2>3, <2>4
  <2>6. new.stage \in {"role", "base", "joining", "reading people", "dropping",
                       "emptying", "reading roles", "reading groups", "writing"}
    BY <2>2
  <2> QED
    BY <2>0, <2>1, <2>2, <2>5, <2>6, RolesMove
<1>2. CASE ReadGroups(r)
  <2>0. /\ UNCHANGED <<members, role, base, group, grants, inGroup, crossed>>
        /\ req[r].stage = "reading groups"
    BY <1>2 DEF ReadGroups, memberRows, groupRows
  <2>1. PICK held : held = GroupRoles(req[r].user)
    OBVIOUS
  <2>2. PICK new : new = [req[r] EXCEPT !.stage = "writing", !.held = held]
    OBVIOUS
  <2>3. /\ req' = [req EXCEPT ![r] = new] /\ req'[r] = new
        /\ new.touches = req[r].touches /\ new.stage = "writing"
        /\ new.affected = req[r].affected /\ new.held = held
        /\ new.user = req[r].user
    BY <1>0, <1>2, <2>1, <2>2 DEF ReadGroups, TablesInv, RequestsOK, RequestRecord
  <2>4. \A v \in members : Untouched(v)
    BY <2>0, AllUntouched
  <2>5. ASSUME NEW v \in members \ crossed, v \in req[r].touches PROVE Progress(r, v)'
    <3>1. v \in req[r].affected \/ WorkedOut(v)
      BY <1>a, <2>0, <2>5 DEF Progress
    <3>2. v \in new.affected \/ WorkedOut(v)'
      BY <2>3, <2>4, <3>1, StillWorkedOut
    <3>3. new.user = v => new.held = GroupRoles(v)'
      BY <2>1, <2>3, <2>4 DEF Untouched
    <3> QED
      BY <2>3, <3>2, <3>3 DEF Progress
  <2>6. \A v \in members' \ crossed' :
          /\ Untouched(v) \/ v \in req[r].touches \cup new.touches
          /\ v \in new.touches => Progress(r, v)'
          /\ v \in req[r].touches \ new.touches => WorkedOut(v)'
    BY <2>0, <2>3, <2>4, <2>5
  <2> QED
    BY <2>0, <2>3, <2>6, RolesMove
<1>3. CASE WriteRoles(r)
  <2>1. PICK u : u = req[r].user
    OBVIOUS
  <2>2. /\ u \in Users /\ req[r].base \in Roles /\ req[r].stage = "writing"
        /\ u \in req[r].affected /\ req[r].affected \subseteq req[r].touches
    BY <1>0, <1>3, <2>1 DEF WriteRoles, RequestOK
  <2>3. PICK new : new = [req[r] EXCEPT !.stage = "reading roles",
                            !.affected = @ \ {u}, !.user = Nobody,
                            !.base = Unset, !.held = {}]
    OBVIOUS
  <2>4. /\ req' = [req EXCEPT ![r] = new] /\ req'[r] = new
        /\ new.touches = req[r].touches /\ new.stage = "reading roles"
        /\ new.affected = req[r].affected \ {u}
    BY <1>0, <1>3, <2>1, <2>3 DEF WriteRoles, TablesInv, RequestsOK, RequestRecord
  <2>5. /\ UNCHANGED <<members, group, grants, inGroup, crossed>>
        /\ u \in members => /\ base' = [base EXCEPT ![u] = req[r].base]
                            /\ role' = [role EXCEPT ![u] = {req[r].base} \cup req[r].held]
        /\ u \notin members => UNCHANGED <<base, role>>
    BY <1>3, <2>1 DEF WriteRoles, groupRows
  <2>6. \A v : GroupRoles(v)' = GroupRoles(v)
    BY <2>5, SameGroups
  <2>7. ASSUME NEW v \in members, v # u PROVE Untouched(v)
    <3>1. role'[v] = role[v] /\ base'[v] = base[v]
      BY <2>5, <2>7 DEF TablesInv, PeopleOK
    <3> QED
      BY <2>5, <2>6, <3>1 DEF Untouched
  <2>8. ASSUME u \in members \ crossed PROVE WorkedOut(u)'
    <3>1. req[r].held = GroupRoles(u)
      BY <1>a, <2>1, <2>2, <2>8 DEF Progress
    <3>2. base'[u] = req[r].base /\ role'[u] = {req[r].base} \cup req[r].held
      BY <2>2, <2>5, <2>8 DEF TablesInv, PeopleOK
    <3>3. base'[u] # Unset /\ role'[u] = {base'[u]} \cup GroupRoles(u)'
      BY <2>2, <2>6, <3>1, <3>2, PolicyAssumption
    <3> QED
      BY <3>3 DEF WorkedOut
  <2>9. ASSUME NEW v \in members \ crossed, v \in req[r].touches PROVE Progress(r, v)'
    <3>1. v \in req[r].affected \/ WorkedOut(v)
      BY <1>a, <2>2, <2>9 DEF Progress
    <3>2. v \in new.affected \/ WorkedOut(v)'
      BY <2>4, <2>7, <2>8, <3>1, StillWorkedOut
    <3> QED
      BY <2>4, <3>2 DEF Progress
  <2>10. \A v \in members' \ crossed' :
           /\ Untouched(v) \/ v \in req[r].touches \cup new.touches
           /\ v \in new.touches => Progress(r, v)'
           /\ v \in req[r].touches \ new.touches => WorkedOut(v)'
    BY <2>2, <2>4, <2>5, <2>7, <2>9
  <2> QED
    BY <2>4, <2>5, <2>10, RolesMove
<1>4. CASE RolesApplied(r)
  <2>1. /\ UNCHANGED <<members, role, base, group, grants, inGroup, crossed>>
        /\ req[r].stage = "reading roles" /\ req[r].affected = {}
        /\ req' = [req EXCEPT ![r] = Idle]
    BY <1>4 DEF RolesApplied, Close, memberRows, groupRows
  <2>2. \A v \in members : Untouched(v)
    BY <2>1, AllUntouched
  <2>3. ASSUME NEW v \in members \ crossed, v \in req[r].touches PROVE WorkedOut(v)'
    <3>1. WorkedOut(v)
      BY <1>a, <2>1, <2>3 DEF Progress
    <3> QED
      BY <2>2, <3>1, StillWorkedOut
  <2>4. Idle.touches = {}
    BY DEF Idle
  <2>5. \A v \in members' \ crossed' :
          /\ Untouched(v) \/ v \in req[r].touches \cup Idle.touches
          /\ v \in Idle.touches => Progress(r, v)'
          /\ v \in req[r].touches \ Idle.touches => WorkedOut(v)'
    BY <2>1, <2>2, <2>3, <2>4
  <2> QED
    BY <2>1, <2>4, <2>5, RolesMove
<1> QED
  BY <1>1, <1>2, <1>3, <1>4 DEF ApplyRoles

LEMMA ChangePeopleRoles ==
  ASSUME TablesInv, RolesInv, NEW r \in Requests, ChangePeople(r)
  PROVE  RolesInv'
<1>1. ASSUME NEW u \in Users, AskToRemove(r, u) \/ AskToSuspend(r, u)
      PROVE  RolesInv'
  <2>1. PICK new : new.touches = {} /\ req' = [req EXCEPT ![r] = new]
    BY <1>1 DEF AskToRemove, AskToSuspend, Open, Idle
  <2>2. /\ UNCHANGED <<members, role, base, group, grants, inGroup, crossed>>
        /\ req[r].stage = "idle"
    BY <1>1 DEF AskToRemove, AskToSuspend, Open, memberRows, groupRows
  <2>3. req[r].touches = {}
    BY <2>2 DEF RolesInv, OnlyChangesTouch
  <2> QED
    BY <2>1, <2>2, <2>3, AllUntouched, RolesAside
<1>2. ASSUME Remove(r) \/ Suspend(r) PROVE RolesInv'
  <2>1. req[r].stage \in {"removing", "suspending"}
    BY <1>2 DEF Remove, Suspend
  <2>2. req[r].touches = {}
    BY <2>1 DEF RolesInv, OnlyChangesTouch
  <2>3. req' = [req EXCEPT ![r] = Idle] /\ Idle.touches = {} /\ crossed' = crossed
    BY <1>2 DEF Remove, Suspend, Close, Idle
  <2>4. members' \subseteq members
    BY <1>2 DEF Remove, Suspend
  <2>5. ASSUME NEW v \in members' PROVE Untouched(v)
    <3>1. CASE Remove(r)
      <4>1. PICK u : u = req[r].user
        OBVIOUS
      <4>2. /\ members' = members \ {u} /\ role' = [role EXCEPT ![u] = {}]
            /\ base' = [base EXCEPT ![u] = Unset]
            /\ inGroup' = {row \in inGroup : row[2] # u}
            /\ UNCHANGED <<group, grants>>
        BY <3>1, <4>1 DEF Remove
      <4>3. role'[v] = role[v] /\ base'[v] = base[v]
        BY <2>5, <4>2 DEF TablesInv, PeopleOK
      <4>4. \A g \in Groups : <<g, v>> \in inGroup' <=> <<g, v>> \in inGroup
        BY <2>5, <4>2
      <4>5. GroupRoles(v)' = GroupRoles(v)
        BY <4>2, <4>4, SameGroups
      <4> QED
        BY <4>3, <4>4, <4>5 DEF Untouched
    <3>2. CASE Suspend(r)
      BY <3>2, AllUntouched DEF Suspend, groupRows
    <3> QED
      BY <1>2, <3>1, <3>2
  <2> QED
    BY <2>2, <2>3, <2>4, <2>5, RolesAside
<1> QED
  BY <1>1, <1>2 DEF ChangePeople

LEMMA ChangeGroupsRoles ==
  ASSUME TablesInv, RolesInv, NEW r \in Requests, ChangeGroups(r)
  PROVE  RolesInv'
<1>0. req[r] \in RequestRecord /\ RequestOK(req[r], Made, joined)
  BY DEF TablesInv, RequestsOK
<1>a. ASSUME NEW u \in members \ crossed, u \in req[r].touches PROVE Progress(r, u)
  BY <1>a DEF RolesInv, WorkedOutOrUnderWay
<1>b. There \subseteq Groups
  BY DEF There
<1>1. ASSUME NEW g \in Groups, NEW u \in Users, AskToJoin(r, g, u)
      PROVE  RolesInv'
  <2>1. PICK new : new = [Idle EXCEPT !.stage = "joining", !.user = u, !.group = g]
    OBVIOUS
  <2>2. new \in RequestRecord /\ new.stage = "joining"
    BY <2>1, IdleIsOK DEF RequestRecord, Idle
  <2>3. \A v \in members : Untouched(v)
    BY <1>1, AllUntouched DEF AskToJoin, memberRows, groupRows
  <2>4. OpenChange(r, {u}, new) /\ members' = members
    BY <1>1, <2>1 DEF AskToJoin, memberRows
  <2>5. req'[r].stage = "joining"
    BY <2>2, <2>4 DEF OpenChange, Open, TablesInv, RequestsOK, RequestRecord
  <2>6. ASSUME NEW v \in members, WorkedOut(v) PROVE Progress(r, v)'
    <3>1. WorkedOut(v)'
      BY <2>3, <2>6, StillWorkedOut
    <3> QED
      BY <2>5, <3>1 DEF Progress
  <2> QED
    BY <2>2, <2>3, <2>4, <2>6, RolesOpen
<1>2. ASSUME NEW g \in Groups, NEW u \in Users, Leave(r, g, u)
      PROVE  RolesInv'
  <2>1. PICK new : new = [Idle EXCEPT !.stage = "reading roles", !.affected = {u}]
    OBVIOUS
  <2>2. new \in RequestRecord /\ new.stage = "reading roles" /\ new.affected = {u}
    BY <2>1, IdleIsOK DEF RequestRecord, Idle
  <2>3. /\ UNCHANGED <<members, role, base, group, grants>>
        /\ inGroup' = inGroup \ {<<g, u>>} /\ OpenChange(r, {u}, new)
    BY <1>2, <2>1 DEF Leave, memberRows
  <2>4. ASSUME NEW v \in members, v # u PROVE Untouched(v)
    <3>1. \A h \in Groups : <<h, v>> \in inGroup' <=> <<h, v>> \in inGroup
      BY <2>3, <2>4
    <3>2. GroupRoles(v)' = GroupRoles(v)
      BY <2>3, <3>1, SameGroups
    <3> QED
      BY <2>3, <3>1, <3>2 DEF Untouched
  <2>5. req'[r].stage = "reading roles" /\ req'[r].affected = {u}
    BY <2>2, <2>3 DEF OpenChange, Open, TablesInv, RequestsOK, RequestRecord
  <2>6. Progress(r, u)'
    BY <2>5 DEF Progress
  <2> QED
    BY <2>2, <2>3, <2>4, <2>6, RolesOpen
<1>c. ASSUME NEW whom, Apply(r, whom), UNCHANGED <<members, role, base, crossed>>,
             req[r].touches # {},
             \A v \in members \ crossed : Untouched(v) \/ v \in req[r].touches,
             \A v \in members \ crossed :
               v \in req[r].touches => v \in whom \/ WorkedOut(v)'
      PROVE  RolesInv'
  <2>1. PICK new : new = [Idle EXCEPT !.stage = "reading roles", !.affected = whom,
                                      !.touches = req[r].touches]
    OBVIOUS
  <2>2. /\ req' = [req EXCEPT ![r] = new] /\ req'[r] = new
        /\ new.stage = "reading roles" /\ new.affected = whom
        /\ new.touches = req[r].touches
    BY <1>c, <2>1 DEF Apply, TablesInv, RequestsOK, Idle
  <2>3. ASSUME NEW v \in members \ crossed, v \in req[r].touches PROVE Progress(r, v)'
    <3>1. v \in whom \/ WorkedOut(v)'
      BY <1>c, <2>3
    <3> QED
      BY <2>2, <3>1 DEF Progress
  <2>4. \A v \in members' \ crossed' :
          /\ Untouched(v) \/ v \in req[r].touches \cup new.touches
          /\ v \in new.touches => Progress(r, v)'
          /\ v \in req[r].touches \ new.touches => WorkedOut(v)'
    BY <1>c, <2>2, <2>3
  <2> QED
    BY <1>c, <2>2, <2>4, RolesMove
<1>3. CASE Join(r)
  <2>1. PICK u : u = req[r].user
    OBVIOUS
  <2>2. /\ UNCHANGED <<members, role, base, group, grants, crossed>>
        /\ inGroup' = inGroup \cup {<<req[r].group, u>>}
        /\ Apply(r, {u}) /\ req[r].touches = {u}
    BY <1>0, <1>3, <2>1 DEF Join, memberRows, RequestOK
  <2>3. ASSUME NEW v \in members, v # u PROVE Untouched(v)
    <3>1. \A h \in Groups : <<h, v>> \in inGroup' <=> <<h, v>> \in inGroup
      BY <2>2, <2>3
    <3>2. GroupRoles(v)' = GroupRoles(v)
      BY <2>2, <3>1, SameGroups
    <3> QED
      BY <2>2, <3>1, <3>2 DEF Untouched
  <2> QED
    BY <1>c, <2>2, <2>3
<1>4. ASSUME NEW g \in Groups, NEW wanted \in Grants, EditGroup(r, g, wanted)
      PROVE  RolesInv'
  <2>1. PICK new : new = [Idle EXCEPT !.stage = "reading people", !.group = g]
    OBVIOUS
  <2>2. new \in RequestRecord /\ new.stage = "reading people" /\ new.group = g
    BY <2>1, IdleIsOK DEF RequestRecord, Idle
  <2>3. /\ UNCHANGED <<members, role, base, group, inGroup>>
        /\ grants' = [grants EXCEPT ![g] = wanted] /\ OpenChange(r, Users, new)
    BY <1>4, <2>1 DEF EditGroup, memberRows
  <2>4. members \subseteq Users
    BY DEF TablesInv, PeopleOK
  <2>5. req'[r].stage = "reading people" /\ req'[r].group = g
    BY <2>2, <2>3 DEF OpenChange, Open, TablesInv, RequestsOK, RequestRecord
  <2>6. ASSUME NEW v \in members, WorkedOut(v) PROVE Progress(r, v)'
    <3>1. CASE <<g, v>> \in inGroup
      <4>1. v \in MembersOfGroup(g)'
        BY <2>3, <2>4, <3>1 DEF MembersOfGroup
      <4>2. MembersOfGroup(g)' = MembersOfGroup(req[r].group)'
        BY <2>5 DEF MembersOfGroup
      <4> QED
        BY <2>5, <4>1, <4>2 DEF Progress
    <3>2. CASE <<g, v>> \notin inGroup
      <4>1. \A h \in Groups : <<h, v>> \in inGroup => grants'[h] = grants[h]
        BY <2>3, <3>2 DEF TablesInv, GroupsOK
      <4>2. GroupRoles(v)' = GroupRoles(v)
        BY <2>3, <4>1, SameGroups
      <4>3. Untouched(v)
        BY <2>3, <4>2 DEF Untouched
      <4>4. WorkedOut(v)'
        BY <2>6, <4>3, StillWorkedOut
      <4> QED
        BY <2>5, <4>4 DEF Progress
    <3> QED
      BY <3>1, <3>2
  <2> QED
    BY <2>2, <2>3, <2>4, <2>6, RolesOpen
<1>5. CASE ReadPeople(r)
  <2>1. /\ UNCHANGED <<members, role, base, group, grants, inGroup, crossed>>
        /\ Apply(r, MembersOfGroup(req[r].group)) /\ req[r].stage = "reading people"
        /\ req[r].touches = Users
    BY <1>0, <1>5 DEF ReadPeople, memberRows, groupRows, RequestOK
  <2>2. \A v \in members : Untouched(v)
    BY <2>1, AllUntouched
  <2>3. \A v \in members \ crossed : v \in req[r].touches =>
          v \in MembersOfGroup(req[r].group) \/ WorkedOut(v)'
    BY <1>a, <2>1, <2>2, StillWorkedOut DEF Progress
  <2>4. Users # {}
    BY PolicyAssumption
  <2> QED
    BY <1>c, <2>1, <2>2, <2>3, <2>4
<1>6. ASSUME NEW g \in Groups, AskToDeleteGroup(r, g) PROVE RolesInv'
  <2>0. PICK whom \in SUBSET Users : whom = MembersOfGroup(g)
    BY DEF MembersOfGroup
  <2>1. PICK new : new = [Idle EXCEPT !.stage = "dropping", !.group = g,
                                      !.affected = whom]
    OBVIOUS
  <2>2. /\ new \in RequestRecord /\ new.stage = "dropping" /\ new.group = g
        /\ new.affected = whom
    BY <2>1, IdleIsOK DEF RequestRecord, Idle
  <2>3. /\ UNCHANGED <<members, role, base, group, grants, inGroup>>
        /\ OpenChange(r, Users, new)
    BY <1>6, <2>0, <2>1 DEF AskToDeleteGroup, memberRows, groupRows
  <2>4. \A v \in members : Untouched(v)
    BY <2>3, AllUntouched
  <2>5. req'[r].stage = "dropping" /\ req'[r].group = g /\ req'[r].affected = whom
    BY <2>2, <2>3 DEF OpenChange, Open, TablesInv, RequestsOK, RequestRecord
  <2>6. MembersOfGroup(req[r].group)' = whom
    BY <2>0, <2>3, <2>5 DEF MembersOfGroup
  <2>7. ASSUME NEW v \in members, WorkedOut(v) PROVE Progress(r, v)'
    <3>1. WorkedOut(v)'
      BY <2>4, <2>7, StillWorkedOut
    <3> QED
      BY <2>5, <2>6, <3>1 DEF Progress
  <2> QED
    BY <2>2, <2>3, <2>4, <2>7, RolesOpen
<1>7. CASE DeleteGroup(r)
  <2>1. PICK new : new = [req[r] EXCEPT !.stage = "emptying"]
    OBVIOUS
  <2>2. /\ req' = [req EXCEPT ![r] = new] /\ req'[r] = new
        /\ new.stage = "emptying" /\ new.touches = req[r].touches
        /\ new.affected = req[r].affected /\ new.group = req[r].group
    BY <1>0, <1>7, <2>1 DEF DeleteGroup, Goto, TablesInv, RequestsOK, RequestRecord
  <2>3. PICK g : g = req[r].group
    OBVIOUS
  <2>4. /\ UNCHANGED <<members, role, base, grants, inGroup, crossed>>
        /\ group' = [group EXCEPT ![g] = "gone"] /\ g \in There
        /\ req[r].touches = Users /\ req[r].stage = "dropping"
    BY <1>0, <1>7, <2>3 DEF DeleteGroup, memberRows, RequestOK
  <2>5. members \subseteq Users
    BY DEF TablesInv, PeopleOK
  <2>6. MembersOfGroup(req[r].group)' = MembersOfGroup(req[r].group)
    BY <2>2, <2>4 DEF MembersOfGroup
  <2>7. ASSUME NEW v \in members \ crossed PROVE Progress(r, v)'
    <3>1. Progress(r, v)
      BY <1>a, <2>4, <2>5
    <3>2. v \in MembersOfGroup(g) => v \in req[r].affected
      BY <2>3, <2>4, <3>1 DEF Progress
    <3>3. ASSUME v \notin MembersOfGroup(g) PROVE WorkedOut(v)'
      <4>1. <<g, v>> \notin inGroup
        BY <2>5, <3>3 DEF MembersOfGroup
      <4>2. \A h \in Groups : <<h, v>> \in inGroup => group'[h] = group[h]
        BY <2>4, <4>1 DEF TablesInv, GroupsOK
      <4>3. GroupRoles(v)' = GroupRoles(v)
        BY <2>4, <4>2, SameGroups
      <4>4. Untouched(v) /\ WorkedOut(v)
        BY <2>4, <3>1, <4>3 DEF Untouched, Progress
      <4> QED
        BY <4>4, StillWorkedOut
    <3>4. v \in req'[r].affected \/ WorkedOut(v)'
      BY <2>2, <3>2, <3>3
    <3>5. v \in MembersOfGroup(req[r].group)' => v \in req'[r].affected
      BY <2>2, <2>3, <2>6, <3>2
    <3> QED
      BY <2>2, <3>4, <3>5 DEF Progress
  <2>8. \A v \in members' \ crossed' :
          /\ Untouched(v) \/ v \in req[r].touches \cup new.touches
          /\ v \in new.touches => Progress(r, v)'
          /\ v \in req[r].touches \ new.touches => WorkedOut(v)'
    BY <2>2, <2>4, <2>5, <2>7
  <2> QED
    BY <2>2, <2>4, <2>8, RolesMove
<1>8. CASE DeleteRows(r)
  <2>1. PICK g : g = req[r].group
    OBVIOUS
  <2>2. /\ UNCHANGED <<members, role, base, group, grants, crossed>>
        /\ inGroup' = {row \in inGroup : row[1] # g} /\ Apply(r, req[r].affected)
        /\ req[r].touches = Users /\ req[r].stage = "emptying"
    BY <1>0, <1>8, <2>1 DEF DeleteRows, memberRows, RequestOK
  <2>3. members \subseteq Users /\ Users # {}
    BY PolicyAssumption DEF TablesInv, PeopleOK
  <2>4. ASSUME NEW v \in members \ crossed, v \notin req[r].affected
        PROVE  WorkedOut(v)'
    <3>1. Progress(r, v)
      BY <1>a, <2>2, <2>3
    <3>2. WorkedOut(v) /\ v \notin MembersOfGroup(g)
      BY <2>1, <2>2, <2>4, <3>1 DEF Progress
    <3>3. <<g, v>> \notin inGroup
      BY <2>3, <3>2 DEF MembersOfGroup
    <3>4. \A h \in Groups : <<h, v>> \in inGroup' <=> <<h, v>> \in inGroup
      BY <2>2, <3>3
    <3>5. GroupRoles(v)' = GroupRoles(v)
      BY <2>2, <3>4, SameGroups
    <3>6. Untouched(v)
      BY <2>2, <3>4, <3>5 DEF Untouched
    <3> QED
      BY <3>2, <3>6, StillWorkedOut
  <2> QED
    BY <1>c, <2>2, <2>3, <2>4
<1> QED
  BY <1>1, <1>2, <1>3, <1>4, <1>5, <1>6, <1>7, <1>8 DEF ChangeGroups

LEMMA InviteSomebodyRoles ==
  ASSUME TablesInv, RolesInv, NEW r \in Requests, InviteSomebody(r)
  PROVE  RolesInv'
<1>0. req[r] \in RequestRecord /\ RequestOK(req[r], Made, joined)
  BY DEF TablesInv, RequestsOK
<1>1. /\ req[r].stage \in {"idle", "inviting", "found", "linking", "accepting"}
      /\ UNCHANGED <<base, group, grants, inGroup, crossed>>
  BY <1>0 DEF InviteSomebody, Invite, FindInvitation, CreateInvitation, FollowLink, MakeLink,
              AcceptInvitation, Open, memberRows, groupRows
<1>2. req[r].touches = {}
  BY <1>1 DEF RolesInv, OnlyChangesTouch
<1>3. PICK new : new.touches = {} /\ req' = [req EXCEPT ![r] = new]
  <2>1. CASE \E u, by \in Users : Invite(r, u, by)
    BY <2>1 DEF Invite, Open, Idle
  <2>2. CASE FindInvitation(r)
    <3>1. PICK i : req' = [req EXCEPT ![r].stage = "found", ![r].invitation = i]
      BY <2>2 DEF FindInvitation
    <3>2. PICK new : new = [req[r] EXCEPT !.stage = "found", !.invitation = i]
      OBVIOUS
    <3>3. new.touches = {} /\ req' = [req EXCEPT ![r] = new]
      BY <1>0, <1>2, <3>1, <3>2 DEF TablesInv, RequestsOK, RequestRecord
    <3> QED
      BY <3>3
  <2>3. ASSUME NEW i \in Invitations, CreateInvitation(r, i)
        PROVE  \E one : one.touches = {} /\ req' = [req EXCEPT ![r] = one]
    <3>1. PICK new : new = [req[r] EXCEPT !.stage = "linking", !.invitation = i,
                                     !.by = Nobody]
      OBVIOUS
    <3>2. new.touches = {} /\ req' = [req EXCEPT ![r] = new]
      BY <1>0, <1>2, <2>3, <3>1
      DEF CreateInvitation, TablesInv, RequestsOK, RequestRecord
    <3> QED
      BY <3>2
  <2>4. CASE \E i \in Invitations : FollowLink(r, i)
    BY <2>4 DEF FollowLink, Open, Idle
  <2>5. CASE MakeLink(r)
    BY <2>5 DEF MakeLink, Close, Idle
  <2>6. CASE \E own \in Roles : AcceptInvitation(r, own)
    BY <2>6 DEF AcceptInvitation, Close, Idle
  <2> QED
    BY <2>1, <2>2, <2>3, <2>4, <2>5, <2>6 DEF InviteSomebody
<1>4. CASE \A own \in Roles : ~AcceptInvitation(r, own)
  <2>1. UNCHANGED <<members, role>>
    BY <1>4 DEF InviteSomebody, Invite, FindInvitation, CreateInvitation, FollowLink,
                MakeLink, memberRows
  <2> QED
    BY <1>1, <1>2, <1>3, <2>1, AllUntouched, RolesAside
<1>5. ASSUME NEW own \in Roles, AcceptInvitation(r, own) PROVE RolesInv'
  <2>1. PICK u \in Users : u = req[r].user
    BY <1>0, <1>5 DEF AcceptInvitation, RequestOK
  <2>2. /\ members' = members \cup {u} /\ role' = [role EXCEPT ![u] = {own}]
        /\ u \notin joined
    BY <1>5, <2>1 DEF AcceptInvitation
  <2>3. /\ req'[r].touches = {} /\ \A q \in Requests \ {r} : req'[q] = req[q]
    BY <1>3 DEF TablesInv, RequestsOK
  <2>4. OverlapsAreCrossed'
    BY <1>1, <2>3, OverlapsStep
  <2>5. OnlyChangesTouch'
    BY <2>3 DEF RolesInv, OnlyChangesTouch
  <2>6. \A v : GroupRoles(v)' = GroupRoles(v)
    BY <1>1, SameGroups
  <2>7. ASSUME NEW v \in members
        PROVE  Untouched(v)
    <3>1. role'[v] = role[v]
      BY <2>2, <2>7 DEF TablesInv, PeopleOK
    <3> QED
      BY <1>1, <2>6, <3>1 DEF Untouched
  <2>8. ASSUME NEW v \in members \ crossed
        PROVE  /\ \A q \in Requests : v \in req'[q].touches => Progress(q, v)'
               /\ (\A q \in Requests : v \notin req'[q].touches) => WorkedOut(v)'
    BY <1>1, <1>2, <2>3, <2>4, <2>7, <2>8, OnePerson
  <2>9. /\ \A g : <<g, u>> \notin inGroup
        /\ base'[u] = Unset /\ GroupRoles(u) = {}
    <3>1. \A g : <<g, u>> \notin inGroup
      BY <2>2 DEF TablesInv, GroupsOK
    <3>2. GroupRoles(u) = {}
      BY <3>1 DEF GroupRoles
    <3>3. base'[u] = Unset
      BY <1>1, <2>2 DEF TablesInv, PeopleOK
    <3> QED
      BY <3>1, <3>2, <3>3
  <2>10. WorkedOut(u)'
    BY <2>6, <2>9 DEF WorkedOut
  <2>11. ASSUME NEW q \in Requests, u \in req'[q].touches PROVE Progress(q, u)'
    <3>1. req'[q] = req[q]
      BY <2>3, <2>11
    <3>2. ~(req[q].stage = "writing" /\ req[q].user = u)
      BY <2>2 DEF TablesInv, RequestsOK, RequestOK
    <3>3. u \notin MembersOfGroup(req[q].group)'
      BY <1>1, <2>9 DEF MembersOfGroup
    <3> QED
      BY <2>10, <3>1, <3>2, <3>3 DEF Progress
  <2>12. WorkedOutOrUnderWay'
    BY <1>1, <2>2, <2>8, <2>10, <2>11 DEF WorkedOutOrUnderWay
  <2> QED
    BY <2>4, <2>5, <2>12 DEF RolesInv
<1> QED
  BY <1>4, <1>5

(* Nothing is under way that was not, and nobody is touched. *)
LEMMA RolesStand ==
  ASSUME TablesInv, RolesInv, UNCHANGED <<members, req, crossed>>,
         \A u \in members : Untouched(u)
  PROVE  RolesInv'
<1>1. OverlapsAreCrossed' /\ OnlyChangesTouch'
  BY DEF RolesInv, OverlapsAreCrossed, OnlyChangesTouch
<1>2. ASSUME NEW u \in members \ crossed
      PROVE  /\ \A q \in Requests : u \in req'[q].touches => Progress(q, u)'
             /\ (\A q \in Requests : u \notin req'[q].touches) => WorkedOut(u)'
  <2>1. u \in Users /\ Untouched(u)
    BY DEF TablesInv, PeopleOK
  <2>2. ASSUME NEW q \in Requests, u \in req'[q].touches PROVE Progress(q, u)'
    <3>1. Progress(q, u)
      BY <2>2 DEF RolesInv, WorkedOutOrUnderWay
    <3> QED
      BY <2>1, <3>1, StillInProgress
  <2>3. ASSUME \A q \in Requests : u \notin req'[q].touches PROVE WorkedOut(u)'
    <3>1. WorkedOut(u)
      BY <2>3 DEF RolesInv, WorkedOutOrUnderWay
    <3> QED
      BY <2>1, <3>1, StillWorkedOut
  <2> QED
    BY <2>2, <2>3
<1>3. WorkedOutOrUnderWay'
  BY <1>2 DEF WorkedOutOrUnderWay
<1> QED
  BY <1>1, <1>3 DEF RolesInv

LEMMA OtherRoles ==
  ASSUME TablesInv, RolesInv,
         \/ \E r \in Requests : GiveUp(r)
         \/ \E u \in Users : RestorePerson(u)
         \/ \E g \in Groups, wanted \in Grants : CreateGroup(g, wanted)
         \/ \E i \in Invitations : CancelInvitation(i) \/ Lapse(i)
         \/ UNCHANGED vars
  PROVE  RolesInv'
<1>1. ASSUME NEW r \in Requests, GiveUp(r) PROVE RolesInv'
  <2>1. /\ UNCHANGED <<members, role, base, group, grants, inGroup>>
        /\ crossed' = crossed \cup req[r].touches /\ req' = [req EXCEPT ![r] = Idle]
    BY <1>1 DEF GiveUp, Close, memberRows, groupRows
  <2>2. Idle.touches = {}
    BY DEF Idle
  <2>3. \A v \in members' \ crossed' :
          /\ Untouched(v) \/ v \in req[r].touches \cup Idle.touches
          /\ v \in Idle.touches => Progress(r, v)'
          /\ v \in req[r].touches \ Idle.touches => WorkedOut(v)'
    BY <2>1, <2>2, AllUntouched
  <2> QED
    BY <2>1, <2>2, <2>3, RolesMove
<1>2. ASSUME NEW g \in Groups, NEW wanted \in Grants, CreateGroup(g, wanted)
      PROVE  RolesInv'
  <2>1. /\ UNCHANGED <<members, role, base, inGroup, req, crossed>>
        /\ group[g] = "none" /\ group' = [group EXCEPT ![g] = "there"]
        /\ grants' = [grants EXCEPT ![g] = wanted]
    BY <1>2 DEF CreateGroup, memberRows
  <2>2. ASSUME NEW u \in members PROVE Untouched(u)
    <3>1. <<g, u>> \notin inGroup
      BY <2>1 DEF TablesInv, GroupsOK, Made
    <3>2. \A h \in Groups : <<h, u>> \in inGroup =>
            grants'[h] = grants[h] /\ group'[h] = group[h]
      BY <2>1, <3>1 DEF TablesInv, GroupsOK
    <3>3. GroupRoles(u)' = GroupRoles(u)
      BY <2>1, <3>2, SameGroups
    <3> QED
      BY <2>1, <3>3 DEF Untouched
  <2> QED
    BY <2>1, <2>2, RolesStand
<1>3. ASSUME \/ \E u \in Users : RestorePerson(u)
             \/ \E i \in Invitations : CancelInvitation(i) \/ Lapse(i)
             \/ UNCHANGED vars
      PROVE  RolesInv'
  <2>1. UNCHANGED <<members, role, base, group, grants, inGroup, req, crossed>>
    BY <1>3 DEF RestorePerson, CancelInvitation, Lapse, memberRows, groupRows, vars
  <2> QED
    BY <2>1, AllUntouched, RolesStand
<1> QED
  BY <1>1, <1>2, <1>3

LEMMA RolesInit == Init => RolesInv
<1> SUFFICES ASSUME Init PROVE RolesInv
  OBVIOUS
<1>1. \A r \in Requests : req[r].touches = {}
  BY DEF Init, Idle
<1>2. \A u \in members : base[u] = Unset /\ GroupRoles(u) = {}
  BY PolicyAssumption DEF Init, GroupRoles
<1> QED
  BY <1>1, <1>2
  DEF RolesInv, OverlapsAreCrossed, OnlyChangesTouch, WorkedOutOrUnderWay, WorkedOut

LEMMA RolesStep == TablesInv /\ RolesInv /\ [Next]_vars => RolesInv'
BY ChangeRolesRoles, ApplyRolesRoles, ChangePeopleRoles, ChangeGroupsRoles,
   InviteSomebodyRoles, OtherRoles DEF Next

LEMMA WorkedOutAtRest == RolesInv => RolesAreWorkedOut
BY DEF RolesInv, WorkedOutOrUnderWay, WorkedOut, RolesAreWorkedOut

(* What a person holds is their own role and what their groups grant, whatever
   else was under way for other people: the recomputation of groups.ts and
   roles.ts reaches everybody a change of groups reaches. *)
THEOREM RolesComeFromGroups == Spec => []RolesAreWorkedOut
<1>1. RolesInv /\ [](TablesInv) /\ [][Next]_vars => []RolesInv
  BY RolesStep, PTL
<1> QED
  BY <1>1, RolesInit, Tables, WorkedOutAtRest, PTL DEF Spec

-----------------------------------------------------------------------------
(* Only inviting somebody looks for an invitation or makes a link. *)
LEMMA AsideFromLinks ==
  ASSUME TablesInv, NEW r \in Requests,
         ChangeRoles(r) \/ ApplyRoles(r) \/ ChangePeople(r) \/ ChangeGroups(r) \/ GiveUp(r)
  PROVE  /\ \A q \in Requests :
              req'[q] = req[q] \/ req'[q].stage \notin {"inviting", "found", "linking"}
         /\ UNCHANGED <<invited, linked, withdrawn, invitee>>
<1>0. req \in [Requests -> RequestRecord] /\ req[r] \in RequestRecord
  BY DEF TablesInv, RequestsOK
<1>1. \A q \in Requests \ {r} : req'[q] = req[q]
  <2>1. CASE ChangeRoles(r)
    BY <1>0, <2>1 DEF ChangeRoles, AskForRole, UpdateMemberRole, RecordOwnRole, OpenChange,
                      Open, Goto, Apply
  <2>2. CASE ApplyRoles(r)
    BY <1>0, <2>2 DEF ApplyRoles, ReadRole, ReadGroups, WriteRoles, RolesApplied, Close
  <2>3. CASE ChangePeople(r)
    BY <1>0, <2>3 DEF ChangePeople, AskToRemove, AskToSuspend, Remove, Suspend, Open, Close
  <2>4. CASE ChangeGroups(r)
    BY <1>0, <2>4 DEF ChangeGroups, AskToJoin, Leave, Join, EditGroup, ReadPeople,
                      AskToDeleteGroup, DeleteGroup, DeleteRows, OpenChange, Open, Goto,
                      Apply
  <2>5. CASE GiveUp(r)
    BY <1>0, <2>5 DEF GiveUp, Close
  <2> QED
    BY <2>1, <2>2, <2>3, <2>4, <2>5
<1>2. req'[r].stage \notin {"inviting", "found", "linking"}
  <2>1. CASE ChangeRoles(r)
    <3>1. CASE UpdateMemberRole(r)
      BY <1>0, <3>1 DEF UpdateMemberRole, Goto, RequestRecord
    <3>2. ASSUME NEW u \in Users, NEW own \in Roles, AskForRole(r, u, own)
          PROVE  req'[r].stage = "role"
      BY <1>0, <3>2 DEF AskForRole, OpenChange, Open, Idle
    <3>3. CASE RecordOwnRole(r)
      BY <1>0, <3>3 DEF RecordOwnRole, Apply, Idle
    <3> QED
      BY <2>1, <3>1, <3>2, <3>3 DEF ChangeRoles
  <2>2. CASE ApplyRoles(r)
    <3>1. ASSUME NEW u \in Users, ReadRole(r, u)
          PROVE  req'[r].stage \in {"reading groups", "reading roles"}
      <4>1. PICK own : own = IF base[u] # Unset THEN base[u]
                             ELSE CHOOSE one \in role[u] : TRUE
        OBVIOUS
      <4>2. CASE u \in members
        <5>1. PICK new : new = [req[r] EXCEPT !.stage = "reading groups", !.user = u,
                                              !.base = own]
          OBVIOUS
        <5>2. req' = [req EXCEPT ![r] = new]
          BY <1>0, <3>1, <4>1, <4>2, <5>1 DEF ReadRole
        <5>3. new.stage = "reading groups"
          BY <1>0, <5>1 DEF RequestRecord
        <5> QED
          BY <1>0, <5>2, <5>3
      <4>3. CASE u \notin members
        BY <1>0, <3>1, <4>3 DEF ReadRole, RequestRecord
      <4> QED
        BY <4>2, <4>3
    <3>2. CASE ReadGroups(r)
      BY <1>0, <3>2 DEF ReadGroups, RequestRecord
    <3>3. CASE WriteRoles(r)
      BY <1>0, <3>3 DEF WriteRoles, RequestRecord
    <3>4. CASE RolesApplied(r)
      BY <1>0, <3>4 DEF RolesApplied, Close, Idle
    <3> QED
      BY <2>2, <3>1, <3>2, <3>3, <3>4 DEF ApplyRoles
  <2>3. CASE ChangePeople(r)
    <3>1. ASSUME NEW u \in Users, AskToRemove(r, u) \/ AskToSuspend(r, u)
          PROVE  req'[r].stage \in {"removing", "suspending"}
      BY <1>0, <3>1 DEF AskToRemove, AskToSuspend, Open, Idle
    <3>2. CASE Remove(r) \/ Suspend(r)
      BY <1>0, <3>2 DEF Remove, Suspend, Close, Idle
    <3> QED
      BY <2>3, <3>1, <3>2 DEF ChangePeople
  <2>4. CASE ChangeGroups(r)
    <3>1. ASSUME NEW g \in Groups, NEW u \in Users, AskToJoin(r, g, u) \/ Leave(r, g, u)
          PROVE  req'[r].stage \in {"joining", "reading roles"}
      BY <1>0, <3>1 DEF AskToJoin, Leave, OpenChange, Open, Idle
    <3>2. ASSUME NEW g \in Groups, NEW wanted \in Grants,
                 EditGroup(r, g, wanted)
          PROVE  req'[r].stage = "reading people"
      BY <1>0, <3>2 DEF EditGroup, OpenChange, Open, Idle
    <3>3. ASSUME NEW g \in Groups, AskToDeleteGroup(r, g)
          PROVE  req'[r].stage = "dropping"
      BY <1>0, <3>3 DEF AskToDeleteGroup, OpenChange, Open, Idle
    <3>4. CASE Join(r) \/ ReadPeople(r) \/ DeleteRows(r)
      BY <1>0, <3>4 DEF Join, ReadPeople, DeleteRows, Apply, Idle
    <3>5. CASE DeleteGroup(r)
      BY <1>0, <3>5 DEF DeleteGroup, Goto, RequestRecord
    <3> QED
      BY <2>4, <3>1, <3>2, <3>3, <3>4, <3>5 DEF ChangeGroups
  <2>5. CASE GiveUp(r)
    BY <1>0, <2>5 DEF GiveUp, Close, Idle
  <2> QED
    BY <2>1, <2>2, <2>3, <2>4, <2>5
<1>3. UNCHANGED <<invited, linked, withdrawn, invitee>>
  <2>1. CASE ChangeRoles(r)
    BY <2>1 DEF ChangeRoles, AskForRole, UpdateMemberRole, RecordOwnRole, invitationRows
  <2>2. CASE ApplyRoles(r)
    BY <2>2 DEF ApplyRoles, ReadRole, ReadGroups, WriteRoles, RolesApplied, invitationRows
  <2>3. CASE ChangePeople(r)
    BY <2>3 DEF ChangePeople, AskToRemove, AskToSuspend, Remove, Suspend, invitationRows
  <2>4. CASE ChangeGroups(r)
    BY <2>4 DEF ChangeGroups, AskToJoin, Leave, Join, EditGroup, ReadPeople,
                AskToDeleteGroup, DeleteGroup, DeleteRows, invitationRows
  <2>5. CASE GiveUp(r)
    BY <2>5 DEF GiveUp, invitationRows
  <2> QED
    BY <2>1, <2>2, <2>3, <2>4, <2>5
<1> QED
  BY <1>1, <1>2, <1>3

LEMMA LinksKept ==
  ASSUME LinkInv, UNCHANGED <<invited, linked, withdrawn, invitee>>,
         \A q \in Requests :
           req'[q] = req[q] \/ req'[q].stage \notin {"inviting", "found", "linking"}
  PROVE  LinkInv'
BY DEF LinkInv, Linking, CanceledForANewer

(* A link is made for one invitation and takes the others of the same person
   back: the newest one is there in their place. *)
LEMMA InviteSomebodyLinks ==
  ASSUME TablesInv, LinkInv, NEW r \in Requests, InviteSomebody(r)
  PROVE  LinkInv'
<1>0. /\ req \in [Requests -> RequestRecord] /\ req[r] \in RequestRecord
      /\ RequestOK(req[r], Made, joined)
  BY DEF TablesInv, RequestsOK
<1>1. ASSUME NEW u \in Users, NEW by \in Users, Invite(r, u, by) PROVE LinkInv'
  <2>1. /\ UNCHANGED <<invited, linked, withdrawn, invitee>>
        /\ \A q \in Requests \ {r} : req'[q] = req[q]
        /\ req'[r].stage = "inviting" /\ req'[r].user = u
    BY <1>0, <1>1 DEF Invite, invitationRows, Open, Idle
  <2>2. \A q \in Requests : Linking(q) => req[q].user # u
    BY <1>1 DEF Invite, Linking
  <2>3. \A p, q \in Requests :
          Linking(p)' /\ Linking(q)' /\ p # q => req'[p].user # req'[q].user
    BY <2>1, <2>2 DEF Linking, LinkInv
  <2> QED
    BY <2>1, <2>3 DEF LinkInv, CanceledForANewer
<1>2. CASE FindInvitation(r)
  <2>1. PICK i : /\ req' = [req EXCEPT ![r].stage = "found", ![r].invitation = i]
                 /\ i # Nobody => /\ i \in Invitations /\ invited[i] = "pending"
                                  /\ invitee[i] = req[r].user
    BY <1>2 DEF FindInvitation, PendingFor
  <2>2. /\ UNCHANGED <<invited, linked, withdrawn, invitee>>
        /\ \A q \in Requests \ {r} : req'[q] = req[q]
        /\ req'[r].stage = "found" /\ req'[r].user = req[r].user
        /\ req'[r].invitation = i /\ Linking(r)
    BY <1>0, <1>2, <2>1 DEF FindInvitation, invitationRows, RequestRecord, Linking
  <2>3. \A p, q \in Requests :
          Linking(p)' /\ Linking(q)' /\ p # q => req'[p].user # req'[q].user
    BY <2>2 DEF Linking, LinkInv
  <2>4. ASSUME NEW q \in Requests, req'[q].stage \in {"found", "linking"},
               req'[q].invitation # Nobody
        PROVE  /\ invitee[req'[q].invitation] = req'[q].user
               /\ invited[req'[q].invitation] # "none"
               /\ invited[req'[q].invitation] = "canceled" =>
                    req'[q].invitation \in withdrawn
    <3>1. CASE q = r
      BY <2>1, <2>2, <2>4, <3>1
    <3>2. CASE q # r
      BY <2>2, <2>4, <3>2 DEF LinkInv
    <3> QED
      BY <3>1, <3>2
  <2> QED
    BY <2>2, <2>3, <2>4 DEF LinkInv, CanceledForANewer
<1>3. ASSUME NEW i \in Invitations, CreateInvitation(r, i) PROVE LinkInv'
  <2>1. /\ UNCHANGED <<linked, withdrawn>>
        /\ \A q \in Requests \ {r} : req'[q] = req[q]
        /\ req'[r].stage = "linking" /\ req'[r].user = req[r].user
        /\ req'[r].invitation = i /\ req[r].stage = "found" /\ req[r].user \in Users
    BY <1>0, <1>3 DEF CreateInvitation, RequestRecord, RequestOK
  <2>2. Linking(r)
    BY <2>1 DEF Linking
  <2>3. \A p, q \in Requests :
          Linking(p)' /\ Linking(q)' /\ p # q => req'[p].user # req'[q].user
    BY <2>1, <2>2 DEF Linking, LinkInv
  <2>4. \/ /\ req[r].invitation = Nobody /\ invited[i] = "none"
           /\ invited' = [invited EXCEPT ![i] = "pending"]
           /\ invitee' = [invitee EXCEPT ![i] = req[r].user]
        \/ req[r].invitation = i /\ UNCHANGED <<invited, invitee>> /\ i # Nobody
    BY <1>3, PolicyAssumption DEF CreateInvitation
  <2>5. /\ \A j \in Invitations : invited[j] # "none" =>
             invited'[j] = invited[j] /\ invitee'[j] = invitee[j]
        /\ invitee'[i] = req[r].user /\ invited'[i] # "none"
        /\ invited'[i] = "canceled" => i \in withdrawn
    BY <2>1, <2>4 DEF LinkInv, TablesInv, InvitationsOK
  <2>6. linked \subseteq Invitations
    BY DEF TablesInv, InvitationsOK
  <2>7. ASSUME NEW q \in Requests, req'[q].stage \in {"found", "linking"},
               req'[q].invitation # Nobody
        PROVE  /\ invitee'[req'[q].invitation] = req'[q].user
               /\ invited'[req'[q].invitation] # "none"
               /\ invited'[req'[q].invitation] = "canceled" =>
                    req'[q].invitation \in withdrawn'
    <3>1. CASE q = r
      BY <2>1, <2>5, <3>1
    <3>2. CASE q # r
      <4>1. PICK j : j = req[q].invitation
        OBVIOUS
      <4>2. /\ j \in Invitations /\ req'[q] = req[q] /\ invited[j] # "none"
            /\ invitee[j] = req[q].user
            /\ invited[j] = "canceled" => j \in withdrawn
        BY <1>0, <2>1, <2>7, <3>2, <4>1 DEF LinkInv, RequestRecord
      <4> QED
        BY <2>1, <2>5, <4>1, <4>2
    <3> QED
      BY <3>1, <3>2
  <2>8. \A j \in linked' : invited'[j] # "none"
    BY <2>1, <2>5, <2>6 DEF LinkInv
  <2>9. CanceledForANewer'
    BY <2>1, <2>5, <2>6 DEF LinkInv, CanceledForANewer
  <2> QED
    BY <2>3, <2>7, <2>8, <2>9 DEF LinkInv
<1>4. ASSUME NEW i \in Invitations, FollowLink(r, i) PROVE LinkInv'
  <2>1. /\ UNCHANGED <<invited, linked, withdrawn, invitee>>
        /\ \A q \in Requests \ {r} : req'[q] = req[q]
        /\ req'[r].stage = "accepting"
    BY <1>0, <1>4 DEF FollowLink, invitationRows, Open, Idle
  <2> QED
    BY <2>1, LinksKept
<1>5. CASE MakeLink(r)
  <2>1. PICK k, u : k = req[r].invitation /\ u = req[r].user
    OBVIOUS
  <2>2. /\ k \in Invitations /\ u \in Users
        /\ invitee[k] = u /\ invited[k] # "none"
        /\ invited[k] = "canceled" => k \in withdrawn
    BY <1>0, <1>5, <2>1, PolicyAssumption DEF MakeLink, RequestOK, LinkInv
  <2>3. /\ linked' = linked \cup {k} /\ UNCHANGED <<withdrawn, invitee>>
        /\ \A j \in Invitations :
             invited'[j] = IF j \in PendingFor(u) \ {k} THEN "canceled" ELSE invited[j]
        /\ req' = [req EXCEPT ![r] = Idle]
    BY <1>5, <2>1 DEF MakeLink, Close
  <2>4. /\ \A q \in Requests \ {r} : req'[q] = req[q]
        /\ req'[r].stage = "idle" /\ Linking(r)
    BY <1>0, <1>5, <2>3 DEF Idle, MakeLink, Linking
  <2>5. \A p, q \in Requests :
          Linking(p)' /\ Linking(q)' /\ p # q => req'[p].user # req'[q].user
    BY <2>4 DEF Linking, LinkInv
  <2>6. ASSUME NEW q \in Requests, req'[q].stage \in {"found", "linking"},
               req'[q].invitation # Nobody
        PROVE  /\ invitee'[req'[q].invitation] = req'[q].user
               /\ invited'[req'[q].invitation] # "none"
               /\ invited'[req'[q].invitation] = "canceled" =>
                    req'[q].invitation \in withdrawn'
    <3>1. PICK j : j = req[q].invitation
      OBVIOUS
    <3>2. q # r /\ req'[q] = req[q] /\ Linking(q)
      BY <2>4, <2>6 DEF Linking
    <3>3. req[q].user # u
      BY <2>1, <2>4, <3>2 DEF LinkInv
    <3>4. /\ j \in Invitations /\ invited[j] # "none"
          /\ invitee[j] = req[q].user
          /\ invited[j] = "canceled" => j \in withdrawn
      BY <1>0, <2>6, <3>1, <3>2 DEF LinkInv, RequestRecord
    <3>5. invited'[j] = invited[j]
      BY <2>3, <3>3, <3>4 DEF PendingFor
    <3> QED
      BY <2>3, <3>1, <3>2, <3>4, <3>5
  <2>7. linked \subseteq Invitations
    BY DEF TablesInv, InvitationsOK
  <2>8. \A j \in linked' : invited'[j] # "none"
    BY <2>2, <2>3, <2>7 DEF LinkInv
  <2>9. ASSUME NEW i \in linked' \ withdrawn', invited'[i] = "canceled"
        PROVE  \E j \in linked' \ {i} :
                 /\ invitee'[j] = invitee'[i]
                 /\ invited'[j] # "canceled" \/ j \in withdrawn'
    <3>0. i \in Invitations
      BY <2>2, <2>3, <2>7
    <3>1. invited'[k] # "canceled" \/ k \in withdrawn
      BY <2>2, <2>3
    <3>2. i # k
      BY <2>3, <2>9, <3>1
    <3>3. CASE i \in PendingFor(u)
      BY <2>2, <2>3, <3>1, <3>2, <3>3 DEF PendingFor
    <3>4. CASE i \notin PendingFor(u)
      <4>1. invited[i] = "canceled" /\ i \in linked \ withdrawn
        BY <2>3, <2>9, <3>0, <3>2, <3>4
      <4>2. PICK j \in linked \ {i} :
              /\ invitee[j] = invitee[i]
              /\ invited[j] # "canceled" \/ j \in withdrawn
        BY <4>1 DEF LinkInv, CanceledForANewer
      <4>3. CASE j \in PendingFor(u) \ {k}
        <5>1. invitee[i] = u
          BY <4>2, <4>3 DEF PendingFor
        <5> QED
          BY <2>2, <2>3, <3>1, <3>2, <5>1
      <4>4. CASE j \notin PendingFor(u) \ {k}
        <5>1. invited'[j] = invited[j]
          BY <2>3, <2>7, <4>4
        <5> QED
          BY <2>3, <4>2, <5>1
      <4> QED
        BY <4>3, <4>4
    <3> QED
      BY <3>3, <3>4
  <2>10. CanceledForANewer'
    BY <2>9 DEF CanceledForANewer
  <2> QED
    BY <2>5, <2>6, <2>8, <2>10 DEF LinkInv
<1>6. ASSUME NEW own \in Roles, AcceptInvitation(r, own) PROVE LinkInv'
  <2>1. PICK i \in Invitations : i = req[r].invitation
    BY <1>0, <1>6 DEF AcceptInvitation, RequestOK
  <2>2. /\ UNCHANGED <<linked, withdrawn, invitee>>
        /\ invited' = [invited EXCEPT ![i] = "accepted"]
        /\ \A q \in Requests \ {r} : req'[q] = req[q]
        /\ req'[r].stage = "idle"
    BY <1>0, <1>6, <2>1 DEF AcceptInvitation, Close, Idle
  <2>3. \A j \in Invitations : invited'[j] = IF j = i THEN "accepted" ELSE invited[j]
    BY <2>2 DEF TablesInv, InvitationsOK
  <2>4. linked \subseteq Invitations
    BY DEF TablesInv, InvitationsOK
  <2>5. \A p, q \in Requests :
          Linking(p)' /\ Linking(q)' /\ p # q => req'[p].user # req'[q].user
    BY <2>2 DEF Linking, LinkInv
  <2>6. ASSUME NEW q \in Requests, req'[q].stage \in {"found", "linking"},
               req'[q].invitation # Nobody
        PROVE  /\ invitee'[req'[q].invitation] = req'[q].user
               /\ invited'[req'[q].invitation] # "none"
               /\ invited'[req'[q].invitation] = "canceled" =>
                    req'[q].invitation \in withdrawn'
    <3>1. PICK j : j = req[q].invitation
      OBVIOUS
    <3>2. req'[q] = req[q]
      BY <2>2, <2>6
    <3>3. /\ j \in Invitations /\ invited[j] # "none"
          /\ invitee[j] = req[q].user
          /\ invited[j] = "canceled" => j \in withdrawn
      BY <1>0, <2>6, <3>1, <3>2 DEF LinkInv, RequestRecord
    <3> QED
      BY <2>2, <2>3, <3>1, <3>2, <3>3
  <2>7. \A j \in linked' : invited'[j] # "none"
    BY <2>2, <2>3, <2>4 DEF LinkInv
  <2>8. CanceledForANewer'
    BY <2>2, <2>3, <2>4 DEF LinkInv, CanceledForANewer
  <2> QED
    BY <2>5, <2>6, <2>7, <2>8 DEF LinkInv
<1> QED
  BY <1>1, <1>2, <1>3, <1>4, <1>5, <1>6 DEF InviteSomebody

LEMMA OtherLinks ==
  ASSUME TablesInv, LinkInv,
         \/ \E u \in Users : RestorePerson(u)
         \/ \E g \in Groups, wanted \in Grants : CreateGroup(g, wanted)
         \/ \E i \in Invitations : CancelInvitation(i) \/ Lapse(i)
         \/ UNCHANGED vars
  PROVE  LinkInv'
<1>1. ASSUME NEW i \in Invitations, CancelInvitation(i) PROVE LinkInv'
  <2>1. /\ UNCHANGED <<linked, invitee, req>>
        /\ invited' = [invited EXCEPT ![i] = "canceled"]
        /\ withdrawn' = withdrawn \cup {i}
    BY <1>1 DEF CancelInvitation
  <2>2. /\ \A j \in Invitations : invited'[j] = IF j = i THEN "canceled" ELSE invited[j]
        /\ linked \subseteq Invitations
    BY <2>1 DEF TablesInv, InvitationsOK
  <2>3. ASSUME NEW q \in Requests, req'[q].stage \in {"found", "linking"},
               req'[q].invitation # Nobody
        PROVE  /\ invitee'[req'[q].invitation] = req'[q].user
               /\ invited'[req'[q].invitation] # "none"
               /\ invited'[req'[q].invitation] = "canceled" =>
                    req'[q].invitation \in withdrawn'
    <3>1. PICK j : j = req[q].invitation
      OBVIOUS
    <3>2. /\ j \in Invitations /\ invited[j] # "none"
          /\ invitee[j] = req[q].user
          /\ invited[j] = "canceled" => j \in withdrawn
      BY <2>1, <2>3, <3>1 DEF LinkInv, TablesInv, RequestsOK, RequestRecord
    <3> QED
      BY <2>1, <2>2, <3>1, <3>2
  <2>4. \A p, q \in Requests :
          Linking(p)' /\ Linking(q)' /\ p # q => req'[p].user # req'[q].user
    BY <2>1 DEF Linking, LinkInv
  <2>5. \A j \in linked' : invited'[j] # "none"
    BY <2>1, <2>2 DEF LinkInv
  <2>6. CanceledForANewer'
    BY <2>1, <2>2 DEF LinkInv, CanceledForANewer
  <2> QED
    BY <2>3, <2>4, <2>5, <2>6 DEF LinkInv
<1>2. ASSUME \/ \E u \in Users : RestorePerson(u)
             \/ \E g \in Groups, wanted \in Grants : CreateGroup(g, wanted)
             \/ \E i \in Invitations : Lapse(i)
             \/ UNCHANGED vars
      PROVE  LinkInv'
  <2>1. UNCHANGED <<invited, linked, withdrawn, invitee, req>>
    BY <1>2 DEF RestorePerson, CreateGroup, Lapse, vars, invitationRows
  <2> QED
    BY <2>1, LinksKept
<1> QED
  BY <1>1, <1>2

LEMMA LinkInit == Init => LinkInv
BY DEF Init, LinkInv, Linking, Idle, CanceledForANewer

LEMMA LinkStep == TablesInv /\ LinkInv /\ [Next]_vars => LinkInv'
<1> SUFFICES ASSUME TablesInv, LinkInv, [Next]_vars PROVE LinkInv'
  OBVIOUS
<1>1. ASSUME NEW r \in Requests,
             ChangeRoles(r) \/ ApplyRoles(r) \/ ChangePeople(r) \/ ChangeGroups(r) \/ GiveUp(r)
      PROVE  LinkInv'
  BY <1>1, AsideFromLinks, LinksKept
<1> QED
  BY <1>1, InviteSomebodyLinks, OtherLinks DEF Next

(* A link that was made admits its person until it is used or expires, it is
   withdrawn, its sender may no longer invite, or a newer link for the same
   person is there instead: two made at once would each have withdrawn the
   other, and inviting takes one request at a time for an address
   (invitations.ts). *)
THEOREM ALinkIsLostToANewerOne == Spec => []LinksAreReplacedNotLost
<1>1. LinkInv /\ [](TablesInv) /\ [][Next]_vars => []LinkInv
  BY LinkStep, PTL
<1>2. TablesInv /\ LinkInv => LinksAreReplacedNotLost
  BY DEF TablesInv, InvitationsOK, LinkInv, CanceledForANewer, LinksAreReplacedNotLost,
         Admits, Live
<1> QED
  BY <1>1, <1>2, LinkInit, Tables, PTL DEF Spec
=============================================================================
