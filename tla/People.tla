------------------------------- MODULE People -------------------------------
(* Who belongs to a business and what they may do: packages/modules-free/users,
   people.ts, groups.ts, roles.ts and invitations.ts.  A request checks what it
   read, calls the authentication library, which commits by itself, and writes
   in statements of its own; only the removal and the suspension of a person
   decide under a lock.

   What a person holds (`role`) is worked out: their own role (`base`) and what
   the groups they are in grant.  Whatever may change it writes it again. *)
EXTENDS Naturals, FiniteSets

CONSTANTS
  Users,
  Founders,     \* the members at the start, each an administrator
  Roles,
  AdminRole,    \* the role of a founder
  Policy,       \* what a role allows, of Rights
  Groups,
  Grants,       \* the sets of roles a group may be given
  Invitations,
  Requests,     \* requests that may be under way at once
  Mixes,        \* bound: the kinds of request met together
  Unset,        \* a base role never written down
  Nobody

Rights == {"settings:update", "member:update", "invitation:create"}

ASSUME PolicyAssumption ==
  /\ Policy \in [Roles -> SUBSET Rights]
  /\ AdminRole \in Roles /\ Policy[AdminRole] = Rights
  /\ Founders \subseteq Users /\ Founders # {}
  /\ Grants \subseteq SUBSET Roles
  /\ Unset \notin Roles /\ Nobody \notin Invitations
  /\ IsFiniteSet(Users)

VARIABLES
  members,      \* who has a row in member
  role,         \* member.role, the roles in effect
  base,         \* member.base_role
  disabled,     \* who has member.disabled_at
  group,        \* whether a group is not made yet, there, or gone
  grants,       \* user_groups.roles
  inGroup,      \* user_group_members, rows <<group, user>>
  invited,      \* invitation.status
  linked,       \* the invitations whose link has been made
  expired,      \* the invitations whose time has run out
  withdrawn,    \* the invitations an administrator withdrew
  invitee,      \* invitation.email
  inviter,      \* invitation.inviter_id
  joined,       \* bound: who has been a member, and does not join again
  req,          \* what each request has read, and where it is
  mix,          \* the one of Mixes this instance meets
  crossed       \* those for whom two changes overlapped, or one was cut short

\* With `mix`, which nothing changes.
memberRows == <<members, role, base, disabled, joined, mix>>
groupRows == <<group, grants, inGroup>>
invitationRows == <<invited, linked, expired, withdrawn, invitee, inviter>>
vars == <<memberRows, groupRows, invitationRows, req, crossed>>

Idle == [stage |-> "idle", user |-> Nobody, group |-> Nobody, role |-> Unset,
         base |-> Unset, held |-> {}, affected |-> {}, touches |-> {},
         invitation |-> Nobody, by |-> Nobody]

Init ==
  /\ members = Founders /\ joined = Founders
  /\ role = [u \in Users |-> IF u \in Founders THEN {AdminRole} ELSE {}]
  /\ base = [u \in Users |-> Unset]
  /\ disabled = {}
  /\ group = [g \in Groups |-> "none"] /\ grants = [g \in Groups |-> {}] /\ inGroup = {}
  /\ invited = [i \in Invitations |-> "none"]
  /\ linked = {} /\ expired = {} /\ withdrawn = {}
  /\ invitee = [i \in Invitations |-> Nobody]
  /\ inviter = [i \in Invitations |-> Nobody]
  /\ req = [r \in Requests |-> Idle]
  /\ mix \in Mixes
  /\ crossed = {}

-----------------------------------------------------------------------------
(* What roles allow. *)

Allowed(held) == UNION {Policy[r] : r \in held}

\* Asked of what the roles allow, not of their names.
Administers(u) == Allowed(role[u]) = Rights

Standing == {u \in members \ disabled : Administers(u)}

\* Of everybody still standing, `u` included.
IsLastAdministrator(u) == Administers(u) /\ Cardinality(Standing) <= 1

\* A request is made by somebody else who may open the screen: nobody changes,
\* suspends or removes themselves.
AskedByAnother(u) ==
  \E by \in (members \ disabled) \ {u} : "settings:update" \in Allowed(role[by])

MayAsk(by) == by \in members \ disabled /\ "settings:update" \in Allowed(role[by])

Asked == \E by \in Users : MayAsk(by)

There == {g \in Groups : group[g] = "there"}

GroupRoles(u) ==
  UNION {grants[g] : g \in {h \in There : <<h, u>> \in inGroup}}

-----------------------------------------------------------------------------
(* Requests. *)

Open(r, request) ==
  /\ req[r].stage = "idle"
  /\ req' = [req EXCEPT ![r] = request]

\* One that changes what people hold, and the people it may do that to.
OpenChange(r, whom, request) ==
  /\ Open(r, [request EXCEPT !.touches = whom])
  /\ crossed' = crossed \cup
       (whom \cap UNION {req[q].touches : q \in Requests \ {r}})

Goto(r, stage) == req' = [req EXCEPT ![r].stage = stage]

\* On to applyRoles.
Apply(r, whom) ==
  req' = [req EXCEPT ![r] = [Idle EXCEPT !.stage = "reading roles",
                               !.affected = whom, !.touches = req[r].touches]]

Close(r) == req' = [req EXCEPT ![r] = Idle]

\* A refusal, or a process that dies between two statements.
GiveUp(r) ==
  /\ req[r].stage # "idle"
  /\ Close(r)
  /\ crossed' = crossed \cup req[r].touches
  /\ UNCHANGED <<memberRows, groupRows, invitationRows>>

-----------------------------------------------------------------------------
(* applyRoles: the row is read, then the groups, and what they come to is
   written, one person of `affected` after another. *)

ReadRole(r, u) ==
  /\ req[r].stage = "reading roles" /\ u \in req[r].affected
  /\ IF u \in members
     THEN req' = [req EXCEPT ![r].stage = "reading groups", ![r].user = u,
            ![r].base = IF base[u] # Unset THEN base[u]
                        ELSE CHOOSE own \in role[u] : TRUE]
     ELSE req' = [req EXCEPT ![r].affected = @ \ {u}]
  /\ UNCHANGED <<memberRows, groupRows, invitationRows, crossed>>

ReadGroups(r) ==
  /\ req[r].stage = "reading groups"
  /\ req' = [req EXCEPT ![r].stage = "writing",
                        ![r].held = GroupRoles(req[r].user)]
  /\ UNCHANGED <<memberRows, groupRows, invitationRows, crossed>>

(* Mutant: only what the groups grant is written. *)
WriteGroupRoles(r) ==
  /\ req[r].stage = "writing"
  /\ LET u == req[r].user IN
       /\ IF u \in members
          THEN /\ base' = [base EXCEPT ![u] = req[r].base]
               /\ role' = [role EXCEPT ![u] = req[r].held]
          ELSE UNCHANGED <<base, role>>
       /\ req' = [req EXCEPT ![r].stage = "reading roles",
                    ![r].affected = @ \ {u}, ![r].user = Nobody,
                    ![r].base = Unset, ![r].held = {}]
  /\ UNCHANGED <<members, disabled, joined, mix, groupRows, invitationRows, crossed>>

WriteRoles(r) ==
  /\ req[r].stage = "writing"
  /\ LET u == req[r].user IN
       /\ IF u \in members
          THEN /\ base' = [base EXCEPT ![u] = req[r].base]
               /\ role' = [role EXCEPT ![u] = {req[r].base} \cup req[r].held]
          ELSE UNCHANGED <<base, role>>
       /\ req' = [req EXCEPT ![r].stage = "reading roles",
                    ![r].affected = @ \ {u}, ![r].user = Nobody,
                    ![r].base = Unset, ![r].held = {}]
  /\ UNCHANGED <<members, disabled, joined, mix, groupRows, invitationRows, crossed>>

RolesApplied(r) ==
  /\ req[r].stage = "reading roles" /\ req[r].affected = {}
  /\ Close(r)
  /\ UNCHANGED <<memberRows, groupRows, invitationRows, crossed>>

-----------------------------------------------------------------------------
(* A person's own role. *)

AskForRole(r, u, own) ==
  /\ "roles" \in mix
  /\ u \in members /\ AskedByAnother(u)
  /\ OpenChange(r, {u}, [Idle EXCEPT !.stage = "role", !.user = u, !.role = own])
  /\ UNCHANGED <<memberRows, groupRows, invitationRows>>

\* By the library, which commits it; it refuses for somebody who has gone.
UpdateMemberRole(r) ==
  /\ req[r].stage = "role" /\ req[r].user \in members
  /\ role' = [role EXCEPT ![req[r].user] = {req[r].role}]
  /\ Goto(r, "base")
  /\ UNCHANGED <<members, base, disabled, joined, mix, groupRows, invitationRows,
                 crossed>>

RecordOwnRole(r) ==
  /\ req[r].stage = "base"
  /\ LET u == req[r].user IN
       /\ base' = IF u \in members THEN [base EXCEPT ![u] = req[r].role]
                                   ELSE base
       /\ Apply(r, {u})
  /\ UNCHANGED <<members, role, disabled, joined, mix, groupRows, invitationRows,
                 crossed>>

-----------------------------------------------------------------------------
(* Removing, suspending and restoring a person. *)

AskToRemove(r, u) ==
  /\ "people" \in mix
  /\ u \in members /\ AskedByAnother(u) /\ ~IsLastAdministrator(u)
  /\ Open(r, [Idle EXCEPT !.stage = "removing", !.user = u])
  /\ UNCHANGED <<memberRows, groupRows, invitationRows, crossed>>

(* Mutant: nobody counts again. *)
LeavesNoAdministratorAsRead(u) == u \notin members

\* Every row of the business is locked, and everybody counted again.
LeavesNoAdministrator(u) == u \notin members \/ IsLastAdministrator(u)

\* The membership goes, and with it the places in groups.
Remove(r) ==
  /\ req[r].stage = "removing"
  /\ LET u == req[r].user IN
       /\ ~LeavesNoAdministrator(u)
       /\ members' = members \ {u}
       /\ role' = [role EXCEPT ![u] = {}]
       /\ base' = [base EXCEPT ![u] = Unset]
       /\ disabled' = disabled \ {u}
       /\ inGroup' = {row \in inGroup : row[2] # u}
  /\ Close(r)
  /\ UNCHANGED <<joined, mix, group, grants, invitationRows, crossed>>

AskToSuspend(r, u) ==
  /\ "people" \in mix
  /\ u \in members /\ AskedByAnother(u) /\ ~IsLastAdministrator(u)
  /\ Open(r, [Idle EXCEPT !.stage = "suspending", !.user = u])
  /\ UNCHANGED <<memberRows, groupRows, invitationRows, crossed>>

Suspend(r) ==
  /\ req[r].stage = "suspending"
  /\ ~LeavesNoAdministrator(req[r].user)
  /\ disabled' = disabled \cup {req[r].user}
  /\ Close(r)
  /\ UNCHANGED <<members, role, base, joined, mix, groupRows, invitationRows,
                 crossed>>

\* Restoring never takes an administrator away, and counts nobody.
RestorePerson(u) ==
  /\ u \in disabled /\ AskedByAnother(u)
  /\ disabled' = disabled \ {u}
  /\ UNCHANGED <<members, role, base, joined, mix, groupRows, invitationRows, req,
                 crossed>>

-----------------------------------------------------------------------------
(* Groups. *)

CreateGroup(g, wanted) ==
  /\ "groups" \in mix
  /\ group[g] = "none" /\ Asked
  /\ group' = [group EXCEPT ![g] = "there"]
  /\ grants' = [grants EXCEPT ![g] = wanted]
  /\ UNCHANGED <<memberRows, inGroup, invitationRows, req, crossed>>

\* Only somebody who is already in the business: read, and then inserted.
AskToJoin(r, g, u) ==
  /\ g \in There /\ u \in members /\ Asked
  /\ OpenChange(r, {u},
       [Idle EXCEPT !.stage = "joining", !.user = u, !.group = g])
  /\ UNCHANGED <<memberRows, groupRows, invitationRows>>

Join(r) ==
  /\ req[r].stage = "joining"
  /\ inGroup' = inGroup \cup {<<req[r].group, req[r].user>>}
  /\ Apply(r, {req[r].user})
  /\ UNCHANGED <<memberRows, group, grants, invitationRows, crossed>>

Leave(r, g, u) ==
  /\ <<g, u>> \in inGroup /\ Asked
  /\ inGroup' = inGroup \ {<<g, u>>}
  /\ OpenChange(r, {u}, [Idle EXCEPT !.stage = "reading roles", !.affected = {u}])
  /\ UNCHANGED <<memberRows, group, grants, invitationRows>>

\* The list is replaced whole, of the version the screen showed.
EditGroup(r, g, wanted) ==
  /\ g \in There /\ grants[g] # wanted /\ Asked
  /\ grants' = [grants EXCEPT ![g] = wanted]
  /\ OpenChange(r, Users, [Idle EXCEPT !.stage = "reading people", !.group = g])
  /\ UNCHANGED <<memberRows, group, inGroup, invitationRows>>

MembersOfGroup(g) == {u \in Users : <<g, u>> \in inGroup}

ReadPeople(r) ==
  /\ req[r].stage = "reading people"
  /\ Apply(r, MembersOfGroup(req[r].group))
  /\ UNCHANGED <<memberRows, groupRows, invitationRows, crossed>>

\* Whom it affects is read before the group goes, and the rows go after it.
AskToDeleteGroup(r, g) ==
  /\ g \in There /\ Asked
  /\ OpenChange(r, Users, [Idle EXCEPT !.stage = "dropping", !.group = g,
                                      !.affected = MembersOfGroup(g)])
  /\ UNCHANGED <<memberRows, groupRows, invitationRows>>

DeleteGroup(r) ==
  /\ req[r].stage = "dropping" /\ req[r].group \in There
  /\ group' = [group EXCEPT ![req[r].group] = "gone"]
  /\ Goto(r, "emptying")
  /\ UNCHANGED <<memberRows, grants, inGroup, invitationRows, crossed>>

(* Mutant: whom it affects is read when the rows have gone. *)
DeleteRowsFirst(r) ==
  /\ req[r].stage = "emptying"
  /\ inGroup' = {row \in inGroup : row[1] # req[r].group}
  /\ Apply(r, {})
  /\ UNCHANGED <<memberRows, group, grants, invitationRows, crossed>>

DeleteRows(r) ==
  /\ req[r].stage = "emptying"
  /\ inGroup' = {row \in inGroup : row[1] # req[r].group}
  /\ Apply(r, req[r].affected)
  /\ UNCHANGED <<memberRows, group, grants, invitationRows, crossed>>

-----------------------------------------------------------------------------
(* Invitations. *)

PendingFor(u) ==
  {i \in Invitations : invited[i] = "pending" /\ invitee[i] = u}

Live(i) == invited[i] = "pending" /\ i \notin expired

\* inviterStillMay: a link goes with its sender.
StillMay(i) ==
  /\ inviter[i] \in members \ disabled
  /\ "invitation:create" \in Allowed(role[inviter[i]])

\* byToken: what a link that was made answers "ok" for.
Admits(i) == i \in linked /\ Live(i) /\ StillMay(i)

(* Mutant: nothing keeps two presses apart. *)
InviteUnlocked(r, u, by) ==
  /\ "invitations" \in mix
  /\ MayAsk(by) /\ u \notin joined
  /\ Open(r, [Idle EXCEPT !.stage = "inviting", !.user = u, !.by = by])
  /\ UNCHANGED <<memberRows, groupRows, invitationRows, crossed>>

\* One at a time for an address: a second press does not wait.
Invite(r, u, by) ==
  /\ "invitations" \in mix
  /\ MayAsk(by) /\ u \notin joined
  /\ \A q \in Requests :
       req[q].stage \in {"inviting", "found", "linking"} => req[q].user # u
  /\ Open(r, [Idle EXCEPT !.stage = "inviting", !.user = u, !.by = by])
  /\ UNCHANGED <<memberRows, groupRows, invitationRows, crossed>>

\* The library asks whether its caller may invite, and looks for one still
\* waiting, to take it up again.
FindInvitation(r) ==
  /\ req[r].stage = "inviting" /\ req[r].user \notin members
  /\ req[r].by \in members \ disabled
  /\ "invitation:create" \in Allowed(role[req[r].by])
  /\ \E i \in {j \in PendingFor(req[r].user) : Live(j)} \cup {Nobody} :
       /\ i = Nobody => \A j \in PendingFor(req[r].user) : ~Live(j)
       /\ req' = [req EXCEPT ![r].stage = "found", ![r].invitation = i]
  /\ UNCHANGED <<memberRows, groupRows, invitationRows, crossed>>

\* It commits by itself: a new one, or more time for the one it found.  Whose
\* that one is from then on is the library's to say.
CreateInvitation(r, i) ==
  /\ req[r].stage = "found"
  /\ IF req[r].invitation = Nobody
     THEN /\ invited[i] = "none"
          /\ invited' = [invited EXCEPT ![i] = "pending"]
          /\ invitee' = [invitee EXCEPT ![i] = req[r].user]
          /\ inviter' = [inviter EXCEPT ![i] = req[r].by]
          /\ UNCHANGED expired
     ELSE /\ i = req[r].invitation
          /\ expired' = expired \ {i}
          /\ \E by \in {inviter[i], req[r].by} :
               inviter' = [inviter EXCEPT ![i] = by]
          /\ UNCHANGED <<invited, invitee>>
  /\ req' = [req EXCEPT ![r].stage = "linking", ![r].invitation = i,
                        ![r].by = Nobody]
  /\ UNCHANGED <<memberRows, groupRows, linked, withdrawn, crossed>>

\* The link is made and any other still pending is withdrawn.
MakeLink(r) ==
  /\ req[r].stage = "linking"
  /\ linked' = linked \cup {req[r].invitation}
  /\ invited' = [i \in Invitations |->
       IF i \in PendingFor(req[r].user) \ {req[r].invitation} THEN "canceled"
       ELSE invited[i]]
  /\ Close(r)
  /\ UNCHANGED <<memberRows, groupRows, expired, withdrawn, invitee, inviter,
                 crossed>>

\* Only one still waiting.
CancelInvitation(i) ==
  /\ invited[i] = "pending" /\ Asked
  /\ invited' = [invited EXCEPT ![i] = "canceled"]
  /\ withdrawn' = withdrawn \cup {i}
  /\ UNCHANGED <<memberRows, groupRows, linked, expired, invitee, inviter, req,
                 crossed>>

Lapse(i) ==
  /\ invited[i] = "pending"
  /\ expired' = expired \cup {i}
  /\ UNCHANGED <<memberRows, groupRows, invited, linked, withdrawn, invitee,
                 inviter, req, crossed>>

FollowLink(r, i) ==
  /\ Admits(i)
  /\ Open(r, [Idle EXCEPT !.stage = "accepting", !.user = invitee[i],
                          !.invitation = i])
  /\ UNCHANGED <<memberRows, groupRows, invitationRows, crossed>>

\* By the library: the sender is asked after again, pending goes to accepted in
\* one statement, and the membership.
AcceptInvitation(r, own) ==
  /\ req[r].stage = "accepting"
  /\ LET i == req[r].invitation
         u == req[r].user IN
       /\ Live(i) /\ StillMay(i) /\ u \notin joined
       /\ invited' = [invited EXCEPT ![i] = "accepted"]
       /\ members' = members \cup {u}
       /\ joined' = joined \cup {u}
       /\ role' = [role EXCEPT ![u] = {own}]
  /\ Close(r)
  /\ UNCHANGED <<base, disabled, mix, groupRows, linked, expired, withdrawn, invitee,
                 inviter, crossed>>

-----------------------------------------------------------------------------
ChangeRoles(r) ==
  \/ \E u \in Users, own \in Roles : AskForRole(r, u, own)
  \/ UpdateMemberRole(r)
  \/ RecordOwnRole(r)

ApplyRoles(r) ==
  \/ \E u \in Users : ReadRole(r, u)
  \/ ReadGroups(r)
  \/ WriteRoles(r)
  \/ RolesApplied(r)

ChangePeople(r) ==
  \/ \E u \in Users : AskToRemove(r, u) \/ AskToSuspend(r, u)
  \/ Remove(r)
  \/ Suspend(r)

ChangeGroups(r) ==
  \/ \E g \in Groups, u \in Users : AskToJoin(r, g, u) \/ Leave(r, g, u)
  \/ Join(r)
  \/ \E g \in Groups, wanted \in Grants : EditGroup(r, g, wanted)
  \/ ReadPeople(r)
  \/ \E g \in Groups : AskToDeleteGroup(r, g)
  \/ DeleteGroup(r)
  \/ DeleteRows(r)

InviteSomebody(r) ==
  \/ \E u, by \in Users : Invite(r, u, by)
  \/ FindInvitation(r)
  \/ \E i \in Invitations : CreateInvitation(r, i) \/ FollowLink(r, i)
  \/ MakeLink(r)
  \/ \E own \in Roles : AcceptInvitation(r, own)

Next ==
  \/ \E r \in Requests :
       \/ ChangeRoles(r) \/ ApplyRoles(r) \/ ChangePeople(r)
       \/ ChangeGroups(r) \/ InviteSomebody(r) \/ GiveUp(r)
  \/ \E u \in Users : RestorePerson(u)
  \/ \E g \in Groups, wanted \in Grants : CreateGroup(g, wanted)
  \/ \E i \in Invitations : CancelInvitation(i) \/ Lapse(i)

Spec == Init /\ [][Next]_vars

-----------------------------------------------------------------------------
TypeOK ==
  /\ members \subseteq Users /\ disabled \subseteq members
  /\ joined \subseteq Users /\ members \subseteq joined
  /\ role \in [Users -> SUBSET Roles]
  /\ \A u \in members : role[u] # {}
  /\ base \in [Users -> Roles \cup {Unset}]
  /\ group \in [Groups -> {"none", "there", "gone"}]
  /\ grants \in [Groups -> SUBSET Roles]
  /\ inGroup \subseteq Groups \X Users
  /\ invited \in [Invitations -> {"none", "pending", "accepted", "canceled"}]
  /\ linked \cup expired \cup withdrawn \subseteq Invitations
  /\ invitee \in [Invitations -> Users \cup {Nobody}]
  /\ inviter \in [Invitations -> Users \cup {Nobody}]
  /\ crossed \subseteq Users
  /\ \A r \in Requests :
       /\ req[r].user \in Users \cup {Nobody}
       /\ req[r].by \in Users \cup {Nobody}
       /\ req[r].affected \subseteq Users
       /\ req[r].touches \subseteq Users
       /\ req[r].held \subseteq Roles

(* However removals, suspensions and demotions overlap, taking somebody away
   never takes away the last administrator who can still sign in. *)
TakenAwayNotTheLast ==
  [][/\ members \ members' # {} \/ disabled' \ disabled # {}
     /\ Standing # {}
     => Standing' # {}]_<<members, role, disabled>>

(* What a person holds is their own role and what their groups grant, after
   any sequence of changes that did not overlap on them and were not cut
   short; those of other people may overlap with theirs. *)
RolesAreWorkedOut ==
  \A u \in members \ crossed :
    (\A r \in Requests : u \notin req[r].touches) =>
      IF base[u] = Unset THEN GroupRoles(u) = {}
      ELSE role[u] = {base[u]} \cup GroupRoles(u)

(* A link that was made admits its person until it is used or it expires, an
   administrator withdraws it, whoever sent it may no longer invite (suspended,
   removed or demoted), or a newer link for the same address takes its place:
   two made at once would each withdraw the other. *)
LinksAreReplacedNotLost ==
  \A i \in linked \ withdrawn : ~Admits(i) =>
    \/ invited[i] = "accepted"
    \/ invited[i] = "pending" /\ (i \in expired \/ ~StillMay(i))
    \/ \E j \in linked \ {i} :
         /\ invitee[j] = invitee[i]
         /\ invited[j] # "canceled" \/ j \in withdrawn
=============================================================================
