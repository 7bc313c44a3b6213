-------------------------------- MODULE Team --------------------------------
(* The members of one tenant and the invitations to it (team.service.ts),    *)
(* behind the guard that reads the caller's membership (jwt.strategy.ts).    *)
(* Requests are concurrent; an action is the code between two awaits.  A     *)
(* person is an e-mail address.                                              *)
EXTENDS Naturals, FiniteSets

CONSTANTS TeamRequests,
          People, Owner,
          Invitations,     \* the rows that may be made
          NoInvitation,
          MaxTeamFaults    \* bound: failed queries and mails

ASSUME TeamAssumption ==
    /\ Owner \in People /\ NoInvitation \notin Invitations
    /\ IsFiniteSet(TeamRequests) /\ MaxTeamFaults \in Nat

VARIABLES
    users,        \* addresses with a User row
    member,       \* TenantMember by address: a role or "none" ...
    seat,         \* ... and the row's id, which a new row of the person does not share
    invitation,   \* TeamInvitation rows
    mailed,       \* invitations whose link has reached the address
    request,      \* the locals of each request
    joins,        \* history: memberships each invitation has created
    teamFaults
teamVars == <<users, member, seat, invitation, mailed, request, joins, teamFaults>>

Roles == {"OWNER", "ADMIN", "MEMBER"}
Managers == {"OWNER", "ADMIN"}
Grantable == Roles \ {"OWNER"}

Nobody == [state |-> "unused", email |-> Owner, role |-> "MEMBER", expired |-> FALSE]
NoRequest == [pc |-> "idle", by |-> Owner, email |-> Owner, role |-> "MEMBER", invitation |-> NoInvitation,
              seat |-> 0]

TeamInit ==
    /\ users = {Owner}
    /\ member = [p \in People |-> IF p = Owner THEN "OWNER" ELSE "none"]
    /\ seat = [p \in People |-> IF p = Owner THEN 1 ELSE 0]
    /\ invitation = [i \in Invitations |-> Nobody]
    /\ mailed = {} /\ teamFaults = 0
    /\ request = [r \in TeamRequests |-> NoRequest]
    /\ joins = [i \in Invitations |-> 0]

AtStep(r, label) == request[r].pc = label
Step(r, label) == request' = [request EXCEPT ![r].pc = label]
\* The request is answered, well or with an error.
EndRequest(r) == request' = [request EXCEPT ![r] = NoRequest]
BeginRequest(r, locals) == AtStep(r, "idle") /\ request' = [request EXCEPT ![r] = locals]
Row(r) == invitation[request[r].invitation]
IsOpen(i) == invitation[i].state = "open"

\* Somebody registers by himself; his own tenant is not this one (register).
SignUp(p) == /\ p \notin users
             /\ users' = users \cup {p}
             /\ UNCHANGED <<member, seat, invitation, mailed, request, joins, teamFaults>>

\* 24 hours pass.
Expire(i) == /\ IsOpen(i) /\ ~invitation[i].expired
             /\ invitation' = [invitation EXCEPT ![i].expired = TRUE]
             /\ UNCHANGED <<users, member, seat, mailed, request, joins, teamFaults>>

----------------------------------------------------------------------------
(* inviteMember.  The role it tests is the one the guard read.               *)

StartInvite(r, by, email, role) ==
    /\ member[by] \in Managers /\ by \in users
    /\ BeginRequest(r, [NoRequest EXCEPT !.pc = "invite", !.email = email, !.role = role])
    /\ UNCHANGED <<users, member, seat, invitation, mailed, joins, teamFaults>>

FindMember(r) ==
    /\ AtStep(r, "invite")
    /\ IF member[request[r].email] # "none" THEN EndRequest(r) ELSE Step(r, "find open")
    /\ UNCHANGED <<users, member, seat, invitation, mailed, joins, teamFaults>>

\* Any invitation that was not accepted stands in the way, an expired one too.
FindOpen(r) ==
    /\ AtStep(r, "find open")
    /\ IF \E i \in Invitations : IsOpen(i) /\ invitation[i].email = request[r].email
       THEN EndRequest(r) ELSE Step(r, "create")
    /\ UNCHANGED <<users, member, seat, invitation, mailed, joins, teamFaults>>

CreateInvitation(r, i) ==
    /\ AtStep(r, "create") /\ invitation[i].state = "unused"
    /\ invitation' = [invitation EXCEPT ![i] = [state |-> "open", email |-> request[r].email,
                                                role |-> request[r].role, expired |-> FALSE]]
    /\ request' = [request EXCEPT ![r].pc = "mail", ![r].invitation = i]
    /\ UNCHANGED <<users, member, seat, mailed, joins, teamFaults>>

MailInvitation(r) ==
    /\ AtStep(r, "mail")
    /\ mailed' = mailed \cup {request[r].invitation}
    /\ EndRequest(r)
    /\ UNCHANGED <<users, member, seat, invitation, joins, teamFaults>>

----------------------------------------------------------------------------
(* acceptInvitation, by whoever holds the link.                              *)

StartAccept(r, i) ==
    /\ i \in mailed
    /\ BeginRequest(r, [NoRequest EXCEPT !.pc = "accept", !.invitation = i])
    /\ UNCHANGED <<users, member, seat, invitation, mailed, joins, teamFaults>>

\* What it needs of the row is read here, once.
FindInvitation(r) ==
    /\ AtStep(r, "accept")
    /\ IF IsOpen(request[r].invitation) /\ ~Row(r).expired
       THEN request' = [request EXCEPT ![r].pc = "find user", ![r].email = Row(r).email, ![r].role = Row(r).role]
       ELSE EndRequest(r)
    /\ UNCHANGED <<users, member, seat, invitation, mailed, joins, teamFaults>>

FindUser(r) ==
    /\ AtStep(r, "find user")
    /\ Step(r, IF request[r].email \in users THEN "find seat" ELSE "create user")
    /\ UNCHANGED <<users, member, seat, invitation, mailed, joins, teamFaults>>

\* After the hashing; the address is unique.
CreateUser(r) ==
    /\ AtStep(r, "create user")
    /\ users' = users \cup {request[r].email}
    /\ IF request[r].email \in users THEN EndRequest(r) ELSE Step(r, "find seat")
    /\ UNCHANGED <<member, seat, invitation, mailed, joins, teamFaults>>

FindSeat(r) ==
    /\ AtStep(r, "find seat")
    /\ Step(r, IF member[request[r].email] # "none" THEN "close" ELSE "join")
    /\ UNCHANGED <<users, member, seat, invitation, mailed, joins, teamFaults>>

\* A person is a member of a tenant once.
Join(r) ==
    LET p == request[r].email IN
    /\ AtStep(r, "join")
    /\ IF member[p] # "none" THEN EndRequest(r) /\ UNCHANGED <<member, seat, joins>>
       ELSE /\ member' = [member EXCEPT ![p] = request[r].role]
            /\ seat' = [seat EXCEPT ![p] = @ + 1]
            /\ joins' = [joins EXCEPT ![request[r].invitation] = @ + 1]
            /\ Step(r, "close")
    /\ UNCHANGED <<users, invitation, mailed, teamFaults>>

\* An invitation cancelled meanwhile cannot be updated: an error, after everything is done.
CloseInvitation(r) ==
    /\ AtStep(r, "close")
    /\ invitation' = [invitation EXCEPT ![request[r].invitation].state = IF @ = "gone" THEN @ ELSE "accepted"]
    /\ EndRequest(r)
    /\ UNCHANGED <<users, member, seat, mailed, joins, teamFaults>>

----------------------------------------------------------------------------
(* cancelInvitation, updateMemberRole, removeMember.                         *)

StartCancel(r, by, i) ==
    /\ member[by] \in Managers
    /\ invitation[i].state \in {"open", "accepted"}
    /\ BeginRequest(r, [NoRequest EXCEPT !.pc = "cancel", !.invitation = i])
    /\ UNCHANGED <<users, member, seat, invitation, mailed, joins, teamFaults>>

CancelInvitation(r) ==
    /\ AtStep(r, "cancel")
    /\ invitation' = [invitation EXCEPT ![request[r].invitation].state = "gone"]
    /\ EndRequest(r)
    /\ UNCHANGED <<users, member, seat, mailed, joins, teamFaults>>

\* The two read the caller's membership themselves, then the row they are given by its id.
StartManage(r, by, p, role) ==
    /\ member[by] # "none" /\ member[p] # "none"
    /\ BeginRequest(r, [NoRequest EXCEPT !.pc = "manage", !.by = by, !.email = p, !.role = role, !.seat = seat[p]])
    /\ UNCHANGED <<users, member, seat, invitation, mailed, joins, teamFaults>>

Present(r) == member[request[r].email] # "none" /\ seat[request[r].email] = request[r].seat

FindRequester(r) ==
    /\ AtStep(r, "manage")
    /\ IF member[request[r].by] \in Managers THEN Step(r, "find row") ELSE EndRequest(r)
    /\ UNCHANGED <<users, member, seat, invitation, mailed, joins, teamFaults>>

\* Nobody manages himself, and nobody the owner.
FindRow(r) ==
    /\ AtStep(r, "find row")
    /\ IF Present(r) /\ request[r].email # request[r].by /\ member[request[r].email] # "OWNER"
       THEN Step(r, "write") ELSE EndRequest(r)
    /\ UNCHANGED <<users, member, seat, invitation, mailed, joins, teamFaults>>

\* By the row's id, for which "none" stands in as the role of a removal.
WriteMember(r) ==
    /\ AtStep(r, "write")
    /\ member' = IF Present(r) THEN [member EXCEPT ![request[r].email] = request[r].role] ELSE member
    /\ EndRequest(r)
    /\ UNCHANGED <<users, seat, invitation, mailed, joins, teamFaults>>

----------------------------------------------------------------------------
\* A query or the mail fails, and the request with it; what it has written stays.
TeamFail(r) ==
    /\ teamFaults < MaxTeamFaults
    /\ ~AtStep(r, "idle")
    /\ teamFaults' = teamFaults + 1
    /\ EndRequest(r)
    /\ UNCHANGED <<users, member, seat, invitation, mailed, joins>>

StartTeam(r) ==
    \/ \E by \in People :
          \/ \E p \in People, role \in Grantable : StartInvite(r, by, p, role)
          \/ \E i \in Invitations : StartCancel(r, by, i)
          \/ \E p \in People, role \in Grantable \cup {"none"} : StartManage(r, by, p, role)
    \/ \E i \in Invitations : StartAccept(r, i)

HandleTeam(r) ==
    \/ FindMember(r) \/ FindOpen(r) \/ (\E i \in Invitations : CreateInvitation(r, i)) \/ MailInvitation(r)
    \/ FindInvitation(r) \/ FindUser(r) \/ CreateUser(r) \/ FindSeat(r) \/ Join(r) \/ CloseInvitation(r)
    \/ CancelInvitation(r)
    \/ FindRequester(r) \/ FindRow(r) \/ WriteMember(r)

TeamNext == \/ \E r \in TeamRequests : StartTeam(r) \/ HandleTeam(r) \/ TeamFail(r)
            \/ \E p \in People : SignUp(p)
            \/ \E i \in Invitations : Expire(i)

TeamSpec == TeamInit /\ [][TeamNext]_teamVars

----------------------------------------------------------------------------
TeamLabels == {"idle", "invite", "find open", "create", "mail", "accept", "find user", "create user", "find seat",
               "join", "close", "cancel", "manage", "find row", "write"}

TeamTypeOK ==
    /\ users \subseteq People /\ mailed \subseteq Invitations
    /\ member \in [People -> Roles \cup {"none"}] /\ seat \in [People -> Nat]
    /\ invitation \in [Invitations -> [state : {"unused", "open", "accepted", "gone"}, email : People,
                                       role : Grantable, expired : BOOLEAN]]
    /\ request \in [TeamRequests -> [pc : TeamLabels, by : People, email : People, role : Grantable \cup {"none"},
                                 invitation : Invitations \cup {NoInvitation}, seat : Nat]]
    /\ joins \in [Invitations -> Nat] /\ teamFaults \in 0..MaxTeamFaults

\* An invitation makes one member.  It makes more only for acceptances that had read it before the first one
\* closed it, or because one failed before closing it: never for a link used later, whatever happened to the
\* member since (acceptInvitation tests the row first and closes it last).
Accepting(i) == {r \in TeamRequests : /\ request[r].invitation = i
                                  /\ request[r].pc \in {"find user", "create user", "find seat", "join"}}
InvitationServesOnce ==
    \A i \in Invitations : joins[i] + Cardinality(Accepting(i)) <= Cardinality(TeamRequests) + teamFaults

\* Closing an invitation is the last of its writes: whoever's invitation is closed has an account and has become
\* a member, so that an acceptance that failed half way can be repeated.
ClosedLast ==
    \A i \in Invitations : invitation[i].state = "accepted" =>
        invitation[i].email \in users /\ seat[invitation[i].email] > 0

\* The tenant has its owner, whoever manages whom at the same time, and no other.
OneOwner == \A p \in People : (member[p] = "OWNER") <=> (p = Owner)
=============================================================================
