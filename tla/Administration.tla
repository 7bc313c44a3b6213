--------------------------- MODULE Administration ---------------------------
(* The platform's administrators (admin.service.ts) name and dismiss each    *)
(* other, suspend and delete workspaces, and delete users with what they own *)
(* - each in several queries, none of them in a transaction.                 *)
EXTENDS FiniteSets, Naturals

CONSTANTS Users, NoUser, Workspaces, NoWorkspace,
          OwnerOf,           \* the OWNER of each workspace, which never changes
          Joined,            \* the other members: pairs of a user and a workspace
          Founders,          \* the first administrators
          AdminRequests,     \* requests handled at the same time
          MaxAdminFaults     \* bound: failed queries

ASSUME AdministrationAssumption ==
    /\ NoUser \notin Users /\ NoWorkspace \notin Workspaces
    /\ OwnerOf \in [Workspaces -> Users] /\ Joined \subseteq Users \X Workspaces
    /\ Founders \subseteq Users /\ Founders # {} /\ MaxAdminFaults \in Nat

VARIABLES
    alive,         \* User rows
    admins,        \* those with isSuperAdmin
    workspaces,    \* Tenant rows
    suspended,     \* those with isSuspended
    members,       \* TenantMember rows: pairs of a user and a workspace
    areq,          \* what each request has read
    outdated,      \* history: an administrator's request was finished after he had lost that right
    adminFaults
adminVars == <<alive, admins, workspaces, suspended, members, areq, outdated, adminFaults>>

NoAdminRequest == [pc |-> "idle", by |-> NoUser, user |-> NoUser, space |-> NoWorkspace, flag |-> FALSE, owned |-> {}]

AdminInit ==
    /\ alive = Users /\ admins = Founders
    /\ workspaces = Workspaces /\ suspended = {}
    /\ members = Joined \cup {<<OwnerOf[w], w>> : w \in Workspaces}
    /\ areq = [r \in AdminRequests |-> NoAdminRequest]
    /\ outdated = FALSE /\ adminFaults = 0

EndAdmin(r) == areq' = [areq EXCEPT ![r] = NoAdminRequest]
StepAdmin(r, pc) == areq' = [areq EXCEPT ![r].pc = pc]

\* JwtStrategy.validate and SuperAdminGuard: a member of the workspace his token is for, suspended or not.
Admitted(u) == u \in alive \cap admins /\ \E w \in workspaces : <<u, w>> \in members
Receive(r, request) ==
    /\ areq[r].pc = "idle" /\ Admitted(request.by)
    /\ areq' = [areq EXCEPT ![r] = request]
    /\ UNCHANGED <<alive, admins, workspaces, suspended, members, outdated, adminFaults>>

Finish(r) == outdated' = (outdated \/ areq[r].by \notin alive \cap admins)

----------------------------------------------------------------------------
\* updateUser, up to its write: found, and not himself when he is to be dismissed.
AskUpdateUser(r, u, v, flag) ==
    /\ v \in alive /\ ~(u = v /\ ~flag)
    /\ Receive(r, [NoAdminRequest EXCEPT !.pc = "promote", !.by = u, !.user = v, !.flag = flag])

UpdateUser(r) ==
    LET v == areq[r].user IN
    /\ areq[r].pc = "promote"
    /\ admins' = IF v \notin alive THEN admins ELSE IF areq[r].flag THEN admins \cup {v} ELSE admins \ {v}
    /\ Finish(r) /\ EndAdmin(r)
    /\ UNCHANGED <<alive, workspaces, suspended, members, adminFaults>>

\* updateTenant: the plan bounds other models.
AskUpdateTenant(r, u, w, flag) ==
    /\ w \in workspaces
    /\ Receive(r, [NoAdminRequest EXCEPT !.pc = "suspend", !.by = u, !.space = w, !.flag = flag])

UpdateTenant(r) ==
    LET w == areq[r].space IN
    /\ areq[r].pc = "suspend"
    /\ suspended' = IF w \notin workspaces THEN suspended
                    ELSE IF areq[r].flag THEN suspended \cup {w} ELSE suspended \ {w}
    /\ Finish(r) /\ EndAdmin(r)
    /\ UNCHANGED <<alive, admins, workspaces, members, adminFaults>>

\* What is deleted takes its memberships along.
Remove(spaces, users) ==
    /\ workspaces' = workspaces \ spaces
    /\ suspended' = suspended \ spaces
    /\ alive' = alive \ users
    /\ admins' = admins \ users
    /\ members' = {m \in members : m[1] \notin users /\ m[2] \notin spaces}

AskDeleteTenant(r, u, w) ==
    /\ w \in workspaces
    /\ Receive(r, [NoAdminRequest EXCEPT !.pc = "deleteTenant", !.by = u, !.space = w])

DeleteTenant(r) ==
    /\ areq[r].pc = "deleteTenant"
    /\ Remove({areq[r].space}, {})
    /\ Finish(r) /\ EndAdmin(r)
    /\ UNCHANGED adminFaults

----------------------------------------------------------------------------
(* deleteUser                                                                *)

OwnedBy(v) == {w \in workspaces : OwnerOf[w] = v /\ <<v, w>> \in members}

\* Seeded fault: the user goes first.
AskDeleteUserFirst(r, u, v) ==
    /\ v \in alive /\ u # v
    /\ Receive(r, [NoAdminRequest EXCEPT !.pc = "deleteUser", !.by = u, !.user = v, !.owned = OwnedBy(v)])

AskDeleteUser(r, u, v) ==
    /\ v \in alive /\ u # v
    /\ Receive(r, [NoAdminRequest EXCEPT !.pc = "deleteOwned", !.by = u, !.user = v, !.owned = OwnedBy(v)])

DeleteOwned(r) ==
    /\ areq[r].pc = "deleteOwned"
    /\ Remove(areq[r].owned, {})
    /\ StepAdmin(r, "deleteUser")
    /\ UNCHANGED <<outdated, adminFaults>>

\* deleteMany: it may be gone already.
DeleteUser(r) ==
    /\ areq[r].pc = "deleteUser"
    /\ Remove({}, {areq[r].user})
    /\ Finish(r) /\ EndAdmin(r)
    /\ UNCHANGED adminFaults

\* A query fails: what was done before it stays.
AdminFails(r) ==
    /\ areq[r].pc # "idle" /\ adminFaults < MaxAdminFaults
    /\ adminFaults' = adminFaults + 1
    /\ EndAdmin(r)
    /\ UNCHANGED <<alive, admins, workspaces, suspended, members, outdated>>

----------------------------------------------------------------------------
AskAdmin(r, u) ==
    \/ \E v \in Users : AskDeleteUser(r, u, v) \/ \E flag \in BOOLEAN : AskUpdateUser(r, u, v, flag)
    \/ \E w \in Workspaces : AskDeleteTenant(r, u, w) \/ \E flag \in BOOLEAN : AskUpdateTenant(r, u, w, flag)

AdminNext == \E r \in AdminRequests :
    \/ \E u \in Users : AskAdmin(r, u)
    \/ UpdateUser(r) \/ UpdateTenant(r) \/ DeleteTenant(r) \/ DeleteOwned(r) \/ DeleteUser(r)
    \/ AdminFails(r)

AdminSpec == AdminInit /\ [][AdminNext]_adminVars

----------------------------------------------------------------------------
AdminTypeOK ==
    /\ admins \subseteq alive /\ alive \subseteq Users
    /\ suspended \subseteq workspaces /\ workspaces \subseteq Workspaces
    /\ members \subseteq alive \X workspaces
    /\ areq \in [AdminRequests ->
          [pc : {"idle", "promote", "suspend", "deleteTenant", "deleteOwned", "deleteUser"}, by : Users \cup {NoUser},
           user : Users \cup {NoUser}, space : Workspaces \cup {NoWorkspace}, flag : BOOLEAN,
            owned : SUBSET Workspaces]]
    /\ outdated \in BOOLEAN /\ adminFaults \in 0..MaxAdminFaults

\* The platform never runs out of administrators: none can dismiss or delete himself.  Two who dismiss each
\* other at the same time both succeed, the second when he is none any more (updateUser, deleteUser).
SomeAdminStays == admins # {} \/ outdated

\* No workspace outlives its owner, wherever the deletion of a user stops (deleteUser).
WorkspaceHasOwner == \A w \in workspaces : OwnerOf[w] \in alive /\ <<OwnerOf[w], w>> \in members
=============================================================================
