------------------------------- MODULE Roles -------------------------------
(***************************************************************************)
(* Roles on the accounts of Accounts: grants and revocations by admins, the  *)
(* check that spares the last admin, and the grant to ADMIN_EMAIL at boot.     *)
(***************************************************************************)
EXTENDS Accounts

CONSTANTS
    RoleNames,     \* of which "admin" holds roles.assign
    AdminRequests, \* requests to the admin routes, and boots, that run at once
    ADMIN_EMAIL

ASSUME RolesAssumption == "admin" \in RoleNames /\ ADMIN_EMAIL \in Emails

VARIABLES
    roles,   \* user_roles
    areq

rvars == <<vars, roles, areq>>

\* by: the caller, None at boot and once it matters no more.
AdminRequest ==
    [pc : {"idle", "target", "assign", "check", "remove"},
     by : Users \cup {None}, user : Users \cup {None}, role : RoleNames]
IdleAdmin == [pc |-> "idle", by |-> None, user |-> None, role |-> "admin"]

TypeOK ==
    /\ AccountsTypeOK
    /\ roles \subseteq Live \X RoleNames
    /\ areq \in [AdminRequests -> AdminRequest]

Init ==
    /\ AccountsInit
    /\ roles = {}
    /\ areq = [a \in AdminRequests |-> IdleAdmin]

Admins == {u \in Users : <<u, "admin">> \in roles}
Asks(a, r) == areq' = [areq EXCEPT ![a] = r]
AdminEnds(a) == Asks(a, IdleAdmin)

\* loadPermissions and requirePermission: the caller is an admin now.
Authorized(a, by, pc, u, r) ==
    /\ areq[a].pc = "idle" /\ by \in Admins
    /\ Asks(a, [pc |-> pc, by |-> by, user |-> u, role |-> r])
    /\ UNCHANGED <<vars, roles>>

\* PUT /users/:id/roles/:role: the SELECT of the target, then assignRole.
FindTarget(a) ==
    /\ areq[a].pc = "target"
    /\ IF areq[a].user \in Live THEN Asks(a, [areq[a] EXCEPT !.pc = "assign"]) ELSE AdminEnds(a)
    /\ UNCHANGED <<vars, roles>>

\* INSERT ... ON CONFLICT DO NOTHING; both foreign keys want their account.  Faulty
\* variant: that of the target is left to the SELECT.
Assigns(a, there) ==
    /\ areq[a].pc = "assign"
    /\ areq[a].user \in there /\ areq[a].by \in Live \cup {None}
    /\ roles' = roles \cup {<<areq[a].user, areq[a].role>>}
    /\ AdminEnds(a)
    /\ UNCHANGED vars
AssignUnchecked(a) == Assigns(a, Users)
AssignRole(a) == Assigns(a, Live)

\* DELETE /users/:id/roles/:role: isLastAdmin, then revokeRole, which does not look
\* again.
IsLastAdmin(a) ==
    /\ areq[a].pc = "check"
    /\ IF areq[a].role = "admin" /\ Admins = {areq[a].user} THEN AdminEnds(a)
       ELSE Asks(a, [areq[a] EXCEPT !.pc = "remove", !.by = None])
    /\ UNCHANGED <<vars, roles>>

RevokeRole(a) ==
    /\ areq[a].pc = "remove"
    /\ roles' = roles \ {<<areq[a].user, areq[a].role>>}
    /\ AdminEnds(a)
    /\ UNCHANGED vars

\* ensureAdminRole, before the server listens.
Boot(a) ==
    /\ areq[a].pc = "idle"
    /\ \E u \in Owner(ADMIN_EMAIL) :
          Asks(a, [IdleAdmin EXCEPT !.pc = "assign", !.user = u])
    /\ UNCHANGED <<vars, roles>>

AdminFails(a) ==
    /\ areq[a].pc # "idle"
    /\ AdminEnds(a)
    /\ UNCHANGED <<vars, roles>>

\* user_roles go with the account.
Delete(u) ==
    /\ DeleteAccount(u)
    /\ roles' = {r \in roles : r[1] # u}
    /\ UNCHANGED areq

Next ==
    \/ AccountsStep /\ UNCHANGED <<roles, areq>>
    \/ \E u \in Users : Delete(u)
    \/ \E a \in AdminRequests :
          \/ \E by, u \in Users, r \in RoleNames :
                Authorized(a, by, "target", u, r) \/ Authorized(a, by, "check", u, r)
          \/ FindTarget(a) \/ AssignRole(a) \/ IsLastAdmin(a) \/ RevokeRole(a)
          \/ Boot(a) \/ AdminFails(a)

Spec == Init /\ [][Next]_rvars

-----------------------------------------------------------------------------

\* "The last admin cannot be demoted": while no account is deleted, somebody who was
\* made admin keeps the role.  Two revocations that are both checked before either
\* removes its row refute it.
LastAdminNotDemoted ==
    [][Admins # {} /\ Admins' = {} => \E u \in Users : account'[u].state = "gone"]_rvars
=============================================================================
