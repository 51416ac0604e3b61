------------------------------ MODULE Workspaces ------------------------------
(***************************************************************************)
(* Workspaces, their members and their roles (tenants/service.py,          *)
(* rbac/service.py, the routes and dependencies in front of them).         *)
(*                                                                         *)
(* A request establishes its workspace and its permission, reads the rows  *)
(* it decides by, and commits later; nothing is locked in between.  So a   *)
(* request is a Begin step, one per route, and a commit step, which holds  *)
(* what the database enforces by itself: unique and foreign keys, cascades *)
(* and the columns the session has seen change.                            *)
(***************************************************************************)
EXTENDS Requests, Permissions, FiniteSets

CONSTANTS Tenants, Users,
          CustomRoles,  \* roles that a workspace may create, once each
          MaxRows,      \* bound: rows of tenant_memberships ever inserted
          MaxRequests,  \* bound: requests begun, the creation of workspaces aside
          Additions,    \* what POST /members is asked: a status and roles
          Changes,      \* what PATCH /members is asked: a status, ownership, roles
          GrantChoices  \* the permissions that a custom role is given

TenantStatuses == {"ACTIVE", "SUSPENDED", "ARCHIVED"}
MemberStatuses == {"ACTIVE", "INVITED", "SUSPENDED", "REMOVED"}
Roles == SystemRoles \cup CustomRoles
Rows  == 1..MaxRows

\* The codes that the routes of this module ask for.
Guarded == {<<"tenant", "update">>, <<"user", "create">>, <<"user", "update">>,
            <<"user", "delete">>, <<"role", "create">>, <<"role", "update">>,
            <<"role", "delete">>}

ASSUME WorkspacesAssumption ==
  /\ CustomRoles \cap SystemRoles = {}
  /\ MaxRows \in Nat /\ MaxRequests \in Nat
  /\ Additions \subseteq [status : MemberStatuses, roles : SUBSET Roles]
  /\ Changes \subseteq [status : MemberStatuses \cup {"keep"},
                        owner : {"keep", "yes", "no"}, roles : SUBSET Roles]
  /\ GrantChoices \subseteq SUBSET Guarded

VARIABLES
  tenants,   \* tenants.status, or "absent"
  members,   \* tenant_memberships, each with its membership_roles
  roles,     \* roles of each workspace, each with its role_permissions
  wsReq,     \* what each client's request is about to commit
  wsServed,  \* requests begun
  wsRaced,   \* history: workspaces that lost an owner behind a guard's back
  wsStripped \* history: roles assigned while their deletion was under way

wsVars == <<tenants, members, roles, wsReq, wsServed, wsRaced, wsStripped>>

NoRow == [state |-> "unused"]
GoneRow == [state |-> "deleted"]
MemberRows == [state : {"live"}, tenant : Tenants, user : Users,
               status : MemberStatuses, owner : BOOLEAN, roles : SUBSET Roles]
RoleRows == [state : {"unused", "live", "deleted"}, grants : SUBSET Guarded]

WsRequests ==
       [op : {"add"}, tenant : Tenants, user : Users, status : MemberStatuses,
        roles : SUBSET Roles]
  \cup [op : {"update"}, tenant : Tenants, row : Rows,
        status : MemberStatuses \cup {"keep"}, owner : {"keep", "yes", "no"},
        roles : SUBSET Roles, guarded : BOOLEAN, late : BOOLEAN]
  \cup [op : {"remove"}, tenant : Tenants, row : Rows, guarded : BOOLEAN]
  \cup [op : {"createRole", "updateRole"}, tenant : Tenants, role : CustomRoles,
        grants : SUBSET Guarded, late : BOOLEAN]
  \cup [op : {"deleteRole"}, tenant : Tenants, role : CustomRoles]
  \cup [op : {"tenant"}, tenant : Tenants, status : TenantStatuses]

WorkspacesTypeOK ==
  /\ tenants \in [Tenants -> TenantStatuses \cup {"absent"}]
  /\ members \in [Rows -> MemberRows \cup {NoRow, GoneRow}]
  /\ roles \in [Tenants -> [Roles -> RoleRows]]
  /\ wsReq \in [Clients -> WsRequests \cup {idle}]
  /\ wsServed \in 0..MaxRequests
  /\ wsRaced \subseteq Tenants
  /\ wsStripped \subseteq Tenants \X CustomRoles

-----------------------------------------------------------------------------
(***************************************************************************)
(* What the repositories read.                                             *)
(***************************************************************************)

LiveMember(m) == members[m].state = "live"
MembersOf(t) == {m \in Rows : LiveMember(m) /\ members[m].tenant = t}
LiveRoles(t) == {r \in Roles : roles[t][r].state = "live"}

\* get_for_user_and_tenant
MembershipsOf(u, t) == {m \in MembersOf(t) : members[m].user = u}

\* get_active_for_user_and_tenant
ActiveMemberships(u, t) == {m \in MembershipsOf(u, t) : members[m].status = "ACTIVE"}

\* count_owners counts these.
Owners(t) == {m \in MembersOf(t) : members[m].owner /\ members[m].status = "ACTIVE"}

\* count_for_role counts these.
Holders(t, r) == {m \in MembersOf(t) : r \in members[m].roles}

\* codes_for_user_in_tenant
EffectivePermissions(u, t) ==
  UNION {roles[t][r].grants : r \in UNION {members[m].roles : m \in ActiveMemberships(u, t)}}

\* get_tenant_context: the membership is ACTIVE, and so is the workspace.
HasContext(u, t) == ActiveMemberships(u, t) # {} /\ tenants[t] = "ACTIVE"

\* require_permission
Permitted(u, t, p) == HasContext(u, t) /\ p \in EffectivePermissions(u, t)

-----------------------------------------------------------------------------
(***************************************************************************)
(* Creating a workspace: one transaction, nobody else can see its rows.    *)
(***************************************************************************)

\* seed_system_roles
SeededRoles ==
  [r \in Roles |-> IF r \in SystemRoles
                     THEN [state |-> "live", grants |-> DefaultPermissions(r) \cap Guarded]
                     ELSE [state |-> "unused", grants |-> {}]]

NewMember(t, u, st, owner, rs) ==
  [state |-> "live", tenant |-> t, user |-> u, status |-> st, owner |-> owner, roles |-> rs]

\* The next row of tenant_memberships.
NextRow(m) == members[m] = NoRow /\ \A k \in Rows : k < m => members[k] # NoRow

CreateTenant(t, u) ==
  /\ tenants[t] = "absent"
  /\ \E m \in Rows :
       /\ NextRow(m)
       /\ members' = [members EXCEPT ![m] = NewMember(t, u, "ACTIVE", TRUE, {"owner"})]
  /\ tenants' = [tenants EXCEPT ![t] = "ACTIVE"]
  /\ roles' = [roles EXCEPT ![t] = SeededRoles]
  /\ UNCHANGED <<wsReq, wsServed, wsRaced, wsStripped>>

-----------------------------------------------------------------------------
(***************************************************************************)
(* The routes, up to their first write.  u acts in workspace t.            *)
(***************************************************************************)

WsBegin(c, request) ==
  /\ wsReq[c] = idle
  /\ wsServed < MaxRequests
  /\ wsServed' = wsServed + 1
  /\ wsReq' = [wsReq EXCEPT ![c] = request]
  /\ UNCHANGED <<tenants, members, roles, wsRaced, wsStripped>>

\* POST /members: the account is not a member yet and the roles exist.
AddMember(c, u, t, user, a) ==
  /\ Permitted(u, t, <<"user", "create">>)
  /\ MembershipsOf(user, t) = {}
  /\ a.roles \subseteq LiveRoles(t)
  /\ WsBegin(c, [op |-> "add", tenant |-> t, user |-> user, status |-> a.status,
                 roles |-> a.roles])

\* Mutant: get_by_id_in_tenant forgets the workspace.
Addressed_AnyTenant(m, t) == LiveMember(m)

\* get_by_id_in_tenant
Addressed(m, t) == m \in MembersOf(t)

\* Whether the update takes an ownership away, as far as the loaded row tells.
LosingOwnership(m, a) ==
  members[m].owner /\ (a.owner = "no" \/ a.status \notin {"keep", "ACTIVE"})

\* Mutant: an off-by-one in the count of owners.
LastOwnerKept_AnyOwner(t, losing) == losing => Cardinality(Owners(t)) > 0

\* LAST_OWNER_PROTECTED
LastOwnerKept(t, losing) == losing => Cardinality(Owners(t)) > 1

\* PATCH /members/{id}: only the columns that differ from the loaded row
\* will be written; an empty role list is no role list.
UpdateMember(c, u, t, m, a) ==
  /\ Permitted(u, t, <<"user", "update">>)
  /\ Addressed(m, t)
  /\ LastOwnerKept(t, LosingOwnership(m, a))
  /\ a.roles \subseteq LiveRoles(t)
  /\ WsBegin(c, [op |-> "update", tenant |-> t, row |-> m,
                 status |-> IF a.status = members[m].status THEN "keep" ELSE a.status,
                 owner |-> IF (a.owner = "yes") = members[m].owner THEN "keep" ELSE a.owner,
                 roles |-> a.roles, guarded |-> LosingOwnership(m, a), late |-> FALSE])

\* DELETE /members/{id}
RemoveMember(c, u, t, m) ==
  /\ Permitted(u, t, <<"user", "delete">>)
  /\ Addressed(m, t)
  /\ LastOwnerKept(t, members[m].owner)
  /\ WsBegin(c, [op |-> "remove", tenant |-> t, row |-> m, guarded |-> members[m].owner])

\* POST /roles
CreateRole(c, u, t, r, codes) ==
  /\ Permitted(u, t, <<"role", "create">>)
  /\ roles[t][r].state = "unused"
  /\ WsBegin(c, [op |-> "createRole", tenant |-> t, role |-> r, grants |-> codes,
                 late |-> FALSE])

\* SYSTEM_ROLE_IMMUTABLE
Editable(t, r) == r \in LiveRoles(t) /\ r \notin SystemRoles

\* PATCH /roles/{id}
UpdateRole(c, u, t, r, codes) ==
  /\ Permitted(u, t, <<"role", "update">>)
  /\ Editable(t, r)
  /\ WsBegin(c, [op |-> "updateRole", tenant |-> t, role |-> r, grants |-> codes,
                 late |-> FALSE])

\* Mutant: nobody counts the members who hold the role.
RoleFree_Unchecked(t, r) == r \in LiveRoles(t)

\* ROLE_IN_USE
RoleFree(t, r) == Holders(t, r) = {}

\* DELETE /roles/{id}
DeleteRole(c, u, t, r) ==
  /\ Permitted(u, t, <<"role", "delete">>)
  /\ Editable(t, r)
  /\ RoleFree(t, r)
  /\ WsBegin(c, [op |-> "deleteRole", tenant |-> t, role |-> r])

\* PATCH /tenants/{id}: there is no way back from a status that is not ACTIVE.
UpdateTenant(c, u, t, st) ==
  /\ Permitted(u, t, <<"tenant", "update">>)
  /\ WsBegin(c, [op |-> "tenant", tenant |-> t, status |-> st])

-----------------------------------------------------------------------------
(***************************************************************************)
(* The commits.                                                            *)
(***************************************************************************)

WsDone(c) == [wsReq EXCEPT ![c] = idle]

\* replace_for_membership and replace_for_role delete what they see, then
\* insert.  A DELETE that ran before another request committed its own rows
\* leaves those in place (and fails on a row that is in both lists).
Replacements(current, new, late) ==
  {new} \cup (IF late /\ current \cap new = {} THEN {current \cup new} ELSE {})

\* The other requests under way that are about to replace the same rows.
MarkLate(c, others) ==
  [d \in Clients |-> IF d = c THEN idle
                     ELSE IF d \in others THEN [wsReq[d] EXCEPT !.late = TRUE]
                     ELSE wsReq[d]]

\* Mutant: without the foreign key of membership_roles.role_id.
ForeignKey_None(t, rs) == TRUE

\* membership_roles.role_id references roles
ForeignKey(t, rs) == rs \subseteq LiveRoles(t)

\* uq_tenant_memberships_tenant_id_user_id
UniqueMember(t, u) == MembershipsOf(u, t) = {}

\* The custom roles in rs that a request under way has found unassigned.
UnderDeletion(t, rs) ==
  {t} \X {r \in rs \cap CustomRoles :
            \E c \in Clients : wsReq[c].op = "deleteRole" /\ wsReq[c].tenant = t
                               /\ wsReq[c].role = r}

CommitAdd(c) ==
  LET q == wsReq[c] IN
  /\ q.op = "add"
  /\ UniqueMember(q.tenant, q.user)
  /\ ForeignKey(q.tenant, q.roles)
  /\ \E m \in Rows :
       /\ NextRow(m)
       /\ members' = [members EXCEPT
                        ![m] = NewMember(q.tenant, q.user, q.status, FALSE, q.roles)]
  /\ wsStripped' = wsStripped \cup UnderDeletion(q.tenant, q.roles)
  /\ wsReq' = WsDone(c)
  /\ UNCHANGED <<tenants, roles, wsServed, wsRaced>>

\* Ownership has been lost although no guard saw it, or saw it alone.
OwnerRace(c, t, m) ==
  /\ m \in Owners(t)
  /\ \/ ~wsReq[c].guarded
     \/ \E d \in Clients \ {c} : /\ wsReq[d].op \in {"update", "remove"}
                                 /\ wsReq[d].tenant = t
                                 /\ wsReq[d].guarded

UpdatedRow(m, q, rs) ==
  [members[m] EXCEPT !.status = IF q.status = "keep" THEN @ ELSE q.status,
                     !.owner  = IF q.owner = "keep" THEN @ ELSE q.owner = "yes",
                     !.roles  = rs]

\* A row deleted meanwhile fails the UPDATE, or the foreign key.
CommitUpdate(c) ==
  LET q == wsReq[c] IN
  /\ q.op = "update"
  /\ LiveMember(q.row)
  /\ ForeignKey(q.tenant, q.roles)
  /\ \E rs \in IF q.roles = {} THEN {members[q.row].roles}
               ELSE Replacements(members[q.row].roles, q.roles, q.late) :
       /\ members' = [members EXCEPT ![q.row] = UpdatedRow(q.row, q, rs)]
       /\ wsRaced' = IF /\ OwnerRace(c, q.tenant, q.row)
                        /\ \/ q.owner = "no"
                           \/ q.status \notin {"keep", "ACTIVE"}
                     THEN wsRaced \cup {q.tenant} ELSE wsRaced
  /\ wsStripped' = wsStripped \cup UnderDeletion(q.tenant, q.roles)
  /\ wsReq' = IF q.roles = {} THEN WsDone(c)
              ELSE MarkLate(c, {d \in Clients : /\ wsReq[d].op = "update"
                                                /\ wsReq[d].row = q.row
                                                /\ wsReq[d].roles # {}})
  /\ UNCHANGED <<tenants, roles, wsServed>>

\* A row that somebody else has deleted is only worth a warning.
CommitRemove(c) ==
  LET q == wsReq[c] IN
  /\ q.op = "remove"
  /\ members' = [members EXCEPT ![q.row] = GoneRow]
  /\ wsRaced' = IF OwnerRace(c, q.tenant, q.row)
                THEN wsRaced \cup {q.tenant} ELSE wsRaced
  /\ wsReq' = WsDone(c)
  /\ UNCHANGED <<tenants, roles, wsServed, wsStripped>>

\* uq_roles_tenant_id_slug
CommitCreateRole(c) ==
  LET q == wsReq[c] IN
  /\ q.op = "createRole"
  /\ roles[q.tenant][q.role].state = "unused"
  /\ roles' = [roles EXCEPT ![q.tenant][q.role] = [state |-> "live", grants |-> q.grants]]
  /\ wsReq' = WsDone(c)
  /\ UNCHANGED <<tenants, members, wsServed, wsRaced, wsStripped>>

CommitUpdateRole(c) ==
  LET q == wsReq[c] IN
  /\ q.op = "updateRole"
  /\ q.role \in LiveRoles(q.tenant)
  /\ \E codes \in Replacements(roles[q.tenant][q.role].grants, q.grants, q.late) :
       roles' = [roles EXCEPT ![q.tenant][q.role].grants = codes]
  /\ wsReq' = MarkLate(c, {d \in Clients : /\ wsReq[d].op = "updateRole"
                                           /\ wsReq[d].tenant = q.tenant
                                           /\ wsReq[d].role = q.role})
  /\ UNCHANGED <<tenants, members, wsServed, wsRaced, wsStripped>>

\* ON DELETE CASCADE takes the assignments made meanwhile.
CommitDeleteRole(c) ==
  LET q == wsReq[c] IN
  /\ q.op = "deleteRole"
  /\ roles' = [roles EXCEPT ![q.tenant][q.role] = [state |-> "deleted", grants |-> {}]]
  /\ members' = [m \in Rows |-> IF m \in MembersOf(q.tenant)
                                  THEN [members[m] EXCEPT !.roles = @ \ {q.role}]
                                  ELSE members[m]]
  /\ wsReq' = WsDone(c)
  /\ UNCHANGED <<tenants, wsServed, wsRaced, wsStripped>>

CommitTenant(c) ==
  LET q == wsReq[c] IN
  /\ q.op = "tenant"
  /\ tenants' = [tenants EXCEPT ![q.tenant] = q.status]
  /\ wsReq' = WsDone(c)
  /\ UNCHANGED <<members, roles, wsServed, wsRaced, wsStripped>>

\* A key is violated, a row is stale, or the connection is lost.
WsRollback(c) ==
  /\ wsReq[c] # idle
  /\ wsReq' = WsDone(c)
  /\ UNCHANGED <<tenants, members, roles, wsServed, wsRaced, wsStripped>>

-----------------------------------------------------------------------------
WorkspacesInit ==
  /\ tenants = [t \in Tenants |-> "absent"]
  /\ members = [m \in Rows |-> NoRow]
  /\ roles = [t \in Tenants |-> [r \in Roles |-> [state |-> "unused", grants |-> {}]]]
  /\ wsReq = [c \in Clients |-> idle]
  /\ wsServed = 0
  /\ wsRaced = {}
  /\ wsStripped = {}

WsCommit(c) ==
  \/ CommitAdd(c)
  \/ CommitUpdate(c)
  \/ CommitRemove(c)
  \/ CommitCreateRole(c)
  \/ CommitUpdateRole(c)
  \/ CommitDeleteRole(c)
  \/ CommitTenant(c)
  \/ WsRollback(c)

MemberRoute(c, u, t) ==
  \/ \E user \in Users, a \in Additions : AddMember(c, u, t, user, a)
  \/ \E m \in Rows, a \in Changes : UpdateMember(c, u, t, m, a)
  \/ \E m \in Rows : RemoveMember(c, u, t, m)

RoleRoute(c, u, t) ==
  \/ \E r \in CustomRoles, codes \in GrantChoices : CreateRole(c, u, t, r, codes)
  \/ \E r \in Roles, codes \in GrantChoices : UpdateRole(c, u, t, r, codes)
  \/ \E r \in Roles : DeleteRole(c, u, t, r)

WorkspacesNext ==
  \/ \E t \in Tenants, u \in Users : CreateTenant(t, u)
  \/ \E c \in Clients, u \in Users, t \in Tenants : MemberRoute(c, u, t)
  \/ \E c \in Clients, u \in Users, t \in Tenants : RoleRoute(c, u, t)
  \/ \E c \in Clients, u \in Users, t \in Tenants, st \in TenantStatuses :
       UpdateTenant(c, u, t, st)
  \/ \E c \in Clients : WsCommit(c)

WorkspacesSpec == WorkspacesInit /\ [][WorkspacesNext]_wsVars

-----------------------------------------------------------------------------
\* The route promises "The workspace's last active owner cannot be demoted,
\* suspended or removed, so a workspace can never be left without one".  It
\* holds as long as no two requests that take an ownership away overlap, and
\* nobody becomes an owner behind the back of one that did not look.
OwnerRemains ==
  \A t \in Tenants : tenants[t] # "absent" /\ t \notin wsRaced => Owners(t) # {}

\* Nobody holds a role that is deleted, not yet there, or of another
\* workspace, also when the role goes while it is being assigned.
HeldRolesAreOwn ==
  \A t \in Tenants : \A m \in MembersOf(t) : members[m].roles \subseteq LiveRoles(t)

\* c commits, or gives up.
Ends(c) == wsReq[c] # idle /\ wsReq'[c] = idle

\* A membership is changed only by a request whose caller was let into that
\* membership's own workspace; its id alone gives no access.
OwnWorkspaceOnly ==
  [][\A m \in Rows :
       LiveMember(m) /\ members'[m] # members[m] =>
         \E c \in Clients : Ends(c) /\ wsReq[c].tenant = members[m].tenant]_wsVars

\* Deleting a role "would silently strip permissions from those members", so a
\* member loses a role only to an update of its own roles, except a role that
\* was assigned while its deletion was under way.
NoSilentStripping ==
  [][\A m \in Rows, r \in Roles :
       /\ LiveMember(m) /\ r \in members[m].roles
       /\ members'[m].state = "live" /\ r \notin members'[m].roles
       => \/ <<members[m].tenant, r>> \in wsStripped
          \/ \E c \in Clients : /\ Ends(c) /\ wsReq[c].op = "update"
                                /\ wsReq[c].row = m /\ wsReq[c].roles # {}]_wsVars
=============================================================================
