---------------------------- MODULE IdentityProofs ----------------------------
(***************************************************************************)
(* What TLAPS proves of the two modules about who somebody is: the         *)
(* passwords of the accounts, and the members of the workspaces.           *)
(***************************************************************************)
EXTENDS Accounts, Workspaces, TLAPS, FiniteSetTheorems

-----------------------------------------------------------------------------
(***************************************************************************)
(* Passwords.  A login that will rehash carries the password it verified,  *)
(* and that stays the chosen one until a change commits beside it.         *)
(***************************************************************************)
LoginInv ==
  /\ AccountsTypeOK
  /\ PasswordStands
  /\ \A c \in Clients : authReq[c].op = "login" => Registered(authReq[c].email)
  /\ \A c \in Clients :
       /\ authReq[c].op = "login" /\ authReq[c].rehash
       /\ authReq[c].email \notin rehashed
       => authReq[c].password = chosen[authReq[c].email]

LEMMA LoginInit == AccountsInit => LoginInv
<1> SUFFICES ASSUME AccountsInit PROVE LoginInv
  OBVIOUS
<1>1. 0 \in 0..MaxAuthRequests
  BY AccountsAssumption
<1>2. cost \in Costs /\ NoAccount.cost \in Costs
  BY DEF AccountsInit, NoAccount
<1>3. AccountsTypeOK
  BY <1>1, <1>2 DEF AccountsInit, AccountsTypeOK, AccountRows, NoAccount
<1> QED BY <1>3 DEF AccountsInit, LoginInv, PasswordStands, NoAccount, idle

\* Every request that begins says what it has found to be true.
LEMMA LoginBegins ==
  ASSUME LoginInv, NEW c \in Clients, NEW e \in Emails, AuthRoute(c, e)
  PROVE  LoginInv'
<1>1. PICK q \in AuthRequests :
        /\ AuthBegin(c, q)
        /\ q.op = "login" => Registered(q.email) /\ accounts[q.email].password = q.password
  <2>1. ASSUME NEW p \in Passwords, RegisterUser(c, e, p)
        PROVE  \E q \in AuthRequests : AuthBegin(c, q) /\ q.op # "login"
    <3> DEFINE q == [op |-> "register", email |-> e, password |-> p]
    <3>1. q \in AuthRequests BY DEF AuthRequests
    <3>2. AuthBegin(c, q) /\ q.op # "login" BY <2>1 DEF RegisterUser
    <3> QED BY <3>1, <3>2
  <2>2. ASSUME NEW p \in Passwords, Authenticate(c, e, p)
        PROVE  \E q \in AuthRequests :
                 /\ AuthBegin(c, q) /\ Registered(q.email)
                 /\ accounts[q.email].password = q.password
    <3> DEFINE q == [op |-> "login", email |-> e, password |-> p, rehash |-> NeedsRehash(e)]
    <3>1. q \in AuthRequests BY DEF AuthRequests, NeedsRehash
    <3>2. AuthBegin(c, q) /\ Registered(q.email) /\ accounts[q.email].password = q.password
      BY <2>2 DEF Authenticate, Verify
    <3> QED BY <3>1, <3>2
  <2>3. ASSUME NEW old \in Passwords, NEW new \in Passwords, ChangePassword(c, e, old, new)
        PROVE  \E q \in AuthRequests : AuthBegin(c, q) /\ q.op # "login"
    <3> DEFINE q == [op |-> "change", email |-> e, password |-> new]
    <3>1. q \in AuthRequests BY DEF AuthRequests
    <3>2. AuthBegin(c, q) /\ q.op # "login" BY <2>3 DEF ChangePassword
    <3> QED BY <3>1, <3>2
  <2> QED BY <2>1, <2>2, <2>3 DEF AuthRoute
<1>2. /\ authReq' = [authReq EXCEPT ![c] = q]
      /\ UNCHANGED <<accounts, cost, chosen, rehashed>>
      /\ authServed' \in 0..MaxAuthRequests
  BY <1>1, AccountsAssumption DEF AuthBegin, LoginInv, AccountsTypeOK
<1>3. AccountsTypeOK'
  BY <1>2 DEF LoginInv, AccountsTypeOK
<1>4. PasswordStands'
  BY <1>2 DEF LoginInv, PasswordStands
<1>5. q.op = "login" => q.email \in Emails
  BY DEF AuthRequests
<1> QED
  BY <1>1, <1>2, <1>3, <1>4, <1>5 DEF LoginInv, AccountsTypeOK, PasswordStands, Registered

LEMMA LoginCommits ==
  ASSUME LoginInv, NEW c \in Clients, AuthCommit(c)
  PROVE  LoginInv'
<1> DEFINE q == authReq[c]
<1>0. /\ authReq \in [Clients -> AuthRequests \cup {idle}] /\ cost \in Costs
      /\ accounts \in [Emails -> AccountRows] /\ chosen \in [Emails -> Passwords \cup {NoPassword}]
  BY DEF LoginInv, AccountsTypeOK
<1>1. /\ authReq' = [authReq EXCEPT ![c] = idle] /\ UNCHANGED <<authServed, cost>>
  BY DEF AuthCommit, CommitRegister, CommitLogin, CommitChange, AuthRollback, AuthEnd
<1>2. \A d \in Clients : authReq'[d].op = "login" => d # c /\ authReq'[d] = authReq[d]
  BY <1>0, <1>1 DEF idle
<1>q. q \in AuthRequests /\ q # idle
  BY <1>0 DEF AuthCommit, CommitRegister, CommitLogin, CommitChange, AuthRollback, idle
<1>3. q.email \in Emails /\ q.password \in Passwords
  BY <1>q DEF AuthRequests
<1>n. q.password # NoPassword
  BY <1>3, AccountsAssumption
<1>f. ASSUME accounts' \in [Emails -> AccountRows],
             chosen' \in [Emails -> Passwords \cup {NoPassword}], rehashed' \subseteq Emails
      PROVE  AccountsTypeOK'
  BY <1>1, <1>f DEF LoginInv, AccountsTypeOK
<1>4. CASE CommitRegister(c)
  <2>1. /\ ~Registered(q.email) /\ accounts' = Stored(q.email, q.password)
        /\ chosen' = [chosen EXCEPT ![q.email] = q.password] /\ rehashed' = rehashed
    BY <1>4 DEF CommitRegister
  <2>2. AccountsTypeOK'
    BY <1>0, <1>3, <1>f, <2>1 DEF Stored, AccountRows, LoginInv, AccountsTypeOK
  <2>3. PasswordStands'
    BY <1>0, <1>3, <2>1 DEF Stored, LoginInv, PasswordStands
  <2>4. \A d \in Clients : authReq[d].op = "login" => authReq[d].email # q.email
    BY <2>1 DEF LoginInv
  <2>5. \A d \in Clients : authReq[d].op = "login" => authReq[d].email \in Emails
    BY <1>0 DEF AuthRequests, idle
  <2>6. \A x \in Emails : x # q.email => accounts'[x] = accounts[x] /\ chosen'[x] = chosen[x]
    BY <1>0, <2>1 DEF Stored
  <2> QED BY <1>2, <2>1, <2>2, <2>3, <2>4, <2>5, <2>6 DEF LoginInv, Registered
<1>5. CASE CommitLogin(c)
  <2>1. /\ q.op = "login"
        /\ accounts' = IF q.rehash THEN [accounts EXCEPT ![q.email].password = q.password,
                                                         ![q.email].cost = cost]
                       ELSE accounts
        /\ UNCHANGED <<chosen, rehashed>>
    BY <1>5 DEF CommitLogin
  <2>2. AccountsTypeOK'
    BY <1>0, <1>3, <1>f, <2>1 DEF AccountRows, LoginInv, AccountsTypeOK
  <2>3. \A x \in Emails : /\ x # q.email \/ ~q.rehash => accounts'[x] = accounts[x]
                          /\ x = q.email /\ q.rehash => accounts'[x].password = q.password
    BY <1>0, <2>1 DEF AccountRows
  <2>4. PasswordStands'
    BY <2>1, <2>3 DEF LoginInv, PasswordStands
  <2>5. \A d \in Clients : authReq[d].op = "login" => authReq[d].email \in Emails
    BY <1>0 DEF AuthRequests, idle
  <2>6. \A d \in Clients : authReq'[d].op = "login" => accounts'[authReq'[d].email].password # NoPassword
    BY <1>2, <1>n, <2>3, <2>5 DEF LoginInv, Registered
  <2> QED BY <1>2, <2>1, <2>2, <2>4, <2>6 DEF LoginInv, Registered
<1>6. CASE CommitChange(c)
  <2>1. /\ accounts' = [accounts EXCEPT ![q.email].password = q.password,
                                        ![q.email].cost = cost]
        /\ chosen' = [chosen EXCEPT ![q.email] = q.password]
        /\ rehashed' = IF Rehashing(q.email) = {} THEN rehashed ELSE rehashed \cup {q.email}
        /\ q.op = "change"
    BY <1>6 DEF CommitChange
  <2>2. AccountsTypeOK'
    BY <1>0, <1>3, <1>f, <2>1 DEF AccountRows, LoginInv, AccountsTypeOK
  <2>3. \A x \in Emails : /\ x # q.email => accounts'[x] = accounts[x] /\ chosen'[x] = chosen[x]
                          /\ x = q.email => /\ accounts'[x].password = q.password
                                            /\ chosen'[x] = q.password
    BY <1>0, <2>1 DEF AccountRows
  <2>4. PasswordStands'
    BY <2>1, <2>3 DEF LoginInv, PasswordStands
  <2>5. \A d \in Clients : authReq[d].op = "login" => authReq[d].email \in Emails
    BY <1>0 DEF AuthRequests, idle
  <2>6. \A d \in Clients : authReq'[d].op = "login" => accounts'[authReq'[d].email].password # NoPassword
    BY <1>2, <1>n, <2>3, <2>5 DEF LoginInv, Registered
  <2>7. \A d \in Clients :
          authReq[d].op = "login" /\ authReq[d].rehash /\ authReq[d].email = q.email
            => q.email \in rehashed'
    BY <2>1 DEF Rehashing
  <2>8. \A d \in Clients :
          /\ authReq'[d].op = "login" /\ authReq'[d].rehash
          /\ authReq'[d].email \notin rehashed'
          => authReq'[d].password = chosen'[authReq'[d].email]
    BY <1>2, <2>1, <2>3, <2>5, <2>7 DEF LoginInv
  <2> QED BY <2>2, <2>4, <2>6, <2>8 DEF LoginInv, Registered
<1>7. CASE AuthRollback(c)
  <2>1. UNCHANGED <<accounts, chosen, rehashed>>
    BY <1>7 DEF AuthRollback
  <2>2. AccountsTypeOK'
    BY <1>0, <1>f, <2>1 DEF LoginInv, AccountsTypeOK
  <2> QED BY <1>2, <2>1, <2>2 DEF LoginInv, PasswordStands, Registered
<1> QED BY <1>4, <1>5, <1>6, <1>7 DEF AuthCommit

LEMMA LoginStep == LoginInv /\ [AccountsNext]_authVars => LoginInv'
<1> SUFFICES ASSUME LoginInv, [AccountsNext]_authVars
             PROVE  LoginInv'
  OBVIOUS
<1>1. ASSUME NEW x \in Costs, ConfigureCost(x)
      PROVE  LoginInv'
  BY <1>1 DEF ConfigureCost, LoginInv, AccountsTypeOK, PasswordStands, Registered
<1>2. ASSUME NEW e \in Emails, NEW value \in BOOLEAN, SetUserActive(e, value)
      PROVE  LoginInv'
  <2>1. /\ accounts' = [accounts EXCEPT ![e].active = value]
        /\ UNCHANGED <<cost, authReq, authServed, chosen, rehashed>>
    BY <1>2 DEF SetUserActive
  <2>2. /\ accounts' \in [Emails -> AccountRows]
        /\ \A x \in Emails : accounts'[x].password = accounts[x].password
    BY <2>1 DEF LoginInv, AccountsTypeOK, AccountRows
  <2>3. \A c \in Clients : authReq[c].op = "login" => authReq[c].email \in Emails
    BY DEF LoginInv, AccountsTypeOK, AuthRequests, idle
  <2> QED BY <2>1, <2>2, <2>3 DEF LoginInv, AccountsTypeOK, PasswordStands, Registered
<1>3. CASE UNCHANGED authVars
  BY <1>3 DEF authVars, LoginInv, AccountsTypeOK, PasswordStands, Registered
<1> QED BY <1>1, <1>2, <1>3, LoginBegins, LoginCommits DEF AccountsNext

\* The password that opens an account is the one chosen last, for every number
\* of requests, unless a rehashing login overlapped with its change.
THEOREM PasswordsStand == AccountsSpec => []PasswordStands
<1>1. LoginInv => PasswordStands
  BY DEF LoginInv
<1> QED BY <1>1, LoginInit, LoginStep, PTL DEF AccountsSpec


\* Taken one at a time, requests leave no exception to it: the password that
\* opens an account is always the one chosen last (auth/service.py).
THEOREM SerialPasswordStands ==
  ASSUME \A c, d \in Clients : c = d
  PROVE  AccountsSpec => [](\A e \in Emails : accounts[e].password = chosen[e])
<1> DEFINE Serial == rehashed = {}
<1>1. AccountsInit => Serial
  BY DEF AccountsInit
<1>2. Serial /\ [AccountsNext]_authVars => Serial'
  <2> SUFFICES ASSUME Serial, [AccountsNext]_authVars
               PROVE  rehashed' = {}
    OBVIOUS
  <2>1. ASSUME NEW c \in Clients, CommitChange(c)
        PROVE  rehashed' = {}
    <3>1. Rehashing(authReq[c].email) = {}
      BY <2>1 DEF CommitChange, Rehashing
    <3> QED BY <2>1, <3>1 DEF CommitChange
  <2> QED
    BY <2>1 DEF AccountsNext, AuthRoute, RegisterUser, Authenticate, ChangePassword, AuthBegin,
                AuthCommit, CommitRegister, CommitLogin, AuthRollback, ConfigureCost,
                SetUserActive, authVars
<1>3. PasswordStands /\ Serial => \A e \in Emails : accounts[e].password = chosen[e]
  BY DEF PasswordStands
<1> QED BY <1>1, <1>2, <1>3, PasswordsStand, PTL DEF AccountsSpec

-----------------------------------------------------------------------------
(***************************************************************************)
(* Workspaces: types.                                                      *)
(***************************************************************************)

\* What a request carries, by its operation.
LEMMA RequestShape ==
  ASSUME NEW q \in WsRequests
  PROVE  /\ q.tenant \in Tenants /\ q # idle /\ q.op # "idle"
         /\ q.op = "add" => /\ q.user \in Users /\ q.status \in MemberStatuses
                            /\ q.roles \in SUBSET Roles
         /\ q.op = "update" => /\ q.row \in Rows /\ q.status \in MemberStatuses \cup {"keep"}
                               /\ q.owner \in {"keep", "yes", "no"} /\ q.roles \in SUBSET Roles
                               /\ q.guarded \in BOOLEAN
         /\ q.op = "remove" => q.row \in Rows /\ q.guarded \in BOOLEAN
         /\ q.op \in {"createRole", "updateRole"} =>
              q.role \in CustomRoles /\ q.grants \in SUBSET Guarded
         /\ q.op = "deleteRole" => q.role \in CustomRoles
         /\ q.op = "tenant" => q.status \in TenantStatuses
  BY DEF WsRequests, idle

LEMMA LateRequest ==
  ASSUME NEW q \in WsRequests, q.op \in {"update", "createRole", "updateRole"}
  PROVE  [q EXCEPT !.late = TRUE] \in WsRequests
<1>1. CASE q.op = "update"
  <2>1. q \in [op : {"update"}, tenant : Tenants, row : Rows,
               status : MemberStatuses \cup {"keep"}, owner : {"keep", "yes", "no"},
               roles : SUBSET Roles, guarded : BOOLEAN, late : BOOLEAN]
    BY <1>1 DEF WsRequests
  <2> QED BY <2>1 DEF WsRequests
<1>2. CASE q.op \in {"createRole", "updateRole"}
  <2>1. q \in [op : {"createRole", "updateRole"}, tenant : Tenants, role : CustomRoles,
               grants : SUBSET Guarded, late : BOOLEAN]
    BY <1>2 DEF WsRequests
  <2> QED BY <2>1 DEF WsRequests
<1> QED BY <1>1, <1>2

\* After a commit: the requests of the others, marked late or not, are what
\* they were as far as anything but lateness goes.
SameRequest(q, r) ==
  /\ q.op = r.op
  /\ q # idle => q.tenant = r.tenant
  /\ q.op = "update" => /\ q.row = r.row /\ q.status = r.status /\ q.owner = r.owner
                        /\ q.roles = r.roles /\ q.guarded = r.guarded
  /\ q.op = "remove" => q.row = r.row /\ q.guarded = r.guarded
  /\ q.op = "deleteRole" => q.role = r.role

Settles(c) ==
  /\ wsReq' \in [Clients -> WsRequests \cup {idle}]
  /\ wsReq'[c] = idle
  /\ \A d \in Clients \ {c} : SameRequest(wsReq[d], wsReq'[d])

LEMMA CommitSettles ==
  ASSUME WorkspacesTypeOK, NEW c \in Clients, WsCommit(c)
  PROVE  Settles(c) /\ wsReq[c] \in WsRequests /\ wsServed' = wsServed
<1>0. wsReq \in [Clients -> WsRequests \cup {idle}]
  BY DEF WorkspacesTypeOK
<1>1. wsReq[c] \in WsRequests /\ wsServed' = wsServed
  <2>0. \A op : wsReq[c].op = op /\ op # "idle" => wsReq[c] \in WsRequests
    BY <1>0 DEF idle
  <2>1. CASE CommitAdd(c) \/ CommitUpdate(c) \/ CommitRemove(c)
    <3>1. wsReq[c].op \in {"add", "update", "remove"}
      BY <2>1 DEF CommitAdd, CommitUpdate, CommitRemove
    <3>2. wsServed' = wsServed
      BY <2>1 DEF CommitAdd, CommitUpdate, CommitRemove
    <3> QED BY <2>0, <3>1, <3>2
  <2>2. CASE CommitCreateRole(c) \/ CommitUpdateRole(c) \/ CommitDeleteRole(c)
    BY <1>0, <2>2 DEF CommitCreateRole, CommitUpdateRole, CommitDeleteRole, idle
  <2>3. CASE CommitTenant(c) \/ WsRollback(c)
    BY <1>0, <2>3 DEF CommitTenant, WsRollback, idle
  <2> QED BY <2>1, <2>2, <2>3 DEF WsCommit
<1>2. ASSUME wsReq' = WsDone(c) PROVE Settles(c)
  BY <1>0, <1>2 DEF WsDone, Settles, SameRequest
<1>3. ASSUME NEW others \in SUBSET Clients, wsReq' = MarkLate(c, others),
             \A d \in others : wsReq[d].op \in {"update", "updateRole"}
      PROVE  Settles(c)
  <2>1. \A d \in others : wsReq[d] \in WsRequests
    BY <1>0, <1>3 DEF idle
  <2>2. \A d \in others : [wsReq[d] EXCEPT !.late = TRUE] \in WsRequests
    BY <1>3, <2>1, LateRequest
  <2>3. wsReq' \in [Clients -> WsRequests \cup {idle}]
    BY <1>0, <1>3, <2>2 DEF MarkLate
  <2>4. ASSUME NEW d \in others, d # c
        PROVE  SameRequest(wsReq[d], wsReq'[d])
    <3>1. wsReq'[d] = [wsReq[d] EXCEPT !.late = TRUE]
      BY <1>3, <2>4 DEF MarkLate
    <3>2. CASE wsReq[d].op = "update"
      <4>1. wsReq[d] \in [op : {"update"}, tenant : Tenants, row : Rows,
               status : MemberStatuses \cup {"keep"}, owner : {"keep", "yes", "no"},
               roles : SUBSET Roles, guarded : BOOLEAN, late : BOOLEAN]
        BY <2>1, <3>2 DEF WsRequests
      <4> QED BY <3>1, <3>2, <4>1 DEF SameRequest
    <3>3. CASE wsReq[d].op = "updateRole"
      <4>1. wsReq[d] \in [op : {"createRole", "updateRole"}, tenant : Tenants,
               role : CustomRoles, grants : SUBSET Guarded, late : BOOLEAN]
        BY <2>1, <3>3 DEF WsRequests
      <4> QED BY <3>1, <3>3, <4>1 DEF SameRequest
    <3> QED BY <1>3, <3>2, <3>3
  <2>5. \A d \in Clients \ others : d # c => SameRequest(wsReq[d], wsReq'[d])
    BY <1>3 DEF MarkLate, SameRequest
  <2> QED BY <1>3, <2>3, <2>4, <2>5 DEF Settles, MarkLate
<1>4. ASSUME CommitUpdate(c) PROVE Settles(c)
  <2> DEFINE others == {d \in Clients : /\ wsReq[d].op = "update"
                                        /\ wsReq[d].row = wsReq[c].row
                                        /\ wsReq[d].roles # {}}
  <2>1. wsReq' = WsDone(c) \/ wsReq' = MarkLate(c, others)
    BY <1>4 DEF CommitUpdate
  <2>2. \A d \in others : wsReq[d].op \in {"update", "updateRole"}
    OBVIOUS
  <2> HIDE DEF others
  <2>3. others \in SUBSET Clients
    BY DEF others
  <2> QED BY <1>2, <1>3, <2>1, <2>2, <2>3
<1>5. ASSUME CommitUpdateRole(c) PROVE Settles(c)
  <2> DEFINE others == {d \in Clients : /\ wsReq[d].op = "updateRole"
                                        /\ wsReq[d].tenant = wsReq[c].tenant
                                        /\ wsReq[d].role = wsReq[c].role}
  <2>1. wsReq' = MarkLate(c, others)
    BY <1>5 DEF CommitUpdateRole
  <2>2. \A d \in others : wsReq[d].op \in {"update", "updateRole"}
    OBVIOUS
  <2> HIDE DEF others
  <2>3. others \in SUBSET Clients
    BY DEF others
  <2> QED BY <1>3, <2>1, <2>2, <2>3
<1>6. ASSUME ~CommitUpdate(c), ~CommitUpdateRole(c) PROVE Settles(c)
  <2>1. wsReq' = WsDone(c)
    BY <1>6 DEF WsCommit, CommitAdd, CommitRemove, CommitCreateRole, CommitDeleteRole,
       CommitTenant, WsRollback
  <2> QED BY <1>2, <2>1
<1>7. Settles(c)
  BY <1>4, <1>5, <1>6
<1> QED BY <1>1, <1>7

\* A row that is in the table is one of MemberRows, and its columns are typed.
LEMMA LiveRowShape ==
  ASSUME WorkspacesTypeOK, NEW m \in Rows, LiveMember(m)
  PROVE  /\ members[m] \in MemberRows /\ members[m].tenant \in Tenants
         /\ members[m].user \in Users /\ members[m].status \in MemberStatuses
         /\ members[m].owner \in BOOLEAN /\ members[m].roles \in SUBSET Roles
  BY DEF WorkspacesTypeOK, LiveMember, MemberRows, NoRow, GoneRow

LEMMA WsBeginType ==
  ASSUME WorkspacesTypeOK, NEW c \in Clients, NEW q \in WsRequests, WsBegin(c, q)
  PROVE  WorkspacesTypeOK'
<1>1. wsServed' \in 0..MaxRequests
  BY WorkspacesAssumption DEF WorkspacesTypeOK, WsBegin
<1> QED BY <1>1 DEF WorkspacesTypeOK, WsBegin

\* Every route begins a request that is well formed, on a workspace that is
\* there and, for a membership, on one of its own rows; a guarded one has seen
\* two owners.
LEMMA RouteBegins ==
  ASSUME WorkspacesTypeOK, NEW c \in Clients, NEW u \in Users, NEW t \in Tenants,
         \/ MemberRoute(c, u, t) \/ RoleRoute(c, u, t)
         \/ \E st \in TenantStatuses : UpdateTenant(c, u, t, st)
  PROVE  \E q \in WsRequests :
           /\ WsBegin(c, q)
           /\ q.tenant = t /\ tenants[t] # "absent"
           /\ q.op \in {"update", "remove"} =>
                /\ q.row \in MembersOf(t)
                /\ q.guarded => Cardinality(Owners(t)) > 1
           /\ q.op = "deleteRole" => Holders(t, q.role) = {}
<1> DEFINE Begun(q) == /\ WsBegin(c, q)
                       /\ q.tenant = t /\ tenants[t] # "absent"
                       /\ q.op \in {"update", "remove"} =>
                            /\ q.row \in MembersOf(t)
                            /\ q.guarded => Cardinality(Owners(t)) > 1
                       /\ q.op = "deleteRole" => Holders(t, q.role) = {}
<1>0. ASSUME NEW p, Permitted(u, t, p) PROVE tenants[t] # "absent"
  BY <1>0 DEF Permitted, HasContext
<1>1. ASSUME NEW user \in Users, NEW a \in Additions, AddMember(c, u, t, user, a)
      PROVE  \E q \in WsRequests : Begun(q)
  <2> DEFINE q == [op |-> "add", tenant |-> t, user |-> user, status |-> a.status,
                   roles |-> a.roles]
  <2>1. a.status \in MemberStatuses /\ a.roles \in SUBSET Roles
    BY WorkspacesAssumption
  <2>2. q \in WsRequests
    BY <2>1 DEF WsRequests
  <2>3. Begun(q)
    BY <1>0, <1>1 DEF AddMember
  <2> QED BY <2>2, <2>3
<1>2. ASSUME NEW m \in Rows, NEW a \in Changes, UpdateMember(c, u, t, m, a)
      PROVE  \E q \in WsRequests : Begun(q)
  <2> DEFINE q == [op |-> "update", tenant |-> t, row |-> m,
                   status |-> IF a.status = members[m].status THEN "keep" ELSE a.status,
                   owner |-> IF (a.owner = "yes") = members[m].owner THEN "keep" ELSE a.owner,
                   roles |-> a.roles, guarded |-> LosingOwnership(m, a), late |-> FALSE]
  <2>1. /\ a.status \in MemberStatuses \cup {"keep"} /\ a.owner \in {"keep", "yes", "no"}
        /\ a.roles \in SUBSET Roles
    BY WorkspacesAssumption
  <2>2. m \in MembersOf(t) /\ members[m].owner \in BOOLEAN
    BY <1>2, LiveRowShape DEF UpdateMember, Addressed, MembersOf
  <2>3. q \in WsRequests
    BY <2>1, <2>2 DEF WsRequests, LosingOwnership
  <2>4. Begun(q)
    BY <1>0, <1>2, <2>2 DEF UpdateMember, LastOwnerKept
  <2> QED BY <2>3, <2>4
<1>3. ASSUME NEW m \in Rows, RemoveMember(c, u, t, m)
      PROVE  \E q \in WsRequests : Begun(q)
  <2> DEFINE q == [op |-> "remove", tenant |-> t, row |-> m, guarded |-> members[m].owner]
  <2>1. m \in MembersOf(t) /\ members[m].owner \in BOOLEAN
    BY <1>3, LiveRowShape DEF RemoveMember, Addressed, MembersOf
  <2>2. q \in WsRequests
    BY <2>1 DEF WsRequests
  <2>3. Begun(q)
    BY <1>0, <1>3, <2>1 DEF RemoveMember, LastOwnerKept
  <2> QED BY <2>2, <2>3
<1>4. ASSUME NEW r \in CustomRoles, NEW codes \in GrantChoices, CreateRole(c, u, t, r, codes)
      PROVE  \E q \in WsRequests : Begun(q)
  <2> DEFINE q == [op |-> "createRole", tenant |-> t, role |-> r, grants |-> codes,
                   late |-> FALSE]
  <2>1. q \in WsRequests
    BY WorkspacesAssumption DEF WsRequests
  <2>2. Begun(q)
    BY <1>0, <1>4 DEF CreateRole
  <2> QED BY <2>1, <2>2
<1>5. ASSUME NEW r \in Roles, NEW codes \in GrantChoices, UpdateRole(c, u, t, r, codes)
      PROVE  \E q \in WsRequests : Begun(q)
  <2> DEFINE q == [op |-> "updateRole", tenant |-> t, role |-> r, grants |-> codes,
                   late |-> FALSE]
  <2>1. r \in CustomRoles
    BY <1>5 DEF UpdateRole, Editable, Roles
  <2>2. q \in WsRequests
    BY <2>1, WorkspacesAssumption DEF WsRequests
  <2>3. Begun(q)
    BY <1>0, <1>5 DEF UpdateRole
  <2> QED BY <2>2, <2>3
<1>6. ASSUME NEW r \in Roles, DeleteRole(c, u, t, r)
      PROVE  \E q \in WsRequests : Begun(q)
  <2> DEFINE q == [op |-> "deleteRole", tenant |-> t, role |-> r]
  <2>1. r \in CustomRoles
    BY <1>6 DEF DeleteRole, Editable, Roles
  <2>2. q \in WsRequests
    BY <2>1 DEF WsRequests
  <2>3. Begun(q)
    BY <1>0, <1>6 DEF DeleteRole, RoleFree
  <2> QED BY <2>2, <2>3
<1>7. ASSUME NEW st \in TenantStatuses, UpdateTenant(c, u, t, st)
      PROVE  \E q \in WsRequests : Begun(q)
  <2> DEFINE q == [op |-> "tenant", tenant |-> t, status |-> st]
  <2>1. q \in WsRequests
    BY DEF WsRequests
  <2>2. Begun(q)
    BY <1>0, <1>7 DEF UpdateTenant
  <2> QED BY <2>1, <2>2
<1> HIDE DEF Begun
<1>8. \E q \in WsRequests : Begun(q)
  BY <1>1, <1>2, <1>3, <1>4, <1>5, <1>6, <1>7 DEF MemberRoute, RoleRoute
<1> QED BY <1>8 DEF Begun

LEMMA CreateTenantType ==
  ASSUME WorkspacesTypeOK, NEW t \in Tenants, NEW u \in Users, CreateTenant(t, u)
  PROVE  WorkspacesTypeOK'
<1>1. PICK m \in Rows :
        members' = [members EXCEPT ![m] = NewMember(t, u, "ACTIVE", TRUE, {"owner"})]
  BY DEF CreateTenant
<1>2. NewMember(t, u, "ACTIVE", TRUE, {"owner"}) \in MemberRows
  BY DEF NewMember, MemberRows, MemberStatuses, Roles, SystemRoles
<1>3. SeededRoles \in [Roles -> RoleRows]
  BY DEF SeededRoles, RoleRows
<1>4. members' \in [Rows -> MemberRows \cup {NoRow, GoneRow}]
  BY <1>1, <1>2 DEF WorkspacesTypeOK
<1>5. /\ tenants' \in [Tenants -> TenantStatuses \cup {"absent"}]
      /\ roles' \in [Tenants -> [Roles -> RoleRows]]
      /\ UNCHANGED <<wsReq, wsServed, wsRaced, wsStripped>>
  BY <1>3 DEF CreateTenant, WorkspacesTypeOK, TenantStatuses
<1> QED BY <1>4, <1>5 DEF WorkspacesTypeOK

\* What a replacement leaves is old or new.
LEMMA ReplacementsWithin ==
  ASSUME NEW current, NEW new, NEW late, NEW x \in Replacements(current, new, late)
  PROVE  x \subseteq current \cup new
  BY DEF Replacements

\* The row that an update leaves behind.
LEMMA UpdateWrites ==
  ASSUME WorkspacesTypeOK, NEW c \in Clients, CommitUpdate(c)
  PROVE  \E rs \in SUBSET Roles :
           LET q == wsReq[c]
               new == UpdatedRow(q.row, q, rs)
           IN  /\ q \in WsRequests /\ q.op = "update" /\ LiveMember(q.row) /\ q.row \in Rows
               /\ members' = [members EXCEPT ![q.row] = new]
               /\ rs \subseteq members[q.row].roles \cup q.roles
               /\ q.roles = {} => rs = members[q.row].roles
               /\ new \in MemberRows /\ new.roles = rs /\ new.state = "live"
               /\ new.tenant = members[q.row].tenant /\ new.user = members[q.row].user
               /\ (q.status \in {"keep", "ACTIVE"} /\ members[q.row].status = "ACTIVE")
                    => new.status = "ACTIVE"
               /\ (q.owner # "no" /\ members[q.row].owner) => new.owner
<1> DEFINE q == wsReq[c]
<1>1. q \in WsRequests /\ q.op = "update" /\ LiveMember(q.row)
  BY DEF CommitUpdate, WorkspacesTypeOK, idle
<1>2. q.row \in Rows /\ q.roles \in SUBSET Roles /\ q.owner \in {"keep", "yes", "no"}
  BY <1>1, RequestShape
<1>3. members[q.row] \in MemberRows /\ members[q.row].roles \in SUBSET Roles
  BY <1>1, <1>2, LiveRowShape
<1>4. PICK rs \in (IF q.roles = {} THEN {members[q.row].roles}
                   ELSE Replacements(members[q.row].roles, q.roles, q.late)) :
        members' = [members EXCEPT ![q.row] = UpdatedRow(q.row, q, rs)]
  BY DEF CommitUpdate
<1>5. rs \subseteq members[q.row].roles \cup q.roles /\ (q.roles = {} => rs = members[q.row].roles)
  BY <1>4, ReplacementsWithin
<1>6. rs \in SUBSET Roles
  BY <1>2, <1>3, <1>5
<1> DEFINE new == UpdatedRow(q.row, q, rs)
<1>7. /\ new \in MemberRows /\ new.roles = rs /\ new.state = "live"
      /\ new.tenant = members[q.row].tenant /\ new.user = members[q.row].user
      /\ q.status = "keep" => new.status = members[q.row].status
      /\ q.status # "keep" => new.status = q.status
      /\ q.owner = "keep" => new.owner = members[q.row].owner
      /\ q.owner # "keep" => new.owner = (q.owner = "yes")
  <2>1. new = [members[q.row] EXCEPT
                 !.status = IF q.status = "keep" THEN members[q.row].status ELSE q.status,
                 !.owner = IF q.owner = "keep" THEN members[q.row].owner ELSE q.owner = "yes",
                 !.roles = rs]
    BY DEF UpdatedRow
  <2>2. q.status \in MemberStatuses \cup {"keep"}
    BY <1>1, RequestShape
  <2> HIDE DEF new, q
  <2>3. new \in MemberRows /\ new.roles = rs
    BY <1>3, <1>6, <2>1, <2>2 DEF MemberRows
  <2>4. new.tenant = members[q.row].tenant /\ new.user = members[q.row].user
    BY <1>3, <2>1 DEF MemberRows
  <2>5. /\ q.status = "keep" => new.status = members[q.row].status
        /\ q.status # "keep" => new.status = q.status
    BY <1>3, <2>1 DEF MemberRows
  <2>6. /\ q.owner = "keep" => new.owner = members[q.row].owner
        /\ q.owner # "keep" => new.owner = (q.owner = "yes")
    BY <1>3, <2>1 DEF MemberRows
  <2>7. new.state = "live"
    BY <2>3 DEF MemberRows
  <2> QED BY <2>3, <2>4, <2>5, <2>6, <2>7
<1>8. /\ (q.status \in {"keep", "ACTIVE"} /\ members[q.row].status = "ACTIVE")
           => new.status = "ACTIVE"
      /\ (q.owner # "no" /\ members[q.row].owner) => new.owner
  BY <1>2, <1>7
<1> HIDE DEF q, new
<1>9. /\ q \in WsRequests /\ q.op = "update" /\ LiveMember(q.row) /\ q.row \in Rows
      /\ members' = [members EXCEPT ![q.row] = new]
      /\ rs \subseteq members[q.row].roles \cup q.roles
      /\ q.roles = {} => rs = members[q.row].roles
  BY <1>1, <1>2, <1>4, <1>5 DEF new
<1>10. /\ new \in MemberRows /\ new.roles = rs /\ new.state = "live"
       /\ new.tenant = members[q.row].tenant /\ new.user = members[q.row].user
  BY <1>7
<1> QED BY <1>6, <1>8, <1>9, <1>10 DEF q, new

LEMMA CommitType ==
  ASSUME WorkspacesTypeOK, NEW c \in Clients, WsCommit(c)
  PROVE  WorkspacesTypeOK'
<1> DEFINE q == wsReq[c]
<1>0. /\ q \in WsRequests /\ wsServed' = wsServed
      /\ wsReq' \in [Clients -> WsRequests \cup {idle}]
  BY CommitSettles DEF Settles
<1>f. ASSUME tenants' \in [Tenants -> TenantStatuses \cup {"absent"}],
             members' \in [Rows -> MemberRows \cup {NoRow, GoneRow}],
             roles' \in [Tenants -> [Roles -> RoleRows]],
             wsRaced' \subseteq Tenants, wsStripped' \subseteq Tenants \X CustomRoles
      PROVE  WorkspacesTypeOK'
  BY <1>0, <1>f DEF WorkspacesTypeOK
<1>s. q.tenant \in Tenants
  BY <1>0, RequestShape
<1>u. \A rs \in SUBSET Roles : UnderDeletion(q.tenant, rs) \subseteq Tenants \X CustomRoles
  BY <1>s DEF UnderDeletion
<1> HIDE DEF q
<1>1. CASE CommitAdd(c)
  <2>1. q.op = "add"
    BY <1>1 DEF CommitAdd, q
  <2>2. q.user \in Users /\ q.status \in MemberStatuses /\ q.roles \in SUBSET Roles
    BY <1>0, <2>1, RequestShape
  <2>3. NewMember(q.tenant, q.user, q.status, FALSE, q.roles) \in MemberRows
    BY <1>s, <2>2 DEF NewMember, MemberRows
  <2>4. PICK m \in Rows :
          members' = [members EXCEPT
                        ![m] = NewMember(q.tenant, q.user, q.status, FALSE, q.roles)]
    BY <1>1 DEF CommitAdd, q
  <2>5. members' \in [Rows -> MemberRows \cup {NoRow, GoneRow}]
    BY <2>3, <2>4 DEF WorkspacesTypeOK
  <2>6. /\ wsStripped' = wsStripped \cup UnderDeletion(q.tenant, q.roles)
        /\ UNCHANGED <<tenants, roles, wsRaced>>
    BY <1>1 DEF CommitAdd, q
  <2> QED BY <1>f, <1>u, <2>2, <2>5, <2>6 DEF WorkspacesTypeOK
<1>2. CASE CommitUpdate(c)
  <2>1. PICK rs \in SUBSET Roles :
          /\ members' = [members EXCEPT ![q.row] = UpdatedRow(q.row, q, rs)]
          /\ UpdatedRow(q.row, q, rs) \in MemberRows
    BY <1>2, UpdateWrites DEF q
  <2>2. members' \in [Rows -> MemberRows \cup {NoRow, GoneRow}]
    BY <2>1 DEF WorkspacesTypeOK
  <2>3. /\ wsStripped' = wsStripped \cup UnderDeletion(q.tenant, q.roles)
        /\ wsRaced' \in {wsRaced, wsRaced \cup {q.tenant}}
        /\ UNCHANGED <<tenants, roles>> /\ q.op = "update"
    BY <1>2 DEF CommitUpdate, q
  <2>4. q.roles \in SUBSET Roles
    BY <1>0, <2>3, RequestShape
  <2> QED BY <1>f, <1>s, <1>u, <2>2, <2>3, <2>4 DEF WorkspacesTypeOK
<1>3. CASE CommitRemove(c)
  <2>1. /\ members' = [members EXCEPT ![q.row] = GoneRow]
        /\ wsRaced' \in {wsRaced, wsRaced \cup {q.tenant}}
        /\ UNCHANGED <<tenants, roles, wsStripped>>
    BY <1>3 DEF CommitRemove, q
  <2> QED BY <1>f, <1>s, <2>1 DEF WorkspacesTypeOK
<1>4. CASE CommitCreateRole(c) \/ CommitUpdateRole(c)
  <2>1. /\ q.op \in {"createRole", "updateRole"}
        /\ UNCHANGED <<tenants, members, wsRaced, wsStripped>>
    BY <1>4 DEF CommitCreateRole, CommitUpdateRole, q
  <2>2. q.role \in Roles /\ q.grants \in SUBSET Guarded
    BY <1>0, <2>1, RequestShape DEF Roles
  <2>3. roles[q.tenant][q.role] \in RoleRows
    BY <1>s, <2>2 DEF WorkspacesTypeOK
  <2>4. roles' \in [Tenants -> [Roles -> RoleRows]]
    <3>1. CASE CommitCreateRole(c)
      <4>1. [state |-> "live", grants |-> q.grants] \in RoleRows
        BY <2>2 DEF RoleRows
      <4>2. roles' = [roles EXCEPT ![q.tenant][q.role] = [state |-> "live", grants |-> q.grants]]
        BY <3>1 DEF CommitCreateRole, q
      <4> QED BY <1>s, <2>2, <4>1, <4>2 DEF WorkspacesTypeOK
    <3>2. CASE CommitUpdateRole(c)
      <4>1. PICK codes \in Replacements(roles[q.tenant][q.role].grants, q.grants, q.late) :
              roles' = [roles EXCEPT ![q.tenant][q.role].grants = codes]
        BY <3>2 DEF CommitUpdateRole, q
      <4>2. codes \subseteq Guarded
        BY <2>2, <2>3, <4>1, ReplacementsWithin DEF RoleRows
      <4>3. [roles[q.tenant][q.role] EXCEPT !.grants = codes] \in RoleRows
        BY <2>3, <4>2 DEF RoleRows
      <4> QED BY <1>s, <2>2, <4>1, <4>3 DEF WorkspacesTypeOK
    <3> QED BY <1>4, <3>1, <3>2
  <2> QED BY <1>f, <2>1, <2>4 DEF WorkspacesTypeOK
<1>5. CASE CommitDeleteRole(c)
  <2>1. /\ q.op = "deleteRole"
        /\ roles' = [roles EXCEPT ![q.tenant][q.role] = [state |-> "deleted", grants |-> {}]]
        /\ members' = [m \in Rows |-> IF m \in MembersOf(q.tenant)
                                        THEN [members[m] EXCEPT !.roles = @ \ {q.role}]
                                        ELSE members[m]]
        /\ UNCHANGED <<tenants, wsRaced, wsStripped>>
    BY <1>5 DEF CommitDeleteRole, q
  <2>2. q.role \in Roles
    BY <1>0, <2>1, RequestShape DEF Roles
  <2>3. [state |-> "deleted", grants |-> {}] \in RoleRows
    BY DEF RoleRows
  <2>4. roles' \in [Tenants -> [Roles -> RoleRows]]
    BY <1>s, <2>1, <2>2, <2>3 DEF WorkspacesTypeOK
  <2>5. \A m \in MembersOf(q.tenant) : [members[m] EXCEPT !.roles = @ \ {q.role}] \in MemberRows
    <3> SUFFICES ASSUME NEW m \in MembersOf(q.tenant)
                 PROVE  [members[m] EXCEPT !.roles = @ \ {q.role}] \in MemberRows
      OBVIOUS
    <3>1. members[m] \in MemberRows
      BY LiveRowShape DEF MembersOf
    <3> QED BY <3>1 DEF MemberRows
  <2>6. members' \in [Rows -> MemberRows \cup {NoRow, GoneRow}]
    BY <2>1, <2>5 DEF WorkspacesTypeOK
  <2> QED BY <1>f, <2>1, <2>4, <2>6 DEF WorkspacesTypeOK
<1>6. CASE CommitTenant(c)
  <2>1. /\ q.op = "tenant" /\ tenants' = [tenants EXCEPT ![q.tenant] = q.status]
        /\ UNCHANGED <<members, roles, wsRaced, wsStripped>>
    BY <1>6 DEF CommitTenant, q
  <2>2. q.status \in TenantStatuses
    BY <1>0, <2>1, RequestShape
  <2> QED BY <1>f, <1>s, <2>1, <2>2 DEF WorkspacesTypeOK
<1>7. CASE WsRollback(c)
  BY <1>7, <1>f DEF WsRollback, WorkspacesTypeOK
<1> QED BY <1>1, <1>2, <1>3, <1>4, <1>5, <1>6, <1>7 DEF WsCommit

-----------------------------------------------------------------------------
(***************************************************************************)
(* Workspaces: what the requests under way have found stays true until     *)
(* they commit, or the history says that it has been broken.               *)
(***************************************************************************)
TwoOwners(t) == \E m, n \in Owners(t) : m # n

RequestHolds(q) ==
  /\ q.op # "idle" => tenants[q.tenant] # "absent"
  /\ q.op \in {"update", "remove"} =>
       /\ members[q.row] # NoRow
       /\ LiveMember(q.row) => members[q.row].tenant = q.tenant
       /\ q.guarded /\ q.tenant \notin wsRaced => TwoOwners(q.tenant)
  /\ q.op = "deleteRole" =>
       <<q.tenant, q.role>> \in wsStripped \/ Holders(q.tenant, q.role) = {}

\* An account is a member of a workspace at most once.
OneMembership ==
  \A m, n \in Rows :
    LiveMember(m) /\ LiveMember(n) /\ m # n =>
      members[m].tenant # members[n].tenant \/ members[m].user # members[n].user

RowsInv ==
  /\ \A m \in Rows : LiveMember(m) => tenants[members[m].tenant] # "absent"
  /\ OneMembership
  /\ HeldRolesAreOwn
  /\ OwnerRemains

MemberInv ==
  /\ WorkspacesTypeOK
  /\ RowsInv
  /\ \A c \in Clients : RequestHolds(wsReq[c])

LEMMA SeveralOwners ==
  ASSUME WorkspacesTypeOK, NEW t, Cardinality(Owners(t)) > 1
  PROVE  TwoOwners(t)
<1>1. IsFiniteSet(Owners(t))
  <2>1. IsFiniteSet(Rows) /\ Owners(t) \in SUBSET Rows
    BY WorkspacesAssumption, FS_Interval DEF Rows, Owners, MembersOf
  <2> HIDE DEF Owners
  <2> QED BY <2>1, FS_Subset
<1> HIDE DEF Owners
<1>2. Cardinality(Owners(t)) \in Nat /\ Owners(t) # {}
  BY <1>1, FS_CardinalityType, FS_EmptySet
<1>3. ~ \E x : Owners(t) = {x}
  BY <1>1, <1>2, FS_Singleton
<1> QED BY <1>2, <1>3 DEF TwoOwners

\* A request of somebody else that is still under way after a commit holds as
\* it did.
LEMMA OthersHold ==
  ASSUME MemberInv, NEW c \in Clients, Settles(c),
         \A t \in Tenants : tenants[t] # "absent" => tenants'[t] # "absent",
         \A m \in Rows : members[m] # NoRow =>
           /\ members'[m] # NoRow
           /\ members'[m].state = "live" =>
                LiveMember(m) /\ members'[m].tenant = members[m].tenant,
         wsRaced \subseteq wsRaced', wsStripped \subseteq wsStripped',
         \A d \in Clients \ {c}, t \in Tenants :
           /\ wsReq[d].op \in {"update", "remove"} /\ wsReq[d].guarded
           /\ wsReq[d].tenant = t /\ t \notin wsRaced'
           => Owners(t) \subseteq Owners(t)',
         \A d \in Clients \ {c}, t \in Tenants, r \in CustomRoles :
           /\ wsReq[d].op = "deleteRole" /\ wsReq[d].tenant = t /\ wsReq[d].role = r
           /\ Holders(t, r) = {}
           => <<t, r>> \in wsStripped' \/ Holders(t, r)' = {}
  PROVE  \A d \in Clients : RequestHolds(wsReq[d])'
<1> SUFFICES ASSUME NEW d \in Clients PROVE RequestHolds(wsReq[d])'
  OBVIOUS
<1>1. CASE d = c
  BY <1>1 DEF Settles, RequestHolds, idle
<1>2. CASE d # c
  <2> DEFINE q == wsReq[d]
             r == wsReq'[d]
  <2>1. SameRequest(q, r) /\ RequestHolds(q)
    BY <1>2 DEF Settles, MemberInv
  <2>2. CASE q.op = "idle"
    BY <2>1, <2>2 DEF SameRequest, RequestHolds
  <2>3. CASE q.op # "idle"
    <3>1. q \in WsRequests /\ q # idle
      BY <2>3 DEF MemberInv, WorkspacesTypeOK, idle
    <3>2. q.tenant \in Tenants /\ q.tenant = r.tenant /\ q.op = r.op
      BY <2>1, <3>1, RequestShape DEF SameRequest
    <3>3. r.op # "idle" => tenants'[r.tenant] # "absent"
      BY <2>1, <3>2 DEF RequestHolds
    <3>4. PICK t \in Tenants : t = q.tenant /\ t = r.tenant
      BY <3>2
    <3>5. ASSUME q.op \in {"update", "remove"}
          PROVE  /\ members'[r.row] # NoRow
                 /\ members'[r.row].state = "live" => members'[r.row].tenant = t
                 /\ r.guarded /\ t \notin wsRaced' => TwoOwners(t)'
      <4>1. q.row = r.row /\ q.guarded = r.guarded /\ q.row \in Rows
        BY <2>1, <3>1, <3>5, RequestShape DEF SameRequest
      <4>2. /\ members'[q.row] # NoRow
            /\ members'[q.row].state = "live" => members'[q.row].tenant = t
        BY <2>1, <3>4, <3>5, <4>1 DEF RequestHolds
      <4>3. ASSUME q.guarded, t \notin wsRaced' PROVE TwoOwners(t)'
        <5>1. TwoOwners(t)
          BY <2>1, <3>4, <3>5, <4>3 DEF RequestHolds
        <5>2. Owners(t) \subseteq Owners(t)'
          BY <1>2, <3>4, <3>5, <4>3
        <5> HIDE DEF q
        <5> QED BY <5>1, <5>2 DEF TwoOwners
      <4> QED BY <4>1, <4>2, <4>3
    <3>6. ASSUME q.op = "deleteRole"
          PROVE  <<t, r.role>> \in wsStripped' \/ \A x : x = r.role => Holders(t, x)' = {}
      <4>1. q.role = r.role /\ q.role \in CustomRoles
        BY <2>1, <3>1, <3>6, RequestShape DEF SameRequest
      <4>2. PICK x \in CustomRoles : x = q.role
        BY <4>1
      <4>3. <<t, x>> \in wsStripped \/ Holders(t, x) = {}
        BY <2>1, <3>4, <3>6, <4>2 DEF RequestHolds
      <4>4. <<t, x>> \in wsStripped' \/ Holders(t, x)' = {}
        BY <1>2, <3>4, <3>6, <4>2, <4>3
      <4> QED BY <4>1, <4>2, <4>4
    <3> QED BY <3>2, <3>3, <3>4, <3>5, <3>6 DEF RequestHolds, LiveMember
  <2> QED BY <2>2, <2>3
<1> QED BY <1>1, <1>2

\* The two action properties, as one step must satisfy them.
AddressedStep ==
  \A m \in Rows :
    LiveMember(m) /\ members'[m] # members[m] =>
      \E c \in Clients : Ends(c) /\ wsReq[c].tenant = members[m].tenant

StrippingStep ==
  \A m \in Rows, r \in Roles :
    /\ LiveMember(m) /\ r \in members[m].roles
    /\ members'[m].state = "live" /\ r \notin members'[m].roles
    => \/ <<members[m].tenant, r>> \in wsStripped
       \/ \E c \in Clients : /\ Ends(c) /\ wsReq[c].op = "update"
                             /\ wsReq[c].row = m /\ wsReq[c].roles # {}

MemberStep == MemberInv' /\ AddressedStep /\ StrippingStep

\* A row that did not exist appears, of an account that is no member yet, with
\* roles that the workspace has; nothing else changes that a request relies on.
LEMMA RowAdded ==
  ASSUME MemberInv, WorkspacesTypeOK', NEW m \in Rows, NEW row \in MemberRows,
         members[m] = NoRow, members' = [members EXCEPT ![m] = row],
         MembershipsOf(row.user, row.tenant) = {},
         tenants'[row.tenant] # "absent",
         row.roles \subseteq LiveRoles(row.tenant)',
         \A t \in Tenants : /\ tenants[t] # "absent" => tenants'[t] # "absent"
                            /\ MembersOf(t) # {} => LiveRoles(t) \subseteq LiveRoles(t)'
                            /\ \/ tenants'[t] = tenants[t] \/ Owners(t)' # {},
         wsRaced' = wsRaced
  PROVE  RowsInv' /\ AddressedStep /\ StrippingStep
<1>0. /\ members \in [Rows -> MemberRows \cup {NoRow, GoneRow}] /\ ~LiveMember(m)
      /\ row.state = "live" /\ row.tenant \in Tenants
  BY DEF MemberInv, WorkspacesTypeOK, LiveMember, NoRow, MemberRows
<1>1. members'[m] = row /\ \A n \in Rows \ {m} : members'[n] = members[n]
  BY <1>0
<1>2. \A n \in Rows : LiveMember(n) => members[n].tenant \in Tenants
  BY LiveRowShape DEF MemberInv
<1>3. \A n \in Rows : LiveMember(n)' => tenants'[members'[n].tenant] # "absent"
  BY <1>0, <1>1, <1>2 DEF MemberInv, RowsInv, LiveMember
<1>4. OneMembership'
  <2>1. \A n \in Rows : LiveMember(n) => members[n].tenant # row.tenant \/ members[n].user # row.user
    BY DEF MembershipsOf, MembersOf
  <2> QED BY <1>0, <1>1, <2>1 DEF MemberInv, RowsInv, OneMembership, LiveMember
<1>5. HeldRolesAreOwn'
  <2> SUFFICES ASSUME NEW t \in Tenants, NEW n \in MembersOf(t)'
               PROVE  members'[n].roles \subseteq LiveRoles(t)'
    BY DEF HeldRolesAreOwn
  <2>1. n \in Rows /\ members'[n].state = "live" /\ members'[n].tenant = t
    BY DEF MembersOf, LiveMember
  <2>2. CASE n = m
    BY <1>1, <2>1, <2>2
  <2>3. CASE n # m
    <3>1. n \in MembersOf(t) /\ members'[n] = members[n]
      BY <1>1, <2>1, <2>3 DEF MembersOf, LiveMember
    <3>2. members[n].roles \subseteq LiveRoles(t)
      BY <3>1 DEF MemberInv, RowsInv, HeldRolesAreOwn
    <3>3. LiveRoles(t) \subseteq LiveRoles(t)'
      BY <3>1
    <3> QED BY <3>1, <3>2, <3>3
  <2> QED BY <2>2, <2>3
<1>6. \A t \in Tenants : Owners(t) \subseteq Owners(t)'
  BY <1>0, <1>1 DEF Owners, MembersOf, LiveMember
<1>7. OwnerRemains'
  <2> SUFFICES ASSUME NEW t \in Tenants, tenants'[t] # "absent", t \notin wsRaced,
                      Owners(t)' = {}
               PROVE  FALSE
    BY DEF OwnerRemains
  <2>1. tenants'[t] = tenants[t]
    OBVIOUS
  <2>2. Owners(t) # {}
    BY <2>1 DEF MemberInv, RowsInv, OwnerRemains
  <2> HIDE DEF Owners
  <2> QED BY <1>6, <2>2
<1>8. AddressedStep /\ StrippingStep
  BY <1>0, <1>1 DEF AddressedStep, StrippingStep, LiveMember
<1> QED BY <1>3, <1>4, <1>5, <1>7, <1>8 DEF RowsInv

LEMMA TenantCreated ==
  ASSUME MemberInv, NEW t \in Tenants, NEW u \in Users, CreateTenant(t, u)
  PROVE  MemberStep
<1> DEFINE row == NewMember(t, u, "ACTIVE", TRUE, {"owner"})
<1>1. PICK m \in Rows : members[m] = NoRow /\ members' = [members EXCEPT ![m] = row]
  BY DEF CreateTenant, NextRow
<1>2. /\ tenants[t] = "absent" /\ tenants' = [tenants EXCEPT ![t] = "ACTIVE"]
      /\ roles' = [roles EXCEPT ![t] = SeededRoles]
      /\ UNCHANGED <<wsReq, wsServed, wsRaced, wsStripped>>
  BY DEF CreateTenant
<1>3. row \in MemberRows /\ row.tenant = t /\ row.user = u /\ row.roles = {"owner"}
      /\ row.state = "live" /\ row.owner = TRUE /\ row.status = "ACTIVE"
  BY DEF NewMember, MemberRows, MemberStatuses, Roles, SystemRoles
<1> HIDE DEF row
<1>4. WorkspacesTypeOK /\ WorkspacesTypeOK'
  BY CreateTenantType DEF MemberInv
<1>5. MembersOf(t) = {}
  BY <1>2 DEF MemberInv, RowsInv, MembersOf
<1>6. MembershipsOf(u, t) = {} /\ LiveRoles(t) \subseteq Roles
  BY <1>5 DEF MembershipsOf, LiveRoles
<1>7. {"owner"} \subseteq LiveRoles(t)'
  BY <1>2, <1>4 DEF LiveRoles, SeededRoles, WorkspacesTypeOK, Roles, SystemRoles
<1>8. \A x \in Tenants : x # t => /\ tenants'[x] = tenants[x] /\ roles'[x] = roles[x]
  BY <1>2, <1>4 DEF WorkspacesTypeOK
<1>9. m \in Owners(t)'
  BY <1>1, <1>3, <1>4 DEF Owners, MembersOf, LiveMember, WorkspacesTypeOK
<1>10. \A n \in Rows : members[n] # NoRow => members'[n] = members[n]
  BY <1>1, <1>4 DEF WorkspacesTypeOK
<1>11. RowsInv' /\ AddressedStep /\ StrippingStep
  <2>1. \A x \in Tenants : /\ tenants[x] # "absent" => tenants'[x] # "absent"
                           /\ MembersOf(x) # {} => LiveRoles(x) \subseteq LiveRoles(x)'
                           /\ \/ tenants'[x] = tenants[x] \/ Owners(x)' # {}
    <3> SUFFICES ASSUME NEW x \in Tenants
                 PROVE  /\ tenants[x] # "absent" => tenants'[x] # "absent"
                        /\ MembersOf(x) # {} => LiveRoles(x) \subseteq LiveRoles(x)'
                        /\ \/ tenants'[x] = tenants[x] \/ Owners(x)' # {}
      OBVIOUS
    <3>1. CASE x = t
      BY <1>2, <1>5, <1>9, <3>1
    <3>2. CASE x # t
      BY <1>8, <3>2 DEF LiveRoles
    <3> QED BY <3>1, <3>2
  <2>2. tenants'[t] # "absent"
    BY <1>2, <1>4 DEF WorkspacesTypeOK
  <2> QED BY <1>1, <1>2, <1>3, <1>4, <1>6, <1>7, <2>1, <2>2, RowAdded
<1>12. ASSUME NEW c \in Clients PROVE RequestHolds(wsReq[c])'
  <2> DEFINE q == wsReq[c]
  <2>1. RequestHolds(q) /\ wsReq'[c] = q /\ q \in WsRequests \cup {idle}
    BY <1>2 DEF MemberInv, WorkspacesTypeOK
  <2>2. CASE q.op = "idle"
    BY <2>1, <2>2 DEF RequestHolds
  <2>3. CASE q.op # "idle"
    <3>1. q \in WsRequests /\ q.tenant \in Tenants /\ tenants[q.tenant] # "absent"
      BY <2>1, <2>3, RequestShape DEF RequestHolds, idle
    <3>2. PICK x \in Tenants : x = q.tenant /\ x # t
      BY <1>2, <3>1
    <3>3. tenants'[x] # "absent"
      BY <1>8, <3>1, <3>2
    <3>4. q.op \in {"update", "remove"} =>
            /\ members'[q.row] # NoRow
            /\ members'[q.row].state = "live" => members'[q.row].tenant = x
      BY <1>10, <2>1, <3>1, <3>2, RequestShape DEF RequestHolds, LiveMember
    <3>5. Owners(x) \subseteq Owners(x)' /\ \A r : Holders(x, r)' \subseteq Holders(x, r)
      <4>1. \A n \in Rows : (n = m /\ members'[n].tenant = t) \/ members'[n] = members[n]
        BY <1>1, <1>3, <1>4 DEF WorkspacesTypeOK
      <4>2. members[m].state # "live"
        BY <1>1 DEF NoRow
      <4> QED BY <3>2, <4>1, <4>2 DEF Owners, Holders, MembersOf, LiveMember
    <3>6. TwoOwners(x) => TwoOwners(x)'
      BY <3>5 DEF TwoOwners
    <3> QED BY <1>2, <2>1, <3>2, <3>3, <3>4, <3>5, <3>6 DEF RequestHolds, LiveMember
  <2> QED BY <2>2, <2>3
<1> QED BY <1>4, <1>11, <1>12 DEF MemberStep, MemberInv

LEMMA RequestBegun ==
  ASSUME MemberInv, NEW c \in Clients, NEW u \in Users, NEW t \in Tenants,
         \/ MemberRoute(c, u, t) \/ RoleRoute(c, u, t)
         \/ \E st \in TenantStatuses : UpdateTenant(c, u, t, st)
  PROVE  MemberStep
<1>0. WorkspacesTypeOK
  BY DEF MemberInv
<1>1. PICK q \in WsRequests :
        /\ WsBegin(c, q)
        /\ q.tenant = t /\ tenants[t] # "absent"
        /\ q.op \in {"update", "remove"} =>
             /\ q.row \in MembersOf(t)
             /\ q.guarded => Cardinality(Owners(t)) > 1
        /\ q.op = "deleteRole" => Holders(t, q.role) = {}
  BY <1>0, RouteBegins
<1>2. /\ wsReq' = [wsReq EXCEPT ![c] = q]
      /\ UNCHANGED <<tenants, members, roles, wsRaced, wsStripped>>
  BY <1>1 DEF WsBegin
<1>3. WorkspacesTypeOK'
  BY <1>0, <1>1, WsBeginType
<1>4. RowsInv' /\ AddressedStep /\ StrippingStep
  BY <1>2 DEF MemberInv, RowsInv, OneMembership, HeldRolesAreOwn, OwnerRemains, LiveMember,
     LiveRoles, MembersOf, Owners, AddressedStep, StrippingStep
<1>5. RequestHolds(q)
  <2>1. q.op \in {"update", "remove"} =>
          members[q.row] # NoRow /\ members[q.row].tenant = q.tenant
    BY <1>1 DEF MembersOf, LiveMember, NoRow
  <2>2. q.op \in {"update", "remove"} /\ q.guarded => TwoOwners(q.tenant)
    BY <1>0, <1>1, SeveralOwners
  <2> QED BY <1>1, <2>1, <2>2 DEF RequestHolds
<1>6. ASSUME NEW d \in Clients PROVE RequestHolds(wsReq[d])'
  <2>1. RequestHolds(wsReq'[d])
    BY <1>0, <1>2, <1>5 DEF MemberInv, WorkspacesTypeOK
  <2> QED BY <1>2, <2>1 DEF RequestHolds, TwoOwners, Owners, Holders, MembersOf, LiveMember
<1> QED BY <1>3, <1>4, <1>6 DEF MemberStep, MemberInv

\* Commits that leave the members alone.
LEMMA MembersUntouched ==
  ASSUME MemberInv, NEW c \in Clients,
         CommitCreateRole(c) \/ CommitUpdateRole(c) \/ CommitTenant(c) \/ WsRollback(c)
  PROVE  MemberStep
<1>0. /\ WorkspacesTypeOK /\ WorkspacesTypeOK' /\ Settles(c) /\ wsReq[c] \in WsRequests
  BY CommitType, CommitSettles DEF MemberInv, WsCommit
<1>1. UNCHANGED <<members, wsRaced, wsStripped>>
  BY DEF CommitCreateRole, CommitUpdateRole, CommitTenant, WsRollback
<1>2. \A t \in Tenants : tenants[t] = "absent" <=> tenants'[t] = "absent"
  <2>1. CASE CommitTenant(c)
    <3>1. tenants' = [tenants EXCEPT ![wsReq[c].tenant] = wsReq[c].status]
      BY <2>1 DEF CommitTenant
    <3>2. wsReq[c].status # "absent" /\ tenants[wsReq[c].tenant] # "absent"
      <4>1. wsReq[c].op = "tenant" /\ RequestHolds(wsReq[c])
        BY <2>1 DEF CommitTenant, MemberInv
      <4> QED BY <1>0, <4>1, RequestShape DEF RequestHolds, TenantStatuses
    <3> QED BY <1>0, <3>1, <3>2 DEF WorkspacesTypeOK
  <2>2. CASE UNCHANGED tenants
    BY <2>2
  <2> QED BY <2>1, <2>2 DEF CommitCreateRole, CommitUpdateRole, WsRollback
<1>3. \A t \in Tenants : LiveRoles(t) \subseteq LiveRoles(t)'
  <2> DEFINE q == wsReq[c]
  <2>1. q.tenant \in Tenants
    BY <1>0, RequestShape
  <2>2. ASSUME CommitCreateRole(c)
        PROVE  \A t \in Tenants, r \in Roles : roles[t][r].state = "live" =>
                                                 roles'[t][r].state = "live"
    <3>1. /\ roles' = [roles EXCEPT ![q.tenant][q.role] = [state |-> "live", grants |-> q.grants]]
          /\ q.op = "createRole"
      BY <2>2 DEF CommitCreateRole
    <3> HIDE DEF q
    <3> QED BY <1>0, <2>1, <3>1 DEF WorkspacesTypeOK
  <2>3. ASSUME CommitUpdateRole(c)
        PROVE  \A t \in Tenants, r \in Roles : roles[t][r].state = "live" =>
                                                 roles'[t][r].state = "live"
    <3>1. PICK codes : roles' = [roles EXCEPT ![q.tenant][q.role].grants = codes]
      BY <2>3 DEF CommitUpdateRole
    <3> HIDE DEF q
    <3>2. \A t \in Tenants, r \in Roles : roles[t][r] \in RoleRows
      BY <1>0 DEF WorkspacesTypeOK
    <3> QED BY <1>0, <2>1, <3>1, <3>2 DEF WorkspacesTypeOK, RoleRows
  <2>4. CASE UNCHANGED roles
    BY <2>4 DEF LiveRoles
  <2> QED BY <2>2, <2>3, <2>4 DEF LiveRoles, CommitTenant, WsRollback
<1>4. RowsInv'
  <2>1. \A m \in Rows : LiveMember(m) => members[m].tenant \in Tenants
    BY <1>0, LiveRowShape
  <2>2. \A m \in Rows : LiveMember(m)' => tenants'[members'[m].tenant] # "absent"
    BY <1>1, <1>2, <2>1 DEF MemberInv, RowsInv, LiveMember
  <2>3. OneMembership'
    BY <1>1 DEF MemberInv, RowsInv, OneMembership, LiveMember
  <2>4. \A t : MembersOf(t)' = MembersOf(t) /\ Owners(t)' = Owners(t)
    BY <1>1 DEF MembersOf, LiveMember, Owners
  <2>5. HeldRolesAreOwn'
    BY <1>1, <1>3, <2>4 DEF MemberInv, RowsInv, HeldRolesAreOwn
  <2>6. OwnerRemains'
    BY <1>1, <1>2, <2>4 DEF MemberInv, RowsInv, OwnerRemains
  <2> QED BY <2>2, <2>3, <2>5, <2>6 DEF RowsInv
<1>5. \A d \in Clients : RequestHolds(wsReq[d])'
  <2>1. \A t, r : Owners(t)' = Owners(t) /\ Holders(t, r)' = Holders(t, r)
    BY <1>1 DEF MembersOf, LiveMember, Owners, Holders
  <2> QED BY <1>0, <1>1, <1>2, <2>1, OthersHold DEF LiveMember
<1>6. AddressedStep /\ StrippingStep
  BY <1>1 DEF AddressedStep, StrippingStep
<1> QED BY <1>0, <1>4, <1>5, <1>6 DEF MemberStep, MemberInv

\* Roles handed out while somebody is about to delete them are on record.
LEMMA StrippedOnRecord ==
  ASSUME NEW t \in Tenants, NEW rs, NEW d \in Clients, NEW r \in CustomRoles,
         wsReq[d].op = "deleteRole", wsReq[d].tenant = t, wsReq[d].role = r, r \in rs
  PROVE  <<t, r>> \in UnderDeletion(t, rs)
  BY DEF UnderDeletion

LEMMA MemberAdded ==
  ASSUME MemberInv, NEW c \in Clients, CommitAdd(c)
  PROVE  MemberStep
<1> DEFINE q == wsReq[c]
<1>0. /\ WorkspacesTypeOK /\ WorkspacesTypeOK' /\ Settles(c) /\ q \in WsRequests
      /\ RequestHolds(q)
  BY CommitType, CommitSettles DEF MemberInv, WsCommit
<1>1. /\ q.op = "add" /\ MembershipsOf(q.user, q.tenant) = {}
      /\ q.roles \subseteq LiveRoles(q.tenant)
      /\ wsStripped' = wsStripped \cup UnderDeletion(q.tenant, q.roles)
      /\ UNCHANGED <<tenants, roles, wsServed, wsRaced>>
  BY DEF CommitAdd, UniqueMember, ForeignKey
<1>2. PICK m \in Rows : members[m] = NoRow /\ members' = [members EXCEPT
                       ![m] = NewMember(q.tenant, q.user, q.status, FALSE, q.roles)]
  BY DEF CommitAdd, NextRow
<1>3. /\ q.tenant \in Tenants /\ q.user \in Users /\ q.status \in MemberStatuses
      /\ q.roles \in SUBSET Roles
  BY <1>0, <1>1, RequestShape
<1> HIDE DEF q
<1>4. PICK row \in MemberRows :
        /\ members' = [members EXCEPT ![m] = row]
        /\ row.tenant = q.tenant /\ row.user = q.user
        /\ row.roles = q.roles /\ row.state = "live"
  <2>1. NewMember(q.tenant, q.user, q.status, FALSE, q.roles) \in MemberRows
    BY <1>3 DEF NewMember, MemberRows
  <2> QED BY <1>2, <2>1 DEF NewMember
<1>5. tenants[q.tenant] # "absent"
  BY <1>0, <1>1 DEF RequestHolds
<1>6. \A t \in Tenants : LiveRoles(t)' = LiveRoles(t)
  BY <1>1 DEF LiveRoles
<1>7. RowsInv' /\ AddressedStep /\ StrippingStep
  <2>1. MembershipsOf(row.user, row.tenant) = {} /\ row.roles \subseteq LiveRoles(row.tenant)
    BY <1>1, <1>4
  <2>2. row.roles \subseteq LiveRoles(row.tenant)'
    BY <1>1, <2>1 DEF LiveRoles
  <2> QED BY <1>0, <1>1, <1>2, <1>4, <1>5, <1>6, <2>1, <2>2, RowAdded
<1>8. members'[m] = row /\ \A n \in Rows \ {m} : members'[n] = members[n]
  BY <1>0, <1>4 DEF WorkspacesTypeOK
<1>9. \A t : Owners(t) \subseteq Owners(t)'
  <2>1. members[m].state # "live"
    BY <1>2 DEF NoRow
  <2> QED BY <1>8, <2>1 DEF Owners, MembersOf, LiveMember
<1>10. ASSUME NEW d \in Clients \ {c}, NEW t \in Tenants, NEW r \in CustomRoles,
              wsReq[d].op = "deleteRole", wsReq[d].tenant = t, wsReq[d].role = r,
              Holders(t, r) = {}, <<t, r>> \notin wsStripped'
       PROVE  Holders(t, r)' = {}
  <2>1. ~(t = q.tenant /\ r \in q.roles)
    BY <1>1, <1>10, StrippedOnRecord
  <2>2. \A n \in Rows : ~(LiveMember(n)' /\ members'[n].tenant = t /\ r \in members'[n].roles)
    BY <1>4, <1>8, <1>10, <2>1 DEF Holders, MembersOf, LiveMember
  <2> QED BY <2>2 DEF Holders, MembersOf
<1>11. \A d \in Clients : RequestHolds(wsReq[d])'
  <2>1. \A n \in Rows : members[n] # NoRow =>
          members'[n] # NoRow
          /\ (members'[n].state = "live" => LiveMember(n) /\ members'[n].tenant = members[n].tenant)
    BY <1>2, <1>8 DEF LiveMember
  <2>2. wsStripped \subseteq wsStripped' /\ wsRaced \subseteq wsRaced'
    BY <1>1
  <2> QED BY <1>0, <1>1, <1>9, <1>10, <2>1, <2>2, OthersHold
<1> QED BY <1>0, <1>7, <1>11 DEF MemberStep, MemberInv

\* A membership is rewritten by an update or goes with a removal.
LEMMA OwnerStays ==
  ASSUME MemberInv, NEW c \in Clients, wsReq[c].op \in {"update", "remove"}, WsCommit(c),
         NEW m \in Rows, m = wsReq[c].row, NEW t \in Tenants, t = wsReq[c].tenant,
         LiveMember(m) => members[m].tenant = t,
         \A n \in Rows \ {m} : members'[n] = members[n],
         UNCHANGED tenants, wsRaced \subseteq wsRaced',
         m \in Owners(t) /\ m \notin Owners(t)' /\ OwnerRace(c, t, m) => t \in wsRaced',
         LiveMember(m)' => LiveMember(m) /\ members'[m].tenant = members[m].tenant
  PROVE  /\ OwnerRemains'
         /\ \A d \in Clients \ {c}, x \in Tenants :
              /\ wsReq[d].op \in {"update", "remove"} /\ wsReq[d].guarded
              /\ wsReq[d].tenant = x /\ x \notin wsRaced'
              => Owners(x) \subseteq Owners(x)'
<1>1. \A x \in Tenants : Owners(x) \ {m} \subseteq Owners(x)'
  BY DEF Owners, MembersOf, LiveMember
<1>2. \A x \in Tenants : x # t => m \notin Owners(x)
  BY DEF Owners, MembersOf
<1>3. OwnerRemains'
  <2> SUFFICES ASSUME NEW x \in Tenants, tenants[x] # "absent", x \notin wsRaced',
                      Owners(x)' = {}
               PROVE  FALSE
    BY DEF OwnerRemains
  <2>1. x \notin wsRaced /\ Owners(x) # {}
    BY DEF MemberInv, RowsInv, OwnerRemains
  <2> HIDE DEF Owners
  <2>2. x = t /\ m \in Owners(t) /\ m \notin Owners(t)'
    BY <1>1, <1>2, <2>1
  <2>3. ~OwnerRace(c, t, m)
    BY <2>2
  <2>4. wsReq[c].guarded
    BY <2>2, <2>3 DEF OwnerRace
  <2>5. TwoOwners(t)
    BY <2>1, <2>2, <2>4 DEF MemberInv, RequestHolds
  <2>6. \E n \in Owners(t) : n # m
    BY <2>5 DEF TwoOwners
  <2> QED BY <1>1, <2>2, <2>6
<1>4. ASSUME NEW d \in Clients \ {c}, NEW x \in Tenants, wsReq[d].op \in {"update", "remove"},
             wsReq[d].guarded, wsReq[d].tenant = x, x \notin wsRaced'
      PROVE  Owners(x) \subseteq Owners(x)'
  <2>1. CASE m \in Owners(x) /\ m \notin Owners(x)'
    <3>1. x = t
      BY <1>2, <2>1
    <3>2. OwnerRace(c, t, m)
      BY <1>4, <2>1, <3>1 DEF OwnerRace
    <3> QED BY <1>4, <2>1, <3>1, <3>2
  <2>2. CASE m \notin Owners(x) \/ m \in Owners(x)'
    <3> HIDE DEF Owners
    <3> QED BY <1>1, <2>2
  <2> QED BY <2>1, <2>2
<1> QED BY <1>3, <1>4

LEMMA MemberUpdated ==
  ASSUME MemberInv, NEW c \in Clients, CommitUpdate(c)
  PROVE  MemberStep
<1> DEFINE q == wsReq[c]
<1>0. /\ WorkspacesTypeOK /\ WorkspacesTypeOK' /\ Settles(c) /\ WsCommit(c)
      /\ RequestHolds(q)
  BY CommitType, CommitSettles DEF MemberInv, WsCommit
<1>1. PICK m \in Rows, t \in Tenants, row \in MemberRows, rs \in SUBSET Roles :
        /\ m = q.row /\ t = q.tenant /\ q.op = "update" /\ LiveMember(m)
        /\ members' = [members EXCEPT ![m] = row]
        /\ rs \subseteq members[m].roles \cup q.roles
        /\ q.roles = {} => rs = members[m].roles
        /\ row.roles = rs /\ row.tenant = members[m].tenant /\ row.user = members[m].user
        /\ q.status \in {"keep", "ACTIVE"} /\ members[m].status = "ACTIVE"
             => row.status = "ACTIVE"
        /\ q.owner # "no" /\ members[m].owner => row.owner
  <2>1. PICK rs \in SUBSET Roles :
          LET row == UpdatedRow(q.row, q, rs)
          IN  /\ q \in WsRequests /\ q.op = "update" /\ LiveMember(q.row) /\ q.row \in Rows
              /\ members' = [members EXCEPT ![q.row] = row]
              /\ rs \subseteq members[q.row].roles \cup q.roles
              /\ q.roles = {} => rs = members[q.row].roles
              /\ row \in MemberRows /\ row.roles = rs
              /\ row.tenant = members[q.row].tenant /\ row.user = members[q.row].user
              /\ (q.status \in {"keep", "ACTIVE"} /\ members[q.row].status = "ACTIVE")
                   => row.status = "ACTIVE"
              /\ (q.owner # "no" /\ members[q.row].owner) => row.owner
    BY <1>0, UpdateWrites
  <2>2. q.tenant \in Tenants
    BY <2>1, RequestShape
  <2> HIDE DEF q
  <2> QED BY <2>1, <2>2
<1>2. /\ q.roles \subseteq LiveRoles(t)
      /\ wsRaced' = IF /\ OwnerRace(c, t, m)
                       /\ q.owner = "no" \/ q.status \notin {"keep", "ACTIVE"}
                    THEN wsRaced \cup {t} ELSE wsRaced
      /\ wsStripped' = wsStripped \cup UnderDeletion(t, q.roles)
      /\ UNCHANGED <<tenants, roles>>
  BY <1>1 DEF CommitUpdate, ForeignKey
<1>3. /\ members'[m] = row /\ row.state = "live"
      /\ \A n \in Rows \ {m} : members'[n] = members[n]
  BY <1>0, <1>1 DEF WorkspacesTypeOK, MemberRows
<1>4. members[m].tenant = t /\ m \in MembersOf(t) /\ members[m].owner \in BOOLEAN
  BY <1>0, <1>1, LiveRowShape DEF RequestHolds, MembersOf
<1>e. Ends(c) /\ q \in WsRequests
  <2>1. q \in WsRequests
    BY <1>0, <1>1 DEF WorkspacesTypeOK, idle
  <2> QED BY <1>0, <2>1, RequestShape DEF Ends, Settles
<1> HIDE DEF q
<1>5. m \in Owners(t) /\ m \notin Owners(t)' /\ OwnerRace(c, t, m) => t \in wsRaced'
  <2> SUFFICES ASSUME m \in Owners(t), m \notin Owners(t)', OwnerRace(c, t, m)
               PROVE  q.owner = "no" \/ q.status \notin {"keep", "ACTIVE"}
    BY <1>2
  <2> SUFFICES ASSUME q.owner # "no", q.status \in {"keep", "ACTIVE"} PROVE FALSE
    OBVIOUS
  <2>1. members[m].owner /\ members[m].status = "ACTIVE"
    BY DEF Owners
  <2>2. row.owner /\ row.status = "ACTIVE"
    BY <1>1, <2>1
  <2>3. members'[m].state = "live" /\ members'[m].tenant = t
    BY <1>1, <1>3, <1>4
  <2> QED BY <1>3, <2>2, <2>3 DEF Owners, MembersOf, LiveMember
<1>6. /\ OwnerRemains'
      /\ \A d \in Clients \ {c}, x \in Tenants :
           /\ wsReq[d].op \in {"update", "remove"} /\ wsReq[d].guarded
           /\ wsReq[d].tenant = x /\ x \notin wsRaced'
           => Owners(x) \subseteq Owners(x)'
  <2>1. wsReq[c].op \in {"update", "remove"} /\ m = wsReq[c].row /\ t = wsReq[c].tenant
    BY <1>1 DEF q
  <2>2. wsRaced \subseteq wsRaced' /\ UNCHANGED tenants
    BY <1>2
  <2>3. LiveMember(m) /\ members'[m].tenant = members[m].tenant
    BY <1>1, <1>3
  <2> QED BY <1>0, <1>3, <1>4, <1>5, <2>1, <2>2, <2>3, OwnerStays
<1>7. row.roles \subseteq LiveRoles(t)
  BY <1>1, <1>2, <1>4 DEF MemberInv, RowsInv, HeldRolesAreOwn
<1>8. RowsInv'
  <2>1. \A n \in Rows : LiveMember(n)' => tenants'[members'[n].tenant] # "absent"
    BY <1>1, <1>2, <1>3 DEF MemberInv, RowsInv, LiveMember
  <2>2. OneMembership'
    BY <1>1, <1>3 DEF MemberInv, RowsInv, OneMembership, LiveMember
  <2>3. HeldRolesAreOwn'
    <3> SUFFICES ASSUME NEW x \in Tenants, NEW n \in MembersOf(x)'
                 PROVE  members'[n].roles \subseteq LiveRoles(x)'
      BY DEF HeldRolesAreOwn
    <3>0. LiveRoles(x)' = LiveRoles(x)
      BY <1>2 DEF LiveRoles
    <3>1. CASE n = m
      BY <1>1, <1>3, <1>4, <1>7, <3>0, <3>1 DEF MembersOf
    <3>2. CASE n # m
      <4>1. n \in MembersOf(x) /\ members'[n] = members[n]
        BY <1>3, <3>2 DEF MembersOf, LiveMember
      <4> QED BY <3>0, <4>1 DEF MemberInv, RowsInv, HeldRolesAreOwn
    <3> QED BY <3>1, <3>2
  <2> QED BY <1>6, <2>1, <2>2, <2>3 DEF RowsInv
<1>9. ASSUME NEW d \in Clients \ {c}, NEW x \in Tenants, NEW r \in CustomRoles,
             wsReq[d].op = "deleteRole", wsReq[d].tenant = x, wsReq[d].role = r,
             Holders(x, r) = {}, <<x, r>> \notin wsStripped'
      PROVE  Holders(x, r)' = {}
  <2>1. ~(x = t /\ r \in q.roles)
    BY <1>2, <1>9, StrippedOnRecord
  <2>2. \A n \in Rows : ~(LiveMember(n)' /\ members'[n].tenant = x /\ r \in members'[n].roles)
    BY <1>1, <1>3, <1>4, <1>9, <2>1 DEF Holders, MembersOf, LiveMember
  <2> QED BY <2>2 DEF Holders, MembersOf
<1>10. \A d \in Clients : RequestHolds(wsReq[d])'
  <2>1. \A n \in Rows : members[n] # NoRow =>
          members'[n] # NoRow
          /\ (members'[n].state = "live" => LiveMember(n) /\ members'[n].tenant = members[n].tenant)
    BY <1>1, <1>3 DEF LiveMember, NoRow
  <2>2. wsStripped \subseteq wsStripped' /\ wsRaced \subseteq wsRaced' /\ tenants' = tenants
    BY <1>2
  <2> QED BY <1>0, <1>6, <1>9, <2>1, <2>2, OthersHold
<1>11. AddressedStep
  BY <1>1, <1>3, <1>4, <1>e DEF AddressedStep, q
<1>12. StrippingStep
  <2>1. q.roles = {} => row.roles = members[m].roles
    BY <1>1
  <2> QED BY <1>1, <1>3, <1>e, <2>1 DEF StrippingStep, q
<1> QED BY <1>0, <1>8, <1>10, <1>11, <1>12 DEF MemberStep, MemberInv

LEMMA MemberRemoved ==
  ASSUME MemberInv, NEW c \in Clients, CommitRemove(c)
  PROVE  MemberStep
<1> DEFINE q == wsReq[c]
<1>0. /\ WorkspacesTypeOK /\ WorkspacesTypeOK' /\ Settles(c) /\ WsCommit(c)
      /\ RequestHolds(q) /\ q \in WsRequests
  BY CommitType, CommitSettles DEF MemberInv, WsCommit
<1>1. PICK m \in Rows, t \in Tenants :
        /\ m = q.row /\ t = q.tenant /\ q.op = "remove"
        /\ members' = [members EXCEPT ![m] = GoneRow]
        /\ wsRaced' = IF OwnerRace(c, t, m) THEN wsRaced \cup {t} ELSE wsRaced
        /\ UNCHANGED <<tenants, roles, wsStripped>>
  <2>1. q.op = "remove"
    BY DEF CommitRemove
  <2>2. q.row \in Rows /\ q.tenant \in Tenants
    BY <1>0, <2>1, RequestShape
  <2> QED BY <2>1, <2>2 DEF CommitRemove
<1>2. /\ members'[m] = GoneRow /\ GoneRow.state # "live" /\ GoneRow # NoRow
      /\ \A n \in Rows \ {m} : members'[n] = members[n]
  BY <1>0, <1>1 DEF WorkspacesTypeOK, GoneRow, NoRow
<1>3. LiveMember(m) => members[m].tenant = t
  BY <1>0, <1>1 DEF RequestHolds
<1>e. Ends(c) /\ q.tenant = t
  BY <1>0, <1>1, RequestShape DEF Ends, Settles
<1>4. /\ OwnerRemains'
      /\ \A d \in Clients \ {c}, x \in Tenants :
           /\ wsReq[d].op \in {"update", "remove"} /\ wsReq[d].guarded
           /\ wsReq[d].tenant = x /\ x \notin wsRaced'
           => Owners(x) \subseteq Owners(x)'
  <2>1. OwnerRace(c, t, m) => t \in wsRaced'
    BY <1>1
  <2>2. wsRaced \subseteq wsRaced'
    BY <1>1
  <2>3. ~LiveMember(m)'
    BY <1>2 DEF LiveMember
  <2> QED BY <1>0, <1>1, <1>2, <1>3, <2>1, <2>2, <2>3, OwnerStays
<1> HIDE DEF q
<1>5. RowsInv'
  <2>1. \A n \in Rows : LiveMember(n)' => tenants'[members'[n].tenant] # "absent"
    BY <1>1, <1>2 DEF MemberInv, RowsInv, LiveMember
  <2>2. OneMembership'
    BY <1>2 DEF MemberInv, RowsInv, OneMembership, LiveMember
  <2>3. HeldRolesAreOwn'
    <3> SUFFICES ASSUME NEW x \in Tenants, NEW n \in MembersOf(x)'
                 PROVE  members'[n].roles \subseteq LiveRoles(x)'
      BY DEF HeldRolesAreOwn
    <3>1. LiveRoles(x)' = LiveRoles(x)
      BY <1>1 DEF LiveRoles
    <3>2. n \in MembersOf(x) /\ members'[n] = members[n]
      BY <1>2 DEF MembersOf, LiveMember
    <3> QED BY <3>1, <3>2 DEF MemberInv, RowsInv, HeldRolesAreOwn
  <2> QED BY <1>4, <2>1, <2>2, <2>3 DEF RowsInv
<1>6. \A x, r : Holders(x, r)' \subseteq Holders(x, r)
  BY <1>2 DEF Holders, MembersOf, LiveMember
<1>7. \A d \in Clients : RequestHolds(wsReq[d])'
  <2>1. \A n \in Rows : members[n] # NoRow =>
          members'[n] # NoRow
          /\ (members'[n].state = "live" => LiveMember(n) /\ members'[n].tenant = members[n].tenant)
    BY <1>2 DEF LiveMember
  <2>2. wsStripped \subseteq wsStripped' /\ wsRaced \subseteq wsRaced' /\ tenants' = tenants
    BY <1>1
  <2>3. \A x, r : Holders(x, r) = {} => Holders(x, r)' = {}
    <3> HIDE DEF Holders
    <3> QED BY <1>6
  <2> QED BY <1>0, <1>4, <2>1, <2>2, <2>3, OthersHold
<1>8. AddressedStep
  BY <1>2, <1>3, <1>e DEF AddressedStep, q
<1>9. StrippingStep
  BY <1>2 DEF StrippingStep
<1> QED BY <1>0, <1>5, <1>7, <1>8, <1>9 DEF MemberStep, MemberInv

LEMMA RoleDeleted ==
  ASSUME MemberInv, NEW c \in Clients, CommitDeleteRole(c)
  PROVE  MemberStep
<1> DEFINE q == wsReq[c]
<1>0. /\ WorkspacesTypeOK /\ WorkspacesTypeOK' /\ Settles(c) /\ WsCommit(c)
      /\ RequestHolds(q) /\ q \in WsRequests
  BY CommitType, CommitSettles DEF MemberInv, WsCommit
<1>1. PICK t \in Tenants, r \in CustomRoles :
        /\ t = q.tenant /\ r = q.role /\ q.op = "deleteRole"
        /\ roles' = [roles EXCEPT ![t][r] = [state |-> "deleted", grants |-> {}]]
        /\ members' = [m \in Rows |-> IF m \in MembersOf(t)
                                        THEN [members[m] EXCEPT !.roles = @ \ {r}]
                                        ELSE members[m]]
        /\ UNCHANGED <<tenants, wsRaced, wsStripped>>
  <2>1. q.op = "deleteRole"
    BY DEF CommitDeleteRole
  <2>2. q.role \in CustomRoles /\ q.tenant \in Tenants
    BY <1>0, <2>1, RequestShape
  <2> QED BY <2>1, <2>2 DEF CommitDeleteRole
<1>e. Ends(c) /\ q.tenant = t
  BY <1>0, <1>1, RequestShape DEF Ends, Settles
<1>h. <<t, r>> \in wsStripped \/ Holders(t, r) = {}
  BY <1>0, <1>1 DEF RequestHolds
<1> HIDE DEF q
<1>2. ASSUME NEW m \in Rows
      PROVE  /\ m \notin MembersOf(t) => members'[m] = members[m]
             /\ m \in MembersOf(t) =>
                  /\ members'[m].state = "live" /\ members'[m].roles = members[m].roles \ {r}
                  /\ members'[m].tenant = members[m].tenant
                  /\ members'[m].user = members[m].user
                  /\ members'[m].owner = members[m].owner
                  /\ members'[m].status = members[m].status
  <2>1. m \in MembersOf(t) => members[m] \in MemberRows
    BY <1>0, LiveRowShape DEF MembersOf
  <2> QED BY <1>1, <2>1 DEF MemberRows
<1>3. \A m \in Rows : /\ LiveMember(m)' <=> LiveMember(m)
                      /\ LiveMember(m) => /\ members'[m].tenant = members[m].tenant
                                          /\ members'[m].user = members[m].user
                                          /\ members'[m].owner = members[m].owner
                                          /\ members'[m].status = members[m].status
                                          /\ members'[m].roles \subseteq members[m].roles
  BY <1>2 DEF LiveMember, MembersOf
<1>4. \A x : Owners(x)' = Owners(x) /\ \A y : Holders(x, y)' \subseteq Holders(x, y)
  BY <1>3 DEF Owners, Holders, MembersOf
<1>5. \A x \in Tenants, y \in Roles :
        y \in LiveRoles(x) /\ ~(x = t /\ y = r) => y \in LiveRoles(x)'
  BY <1>0, <1>1 DEF LiveRoles, WorkspacesTypeOK
<1>6. RowsInv'
  <2>1. \A n \in Rows : LiveMember(n)' => tenants'[members'[n].tenant] # "absent"
    BY <1>1, <1>3 DEF MemberInv, RowsInv
  <2>2. OneMembership'
    BY <1>3 DEF MemberInv, RowsInv, OneMembership
  <2>3. HeldRolesAreOwn'
    <3> SUFFICES ASSUME NEW x \in Tenants, NEW n \in MembersOf(x)', NEW y \in members'[n].roles
                 PROVE  y \in LiveRoles(x)'
      BY DEF HeldRolesAreOwn
    <3>1. n \in MembersOf(x) /\ members'[n].roles \subseteq members[n].roles
      BY <1>3 DEF MembersOf
    <3>2. y \in LiveRoles(x) /\ y \in Roles
      BY <3>1 DEF MemberInv, RowsInv, HeldRolesAreOwn, LiveRoles
    <3>3. ~(x = t /\ y = r)
      BY <1>2, <3>1 DEF MembersOf
    <3> QED BY <1>5, <3>2, <3>3
  <2>4. OwnerRemains'
    <3> HIDE DEF Owners
    <3> QED BY <1>1, <1>4 DEF MemberInv, RowsInv, OwnerRemains
  <2> QED BY <2>1, <2>2, <2>3, <2>4 DEF RowsInv
<1>7. \A d \in Clients : RequestHolds(wsReq[d])'
  <2>1. \A n \in Rows : members[n] # NoRow =>
          members'[n] # NoRow
          /\ (members'[n].state = "live" => LiveMember(n) /\ members'[n].tenant = members[n].tenant)
    <3>1. \A n \in Rows : n \in MembersOf(t) => members'[n] # NoRow
      BY <1>2 DEF NoRow
    <3> QED BY <1>2, <1>3, <3>1 DEF LiveMember
  <2>2. wsStripped \subseteq wsStripped' /\ wsRaced \subseteq wsRaced' /\ tenants' = tenants
    BY <1>1
  <2>3. \A x, y : Holders(x, y) = {} => Holders(x, y)' = {}
    <3> HIDE DEF Holders
    <3> QED BY <1>4
  <2>4. \A x : Owners(x) \subseteq Owners(x)'
    BY <1>4
  <2> QED BY <1>0, <2>1, <2>2, <2>3, <2>4, OthersHold
<1>8. AddressedStep
  BY <1>2, <1>e DEF AddressedStep, MembersOf, q
<1>9. StrippingStep
  <2> SUFFICES ASSUME NEW m \in Rows, NEW y \in Roles, LiveMember(m), y \in members[m].roles,
                      y \notin members'[m].roles
               PROVE  <<members[m].tenant, y>> \in wsStripped
    BY DEF StrippingStep
  <2>1. m \in MembersOf(t) /\ y = r
    BY <1>2
  <2>2. m \in Holders(t, r)
    BY <2>1 DEF Holders
  <2> QED BY <1>h, <2>1, <2>2 DEF MembersOf
<1> QED BY <1>0, <1>6, <1>7, <1>8, <1>9 DEF MemberStep, MemberInv

LEMMA MemberInvInit == WorkspacesInit => MemberInv
<1> SUFFICES ASSUME WorkspacesInit PROVE MemberInv
  OBVIOUS
<1>1. /\ \A m \in Rows : ~LiveMember(m)
      /\ \A t \in Tenants : tenants[t] = "absent"
      /\ \A c \in Clients : wsReq[c] = idle
  BY DEF WorkspacesInit, LiveMember, NoRow
<1>2. WorkspacesTypeOK
  <2>1. 0 \in 0..MaxRequests
    BY WorkspacesAssumption
  <2> QED BY <2>1 DEF WorkspacesInit, WorkspacesTypeOK, RoleRows
<1>3. RowsInv
  BY <1>1 DEF RowsInv, OneMembership, HeldRolesAreOwn, OwnerRemains, MembersOf
<1>4. \A c \in Clients : RequestHolds(wsReq[c])
  <2>1. idle.op = "idle"
    BY DEF idle
  <2>2. RequestHolds(idle)
    BY <2>1 DEF RequestHolds
  <2> QED BY <1>1, <2>2
<1> QED BY <1>2, <1>3, <1>4 DEF MemberInv

LEMMA MemberInvStep == MemberInv /\ [WorkspacesNext]_wsVars => MemberStep
<1> SUFFICES ASSUME MemberInv, [WorkspacesNext]_wsVars
             PROVE  MemberStep
  OBVIOUS
<1>1. ASSUME NEW c \in Clients, WsCommit(c)
      PROVE  MemberStep
  BY <1>1, MemberAdded, MemberUpdated, MemberRemoved, MembersUntouched, RoleDeleted
     DEF WsCommit
<1>2. CASE UNCHANGED wsVars
  <2>1. MemberInv'
    BY <1>2 DEF wsVars, MemberInv, WorkspacesTypeOK, RowsInv, OneMembership, HeldRolesAreOwn,
       OwnerRemains, RequestHolds, TwoOwners, Owners, Holders, MembersOf, LiveMember, LiveRoles
  <2> QED BY <1>2, <2>1 DEF wsVars, MemberStep, AddressedStep, StrippingStep
<1> QED BY <1>1, <1>2, TenantCreated, RequestBegun DEF WorkspacesNext

LEMMA MemberInvariant == WorkspacesSpec => []MemberInv
<1>1. MemberInv /\ [WorkspacesNext]_wsVars => MemberInv'
  BY MemberInvStep DEF MemberStep
<1> QED BY <1>1, MemberInvInit, PTL DEF WorkspacesSpec

\* Nobody ever holds a role that is not a live role of the own workspace.
THEOREM RolesHeldAreOwn == WorkspacesSpec => []HeldRolesAreOwn
<1>1. MemberInv => HeldRolesAreOwn
  BY DEF MemberInv, RowsInv
<1> QED BY <1>1, MemberInvariant, PTL

\* A workspace keeps an active owner unless two requests that take an ownership
\* away overlap, or one takes it that did not see it.
THEOREM OwnersRemain == WorkspacesSpec => []OwnerRemains
<1>1. MemberInv => OwnerRemains
  BY DEF MemberInv, RowsInv
<1> QED BY <1>1, MemberInvariant, PTL

\* Only a request let into a workspace changes its memberships.
THEOREM AddressedInOwnWorkspace == WorkspacesSpec => OwnWorkspaceOnly
<1>1. MemberInv /\ [WorkspacesNext]_wsVars => [AddressedStep]_wsVars
  BY MemberInvStep DEF MemberStep
<1> QED BY <1>1, MemberInvariant, PTL DEF WorkspacesSpec, OwnWorkspaceOnly, AddressedStep

\* A role is taken from a member by an update of that member only, unless it
\* was given while its deletion was under way.
THEOREM NothingStrippedSilently == WorkspacesSpec => NoSilentStripping
<1>1. MemberInv /\ [WorkspacesNext]_wsVars => [StrippingStep]_wsVars
  BY MemberInvStep DEF MemberStep
<1> QED BY <1>1, MemberInvariant, PTL DEF WorkspacesSpec, NoSilentStripping, StrippingStep


\* A request that takes an ownership away has looked at the owners, if the row
\* is an owner's row.
Looked(q) ==
  /\ q.op \in {"update", "remove"}
  /\ members[q.row].owner
  /\ q.op = "update" => q.owner = "no" \/ q.status \notin {"keep", "ACTIVE"}
  => q.guarded

\* Taken one at a time, requests leave no exception to it: a workspace that
\* exists always has an active owner (api/v1/members.py).
THEOREM SerialOwnerRemains ==
  ASSUME \A c, d \in Clients : c = d
  PROVE  WorkspacesSpec => [](\A t \in Tenants : tenants[t] # "absent" => Owners(t) # {})
<1> DEFINE Serial == wsRaced = {} /\ \A c \in Clients : Looked(wsReq[c])
<1>1. WorkspacesInit => Serial
  BY DEF WorkspacesInit, Looked, idle
<1>2. MemberInv /\ Serial /\ [WorkspacesNext]_wsVars => Serial'
  <2> SUFFICES ASSUME MemberInv, Serial, [WorkspacesNext]_wsVars
               PROVE  Serial'
    OBVIOUS
  <2>0. members \in [Rows -> MemberRows \cup {NoRow, GoneRow}]
    BY DEF MemberInv, WorkspacesTypeOK
  <2>1. ASSUME NEW c \in Clients, wsReq[c].op \in {"update", "remove"}
        PROVE  wsReq[c].row \in Rows /\ members[wsReq[c].row] # NoRow
    <3>1. wsReq[c] \in WsRequests
      BY <2>1 DEF MemberInv, WorkspacesTypeOK, idle
    <3>2. wsReq[c].row \in Rows
      BY <2>1, <3>1, RequestShape
    <3> QED BY <2>1, <3>2 DEF MemberInv, RequestHolds
  <2>2. ASSUME NEW t \in Tenants, NEW u \in Users, CreateTenant(t, u)
        PROVE  Serial'
    <3>1. PICK m \in Rows :
            /\ NextRow(m)
            /\ members' = [members EXCEPT ![m] = NewMember(t, u, "ACTIVE", TRUE, {"owner"})]
      BY <2>2 DEF CreateTenant
    <3>2. wsReq' = wsReq /\ wsRaced' = wsRaced
      BY <2>2 DEF CreateTenant
    <3>3. \A c \in Clients : wsReq[c].op \in {"update", "remove"} =>
            members'[wsReq[c].row] = members[wsReq[c].row]
      BY <2>0, <2>1, <3>1 DEF NextRow
    <3> QED BY <3>2, <3>3 DEF Looked
  <2>3. ASSUME NEW c \in Clients, NEW q, WsBegin(c, q), Looked(q)
        PROVE  Serial'
    BY <2>3 DEF WsBegin, Looked, MemberInv, WorkspacesTypeOK
  <2>4. ASSUME NEW c \in Clients, NEW u \in Users, NEW t \in Tenants, MemberRoute(c, u, t)
        PROVE  Serial'
    <3>1. ASSUME NEW m \in Rows, NEW a \in Changes, UpdateMember(c, u, t, m, a)
          PROVE  Serial'
      BY <2>3, <3>1 DEF UpdateMember, LosingOwnership, Looked
    <3>2. ASSUME NEW m \in Rows, RemoveMember(c, u, t, m)
          PROVE  Serial'
      BY <2>3, <3>2 DEF RemoveMember, Looked
    <3>3. ASSUME NEW user \in Users, NEW a \in Additions, AddMember(c, u, t, user, a)
          PROVE  Serial'
      BY <2>3, <3>3 DEF AddMember, Looked
    <3> QED BY <2>4, <3>1, <3>2, <3>3 DEF MemberRoute
  <2>5. ASSUME NEW c \in Clients, NEW u \in Users, NEW t \in Tenants,
               RoleRoute(c, u, t) \/ \E st \in TenantStatuses : UpdateTenant(c, u, t, st)
        PROVE  Serial'
    BY <2>3, <2>5 DEF RoleRoute, CreateRole, UpdateRole, DeleteRole, UpdateTenant, Looked
  <2>6. ASSUME NEW c \in Clients, WsCommit(c)
        PROVE  Serial'
    <3>1. \A d \in Clients : d = c
      OBVIOUS
    <3>2. wsReq'[c] = idle
      BY <2>6 DEF WsCommit, CommitAdd, CommitUpdate, CommitRemove, CommitCreateRole,
                  CommitUpdateRole, CommitDeleteRole, CommitTenant, WsRollback, WsDone, MarkLate,
                  MemberInv, WorkspacesTypeOK
    <3>3. wsRaced' = {}
      <4>1. CASE CommitUpdate(c)
        BY <3>1, <4>1 DEF CommitUpdate, OwnerRace, Owners, Looked
      <4>2. CASE CommitRemove(c)
        BY <3>1, <4>2 DEF CommitRemove, OwnerRace, Owners, Looked
      <4> QED BY <2>6, <4>1, <4>2
                 DEF WsCommit, CommitAdd, CommitCreateRole, CommitUpdateRole, CommitDeleteRole,
                     CommitTenant, WsRollback
    <3> QED BY <3>1, <3>2, <3>3 DEF Looked, idle
  <2>7. CASE UNCHANGED wsVars
    BY <2>7 DEF wsVars, Looked
  <2> QED BY <2>2, <2>4, <2>5, <2>6, <2>7 DEF WorkspacesNext
<1>3. OwnerRemains /\ Serial => \A t \in Tenants : tenants[t] # "absent" => Owners(t) # {}
  BY DEF OwnerRemains
<1> QED BY <1>1, <1>2, <1>3, MemberInvariant, OwnersRemain, PTL DEF WorkspacesSpec

=============================================================================
